---------------------------- MODULE FlashProofs ----------------------------
(***************************************************************************)
(* Proofs about the flash controller: its type invariant, the protection   *)
(* of the failsafe and reserved sectors, the discipline on the SPI port    *)
(* and the correctness of erase-then-program, for every geometry, every    *)
(* set of requests and any number of restarts.                             *)
(*                                                                         *)
(* Then about the two writers on it (FlashCallers): their use of it is one *)
(* that these theorems are about, and what the USB host was told is stored *)
(* stays stored.                                                           *)
(***************************************************************************)
EXTENDS FlashCallers, SequenceTheorems, TLAPS

(* The strengthening: what makes the properties inductive. *)

\* The transfer in progress was admitted: it lies in one sector, and the entry
\* point that admitted it was entitled to that sector.
Admitted ==
  flash_busy =>
    /\ transfer.src \in Buffers
    /\ transfer.sector \in Sector
    /\ transfer.page + transfer.size <= SectorPages
    /\ transfer.size > 0
    /\ transfer.sector >= FailsafeEnd
    /\ transfer.sector < FirstSafe => origin = "write_flash_unsafe"

\* Pages are programmed in order, so the mask is an interval and the bytes
\* that remain say where it starts.
MaskIsInterval ==
  pages_to_program # {} =>
    /\ flash_busy
    /\ flash_state # "VERIFY_TRACK"
    /\ bytes_remaining \in 1..transfer.size
    /\ pages_to_program = transfer.size - bytes_remaining .. transfer.size - 1

\* The chip works only while the view is off, and never on a failsafe sector.
OperationInv == wip # NULL => bitbang /\ wip.sector >= FailsafeEnd

\* What the chip will hold once it is idle: the planned pages that have left
\* the mask hold the buffer's bits, and the others can still be programmed.
WillHold(i) == Settled[transfer.sector][transfer.page + i]
DataInv ==
  sound =>
    /\ flash_busy => planned \subseteq 0..transfer.size - 1
    /\ flash_state = "ERASE_TRACK" => pages_to_program = planned
    /\ flash_state = "WRITE_SECTOR" =>
         /\ pages_to_program \subseteq planned
         /\ \A i \in planned \ pages_to_program : WillHold(i) = ram[transfer.src][i]
         /\ \A i \in pages_to_program : ram[transfer.src][i] \subseteq WillHold(i)
    /\ flash_state = "VERIFY_TRACK" =>
         \A i \in planned : WillHold(i) = ram[transfer.src][i]

SafetyInv ==
  /\ TypeOK
  /\ Admitted
  /\ MaskIsInterval
  /\ OperationInv
  /\ NeverForbidden
  /\ ModeAgrees

----------------------------------------------------------------------------
(* Operators *)

\* The least element of an interval is its left end.
LEMMA MinOfInterval ==
  ASSUME NEW a \in Int, NEW b \in Int, a <= b
  PROVE  Min(a..b) = a
<1>1. a \in a..b /\ \A y \in a..b : a <= y
  OBVIOUS
<1>2. \A x \in a..b : (\A y \in a..b : x <= y) => x = a
  BY <1>1
<1>. QED
  BY <1>1, <1>2 DEF Min

LEMMA SizeType == \A n \in Sizes : n \in Nat /\ n > 0
<1>1. Sizes \subseteq Nat \ {0}
  BY GeometryAssumption
<1>2. \A n \in Sizes : n \in Nat /\ n # 0
  BY <1>1
<1>. QED
  BY <1>2

\* Transfers have the fields one expects.
LEMMA TransferFields ==
  ASSUME NEW t \in Transfer
  PROVE  /\ t.sector \in Nat /\ t.page \in PageNo /\ t.page \in Nat
         /\ t.size \in Nat
<1>1. t.sector \in 0..NumSectors /\ t.page \in PageNo /\ t.size \in Sizes \cup {0}
  BY DEF Transfer
<1>2. t.size \in Nat
  BY <1>1, SizeType
<1>3. t.sector \in Nat /\ t.page \in Nat
  BY <1>1, GeometryAssumption DEF PageNo
<1>. QED
  BY <1>1, <1>2, <1>3

LEMMA NoTransferType == NoTransfer \in Transfer
<1>1. 0 \in 0..NumSectors /\ 0 \in PageNo
  BY GeometryAssumption DEF PageNo
<1>. QED
  BY <1>1 DEF NoTransfer, Transfer

LEMMA RequestType ==
  ASSUME NEW t \in Request
  PROVE  /\ t \in Transfer
         /\ t.src \in Buffers /\ t.size > 0
         /\ ~OutOfRange(t) => t.sector \in Sector
                              /\ t.page + t.size <= SectorPages
<1>1. t \in Transfer
  BY DEF Request, Transfer
<1>2. t.src \in Buffers /\ t.size \in Sizes /\ t.sector \in 0..NumSectors
  BY DEF Request
<1>3. t.size \in Nat /\ t.size > 0
  BY <1>2, SizeType
<1>4. ASSUME ~OutOfRange(t)
      PROVE  t.sector \in Sector /\ t.page + t.size <= SectorPages
  BY <1>1, <1>2, <1>3, <1>4, TransferFields, GeometryAssumption
  DEF OutOfRange, Sector
<1>. QED
  BY <1>1, <1>2, <1>3, <1>4

\* What a read of a sector may return is a sector's worth of pages.
LEMMA ViewType ==
  ASSUME TypeOK, NEW s \in Sector, NEW view \in View(s)
  PROVE  view \in [PageNo -> Content]
BY PayloadAssumption DEF TypeOK, View

\* The chip's operation preserves the type of what it holds.
LEMMA SettledType ==
  ASSUME TypeOK
  PROVE  Settled \in [Sector -> [PageNo -> Content]]
<1>1. CASE wip = NULL
  BY <1>1 DEF TypeOK, Settled
<1>2. CASE wip # NULL /\ wip.op = "erase"
  BY <1>2 DEF TypeOK, Settled, Operation, Content
<1>3. CASE wip # NULL /\ wip.op = "program"
  <2>1. wip.sector \in Sector /\ wip.page \in PageNo
    BY <1>3 DEF TypeOK, Operation
  <2>2. Settled = [mem EXCEPT ![wip.sector][wip.page] = @ \cap wip.data]
    BY <1>3 DEF Settled
  <2>3. mem[wip.sector][wip.page] \cap wip.data \in Content
    BY <2>1 DEF TypeOK, Content
  <2>. QED
    BY <2>1, <2>2, <2>3 DEF TypeOK
<1>. QED
  BY <1>1, <1>2, <1>3 DEF TypeOK, Operation

----------------------------------------------------------------------------
(* The safety invariant *)

LEMMA SafetyInit == Init => SafetyInv
<1>. SUFFICES ASSUME Init PROVE SafetyInv
  OBVIOUS
<1>1. TypeOK
  <2>1. mem \in [Sector -> [PageNo -> Content]]
    BY PayloadAssumption DEF Init
  <2>. QED
    BY <2>1, NoTransferType DEF Init, TypeOK
<1>2. Admitted /\ MaskIsInterval /\ OperationInv /\ NeverForbidden /\ ModeAgrees
  BY DEF Init, Admitted, MaskIsInterval, OperationInv, NeverForbidden,
         ModeAgrees, flash_busy
<1>. QED
  BY <1>1, <1>2 DEF SafetyInv

\* Both entry points start a transfer the same way.
LEMMA StartSafe ==
  ASSUME SafetyInv, ~flash_busy,
         NEW t \in Request, NEW erase \in BOOLEAN,
         NEW view \in [PageNo -> Content],
         NEW entry \in {"write_flash", "write_flash_unsafe"}, NEW rc,
         ~OutOfRange(t), ~Failsafe(t),
         Unsafe(t) => entry = "write_flash_unsafe" /\ allow_unsafe' = TRUE,
         allow_unsafe' \in BOOLEAN,
         Start(t, erase, view, entry, rc)
  PROVE  SafetyInv'
<1>. DEFINE pages == PagesToProgram(t, erase, view)
<1>1. /\ t.src \in Buffers /\ t.sector \in Sector
      /\ t.page \in PageNo /\ t.size \in Nat /\ t.size > 0
      /\ t.page + t.size <= SectorPages
      /\ t.sector >= FailsafeEnd
      /\ t \in Transfer
  <2>1. t \in Transfer /\ t.sector \in Nat
    BY RequestType, TransferFields
  <2>2. t.sector >= FailsafeEnd
    BY <2>1, GeometryAssumption DEF Failsafe
  <2>. QED
    BY <2>1, <2>2, RequestType, TransferFields
<1>2. pages = {} \/ pages = 0..t.size - 1
  BY DEF PagesToProgram
<1>3. /\ transfer' = t /\ bytes_remaining' = t.size /\ pages_to_program' = pages
      /\ planned' = pages /\ origin' = entry /\ sound' = ~bitbang
      /\ mem' = mem /\ wip' = wip /\ ram' = ram
      /\ IF erase \/ pages # {}
           THEN /\ flash_state' = IF erase THEN "ERASE_TRACK" ELSE "WRITE_SECTOR"
                /\ bitbang' = TRUE
           ELSE flash_state' = flash_state /\ bitbang' = bitbang
  BY DEF Start
<1>4. pages \subseteq PageNo
  BY <1>1, <1>2, GeometryAssumption DEF PageNo
<1>5. TypeOK'
  BY <1>1, <1>3, <1>4 DEF SafetyInv, TypeOK
<1>6. Admitted'
  BY <1>1, <1>3 DEF Admitted, Unsafe
<1>7. MaskIsInterval'
  BY <1>1, <1>2, <1>3 DEF MaskIsInterval, flash_busy
<1>8. OperationInv'
  BY <1>3 DEF SafetyInv, OperationInv
<1>9. NeverForbidden'
  BY <1>3 DEF NeverForbidden, Forbidden, Unsafe
<1>10. ModeAgrees'
  BY <1>3 DEF SafetyInv, ModeAgrees, flash_busy, TypeOK
<1>. QED
  BY <1>5, <1>6, <1>7, <1>8, <1>9, <1>10 DEF SafetyInv

LEMMA SafetyStep == SafetyInv /\ [Next]_vars => SafetyInv'
<1>. SUFFICES ASSUME SafetyInv, [Next]_vars PROVE SafetyInv'
  OBVIOUS
<1>. USE DEF SafetyInv
<1>0. CASE UNCHANGED vars
  BY <1>0
  DEF vars, control, history, TypeOK, Admitted, MaskIsInterval, OperationInv,
      NeverForbidden, Forbidden, ModeAgrees, flash_busy
<1>1. ASSUME NEW t \in Request, NEW rc \in {"zero", "size"}, write_flash(t, rc)
      PROVE  SafetyInv'
  <2>1. CASE UNCHANGED vars
    BY <1>0, <2>1
  <2>2. ASSUME ~flash_busy, ~Unsafe(t), ~OutOfRange(t),
               NEW scan \in View(t.sector), NEW view \in View(t.sector),
               Start(t, NeedsErase(t, scan), view, "write_flash", rc),
               UNCHANGED allow_unsafe
        PROVE  SafetyInv'
    <3>1. t.sector \in Sector /\ ~Failsafe(t)
      BY <2>2, RequestType, TransferFields, GeometryAssumption
      DEF Unsafe, Failsafe
    <3>2. view \in [PageNo -> Content]
      BY <2>2, <3>1, ViewType
    <3>3. NeedsErase(t, scan) \in BOOLEAN
      BY DEF NeedsErase, SetsBits, FirstChunk, RestDirty
    <3>4. allow_unsafe' \in BOOLEAN
      BY <2>2 DEF TypeOK
    <3>. QED
      BY <2>2, <3>1, <3>2, <3>3, <3>4, StartSafe
  <2>. QED
    BY <1>1, <2>1, <2>2 DEF write_flash
<1>2. ASSUME NEW t \in Request, NEW rc \in {"zero", "size"},
             write_flash_unsafe(t, rc)
      PROVE  SafetyInv'
  <2>1. CASE UNCHANGED vars
    BY <1>0, <2>1
  <2>2. ASSUME ~flash_busy, ~Failsafe(t), ~OutOfRange(t),
               NEW scan \in View(t.sector), NEW view \in View(t.sector),
               Start(t, SetsBits(t, scan), view, "write_flash_unsafe", rc),
               allow_unsafe' = TRUE
        PROVE  SafetyInv'
    <3>1. t.sector \in Sector
      BY <2>2, RequestType
    <3>2. view \in [PageNo -> Content]
      BY <2>2, <3>1, ViewType
    <3>3. SetsBits(t, scan) \in BOOLEAN
      BY DEF SetsBits
    <3>. QED
      BY <2>2, <3>1, <3>2, <3>3, StartSafe
  <2>. QED
    BY <1>2, <2>1, <2>2 DEF write_flash_unsafe
<1>3. CASE flash_erase
  <2>1. TypeOK'
    BY <1>3 DEF flash_erase, history, TypeOK, Operation, Admitted, flash_busy
  <2>2. Admitted' /\ MaskIsInterval' /\ OperationInv'
    BY <1>3 DEF flash_erase, history, Admitted, MaskIsInterval, OperationInv,
                ModeAgrees, flash_busy, TypeOK
  <2>3. NeverForbidden' /\ ModeAgrees'
    BY <1>3 DEF flash_erase, history, NeverForbidden, Forbidden, ModeAgrees,
                flash_busy
  <2>. QED
    BY <2>1, <2>2, <2>3
<1>4. CASE flash_program
  <2>. DEFINE i == transfer.size - bytes_remaining
  <2>1. /\ flash_busy /\ bytes_remaining \in 1..transfer.size
        /\ transfer.size \in Nat /\ transfer.page \in Nat
        /\ pages_to_program = i..transfer.size - 1
        /\ transfer.page + transfer.size <= SectorPages
        /\ transfer.sector \in Sector /\ transfer.src \in Buffers
        /\ transfer.sector >= FailsafeEnd
        /\ bitbang
    <3>1. flash_busy /\ pages_to_program # {}
      BY <1>4 DEF flash_program, flash_busy
    <3>2. transfer.size \in Nat /\ transfer.page \in Nat
      BY TransferFields DEF TypeOK
    <3>. QED
      BY <3>1, <3>2 DEF MaskIsInterval, Admitted, ModeAgrees
  <2>2. Min(pages_to_program) = i
    BY <2>1, MinOfInterval
  <2>3. /\ wip' = [op |-> "program", sector |-> transfer.sector,
                   page |-> transfer.page + i, data |-> ram[transfer.src][i]]
        /\ pages_to_program' = pages_to_program \ {i}
        /\ bytes_remaining' = bytes_remaining - 1
        /\ transfer' = transfer /\ bitbang' = bitbang /\ mem' = mem /\ ram' = ram
        /\ planned' = planned /\ origin' = origin /\ sound' = sound
        /\ flash_state = "WRITE_SECTOR"
    BY <1>4, <2>2 DEF flash_program, history
  <2>4. \/ /\ bytes_remaining - 1 = 0 /\ flash_state' = "VERIFY_TRACK"
           /\ allow_unsafe' = FALSE
        \/ /\ bytes_remaining - 1 # 0 /\ flash_state' = flash_state
           /\ allow_unsafe' = allow_unsafe
    BY <1>4, <2>3 DEF flash_program
  <2>5. pages_to_program' = i + 1 .. transfer.size - 1
    BY <2>1, <2>3
  <2>6. TypeOK'
    <3>1. i \in PageNo /\ transfer.page + i \in PageNo
      BY <2>1, GeometryAssumption DEF PageNo
    <3>2. ram[transfer.src][i] \in Content
      BY <2>1, <3>1, PayloadAssumption DEF TypeOK
    <3>3. wip' \in Operation
      BY <2>1, <2>3, <3>1, <3>2 DEF Operation
    <3>4. pages_to_program' \subseteq PageNo /\ bytes_remaining' \in Nat
      BY <2>1, <2>3 DEF TypeOK
    <3>5. allow_unsafe' \in BOOLEAN
          /\ flash_state' \in {"WRITE_SECTOR", "VERIFY_TRACK"}
      BY <2>3, <2>4 DEF TypeOK
    <3>. QED
      BY <2>3, <3>3, <3>4, <3>5 DEF TypeOK
  <2>7. Admitted'
    BY <2>1, <2>3 DEF Admitted, flash_busy
  <2>8. MaskIsInterval'
    <3>1. CASE bytes_remaining = 1
      <4>1. pages_to_program' = {}
        BY <2>1, <2>5, <3>1
      <4>. QED
        BY <4>1 DEF MaskIsInterval
    <3>2. CASE bytes_remaining # 1
      BY <2>1, <2>3, <2>4, <2>5, <3>2 DEF MaskIsInterval, flash_busy
    <3>. QED
      BY <3>1, <3>2
  <2>9. OperationInv'
    BY <2>1, <2>3 DEF OperationInv
  <2>10. NeverForbidden' /\ ModeAgrees'
    BY <2>1, <2>3, <2>4 DEF NeverForbidden, Forbidden, ModeAgrees, flash_busy
  <2>. QED
    BY <2>6, <2>7, <2>8, <2>9, <2>10
<1>5. CASE flash_abandon
  <2>1. pages_to_program = {}
    BY <1>5 DEF flash_abandon, NeverForbidden
  <2>. QED
    BY <1>5, <2>1
    DEF flash_abandon, history, TypeOK, Admitted, MaskIsInterval, OperationInv,
        NeverForbidden, Forbidden, ModeAgrees, flash_busy
<1>6. CASE flash_verify
  BY <1>6
  DEF flash_verify, history, spiIsBusy, TypeOK, Admitted, MaskIsInterval,
      OperationInv, NeverForbidden, Forbidden, ModeAgrees, flash_busy
<1>7. CASE chip_done
  <2>1. TypeOK'
    BY <1>7, SettledType DEF chip_done, control, history, TypeOK
  <2>2. Admitted' /\ MaskIsInterval' /\ OperationInv' /\ NeverForbidden' /\ ModeAgrees'
    BY <1>7
    DEF chip_done, control, history, Admitted, MaskIsInterval, OperationInv,
        NeverForbidden, Forbidden, ModeAgrees, flash_busy
  <2>. QED
    BY <2>1, <2>2
<1>8. ASSUME NEW b \in Buffers, NEW data \in Payloads, fill(b, data)
      PROVE  SafetyInv'
  <2>1. TypeOK'
    BY <1>8 DEF fill, control, TypeOK
  <2>2. Admitted' /\ MaskIsInterval' /\ OperationInv' /\ NeverForbidden' /\ ModeAgrees'
    BY <1>8
    DEF fill, control, Admitted, MaskIsInterval, OperationInv,
        NeverForbidden, Forbidden, ModeAgrees, flash_busy
  <2>. QED
    BY <2>1, <2>2
<1>9. CASE restart
  <2>1. TypeOK'
    BY <1>9, NoTransferType DEF restart, TypeOK
  <2>2. Admitted' /\ MaskIsInterval' /\ OperationInv' /\ NeverForbidden' /\ ModeAgrees'
    BY <1>9
    DEF restart, Admitted, MaskIsInterval, OperationInv,
        NeverForbidden, Forbidden, ModeAgrees, flash_busy
  <2>. QED
    BY <2>1, <2>2
<1>. QED
  BY <1>0, <1>1, <1>2, <1>3, <1>4, <1>5, <1>6, <1>7, <1>8, <1>9
  DEF Next, flash_task

LEMMA SafetyInvariant == Spec => []SafetyInv
<1>. QED
  BY SafetyInit, SafetyStep, PTL DEF Spec

----------------------------------------------------------------------------
(* The data invariant *)

\* What the chip is going to hold changes only by a command.
LEMMA SettledStable ==
  ASSUME TypeOK, (mem' = mem /\ wip' = wip) \/ chip_done
  PROVE  Settled' = Settled
BY DEF Settled, chip_done

\* A started transfer can be programmed on what the chip holds.
LEMMA StartData ==
  ASSUME SafetyInv, ~flash_busy,
         NEW t \in Request, ~OutOfRange(t),
         NEW erase \in BOOLEAN, NEW entry, NEW rc,
         NEW scan \in View(t.sector), NEW view \in View(t.sector),
         ~erase => ~SetsBits(t, scan),
         Start(t, erase, view, entry, rc)
  PROVE  DataInv'
<1>. DEFINE pages == PagesToProgram(t, erase, view)
<1>. SUFFICES ASSUME sound' PROVE DataInv'
  BY DEF DataInv
<1>1. /\ transfer' = t /\ pages_to_program' = pages /\ planned' = pages
      /\ mem' = mem /\ wip' = wip /\ ram' = ram /\ ~bitbang
      /\ \/ flash_state' = "ERASE_TRACK"
         \/ flash_state' = "WRITE_SECTOR" /\ ~erase
         \/ flash_state' = "USER_MODE"
  BY DEF Start, flash_busy
<1>2. wip = NULL /\ scan = mem[t.sector]
  BY <1>1 DEF SafetyInv, OperationInv, View
<1>3. Settled' = mem
  BY <1>1, <1>2 DEF Settled
<1>4. pages \subseteq 0..t.size - 1
  BY DEF PagesToProgram
<1>5. ASSUME ~erase, NEW i \in pages
      PROVE  ram[t.src][i] \subseteq mem[t.sector][t.page + i]
  BY <1>2, <1>4, <1>5 DEF SetsBits
<1>. QED
  BY <1>1, <1>3, <1>4, <1>5 DEF DataInv, WillHold, flash_busy

LEMMA DataStep == SafetyInv /\ DataInv /\ [Next]_vars => DataInv'
<1>. SUFFICES ASSUME SafetyInv, DataInv, [Next]_vars PROVE DataInv'
  OBVIOUS
<1>. USE DEF SafetyInv
<1>0. CASE UNCHANGED vars
  BY <1>0 DEF vars, control, history, DataInv, WillHold, Settled, flash_busy
<1>1. ASSUME NEW t \in Request, NEW rc \in {"zero", "size"}, write_flash(t, rc)
      PROVE  DataInv'
  <2>1. CASE UNCHANGED vars
    BY <1>0, <2>1
  <2>2. ASSUME ~flash_busy, ~OutOfRange(t),
               NEW scan \in View(t.sector), NEW view \in View(t.sector),
               Start(t, NeedsErase(t, scan), view, "write_flash", rc)
        PROVE  DataInv'
    <3>1. NeedsErase(t, scan) \in BOOLEAN
          /\ (~NeedsErase(t, scan) => ~SetsBits(t, scan))
      BY DEF NeedsErase, SetsBits, FirstChunk, RestDirty
    <3>. QED
      BY <2>2, <3>1, StartData
  <2>. QED
    BY <1>1, <2>1, <2>2 DEF write_flash
<1>2. ASSUME NEW t \in Request, NEW rc \in {"zero", "size"},
             write_flash_unsafe(t, rc)
      PROVE  DataInv'
  <2>1. CASE UNCHANGED vars
    BY <1>0, <2>1
  <2>2. ASSUME ~flash_busy, ~OutOfRange(t),
               NEW scan \in View(t.sector), NEW view \in View(t.sector),
               Start(t, SetsBits(t, scan), view, "write_flash_unsafe", rc)
        PROVE  DataInv'
    <3>1. SetsBits(t, scan) \in BOOLEAN
      BY DEF SetsBits
    <3>. QED
      BY <2>2, <3>1, StartData
  <2>. QED
    BY <1>2, <2>1, <2>2 DEF write_flash_unsafe
<1>3. CASE flash_erase
  <2>. SUFFICES ASSUME sound PROVE DataInv'
    BY <1>3 DEF DataInv, flash_erase, history
  <2>1. /\ transfer' = transfer /\ pages_to_program' = pages_to_program
        /\ planned' = planned /\ ram' = ram /\ mem' = mem /\ flash_busy
        /\ flash_state' = "WRITE_SECTOR" /\ flash_state = "ERASE_TRACK"
        /\ wip' = [op |-> "erase", sector |-> transfer.sector]
    BY <1>3 DEF flash_erase, history, flash_busy
  <2>2. /\ transfer.src \in Buffers /\ transfer.sector \in Sector
        /\ transfer.page \in Nat /\ transfer.size \in Nat
        /\ transfer.page + transfer.size <= SectorPages
    BY <2>1, TransferFields DEF Admitted, TypeOK
  <2>3. planned \subseteq 0..transfer.size - 1 /\ pages_to_program = planned
    BY <2>1 DEF DataInv
  <2>4. ASSUME NEW i \in planned
        PROVE  ram[transfer.src][i] \subseteq WillHold(i)'
    <3>1. i \in PageNo /\ transfer.page + i \in PageNo
      BY <2>2, <2>3, GeometryAssumption DEF PageNo
    <3>2. ram[transfer.src][i] \subseteq Bits
      BY <2>2, <3>1, PayloadAssumption DEF TypeOK, Content
    <3>3. wip' # NULL
      BY <2>1, <2>2, NullAssumption DEF Operation
    <3>4. Settled' = [mem EXCEPT ![transfer.sector] = [p \in PageNo |-> Bits]]
      BY <2>1, <3>3 DEF Settled
    <3>. QED
      BY <2>1, <2>2, <3>1, <3>2, <3>4 DEF WillHold, TypeOK
  <2>. QED
    BY <2>1, <2>3, <2>4 DEF DataInv
<1>4. CASE flash_program
  <2>. SUFFICES ASSUME sound PROVE DataInv'
    BY <1>4 DEF DataInv, flash_program, history
  <2>0. PICK k \in Int : k = transfer.size - bytes_remaining
    BY TransferFields DEF TypeOK
  <2>1. /\ flash_busy /\ flash_state = "WRITE_SECTOR" /\ wip = NULL
        /\ pages_to_program # {}
    BY <1>4 DEF flash_program, flash_busy, spiIsBusy
  <2>2. /\ transfer.src \in Buffers /\ transfer.sector \in Sector
        /\ transfer.page \in Nat /\ transfer.size \in Nat
        /\ transfer.page + transfer.size <= SectorPages
        /\ bytes_remaining \in 1..transfer.size
        /\ pages_to_program = k..transfer.size - 1
    BY <2>0, <2>1, TransferFields DEF Admitted, MaskIsInterval, TypeOK
  <2>3. Min(pages_to_program) = k
    BY <2>0, <2>2, MinOfInterval
  <2>4. /\ transfer' = transfer /\ planned' = planned /\ ram' = ram /\ mem' = mem
        /\ pages_to_program' = pages_to_program \ {k}
        /\ wip' = [op |-> "program", sector |-> transfer.sector,
                   page |-> transfer.page + k, data |-> ram[transfer.src][k]]
        /\ \/ flash_state' = "WRITE_SECTOR"
           \/ flash_state' = "VERIFY_TRACK" /\ bytes_remaining - 1 = 0
    BY <1>4, <2>1, <2>3 DEF flash_program, history
  <2>5. /\ planned \subseteq 0..transfer.size - 1
        /\ pages_to_program \subseteq planned
        /\ \A i \in planned \ pages_to_program : WillHold(i) = ram[transfer.src][i]
        /\ \A i \in pages_to_program : ram[transfer.src][i] \subseteq WillHold(i)
    BY <2>1 DEF DataInv
  <2>6. \A i \in planned : i \in Nat /\ i \in PageNo /\ transfer.page + i \in PageNo
    BY <2>2, <2>5, GeometryAssumption DEF PageNo
  <2>7. k \in pages_to_program /\ k \in planned
    BY <2>0, <2>2, <2>5
  <2>8. Settled = mem
    BY <2>1 DEF Settled
  <2>9. Settled' = [mem EXCEPT ![transfer.sector][transfer.page + k] =
                                  @ \cap ram[transfer.src][k]]
    <3>1. ram[transfer.src][k] \in Content
      BY <2>2, <2>6, <2>7, PayloadAssumption DEF TypeOK
    <3>2. wip' \in Operation
      BY <2>2, <2>4, <2>6, <2>7, <3>1 DEF Operation
    <3>3. wip' # NULL
      BY <3>2, NullAssumption
    <3>. QED
      BY <2>4, <3>3 DEF Settled
  <2>10. WillHold(k)' = ram[transfer.src][k]
    BY <2>2, <2>4, <2>5, <2>6, <2>7, <2>8, <2>9 DEF WillHold, TypeOK
  <2>11. ASSUME NEW i \in planned, i # k
         PROVE  WillHold(i)' = WillHold(i)
    <3>1. transfer.page + i # transfer.page + k
      BY <2>2, <2>6, <2>11
    <3>. QED
      BY <2>2, <2>4, <2>6, <2>7, <2>8, <2>9, <2>11, <3>1 DEF WillHold, TypeOK
  <2>12. CASE flash_state' = "WRITE_SECTOR"
    <3>1. \A i \in planned' \ pages_to_program' : WillHold(i)' = ram[transfer.src][i]
      BY <2>4, <2>5, <2>10, <2>11
    <3>2. \A i \in pages_to_program' : ram[transfer.src][i] \subseteq WillHold(i)'
      BY <2>4, <2>5, <2>11
    <3>3. planned' \subseteq 0..transfer.size - 1 /\ pages_to_program' \subseteq planned'
      BY <2>4, <2>5
    <3>4. flash_state' \notin {"ERASE_TRACK", "VERIFY_TRACK"}
      BY <2>12
    <3>. QED
      BY <2>4, <3>1, <3>2, <3>3, <3>4 DEF DataInv, flash_busy
  <2>13. CASE flash_state' = "VERIFY_TRACK" /\ bytes_remaining - 1 = 0
    <3>1. pages_to_program = {k}
      BY <2>0, <2>2, <2>13
    <3>2. \A i \in planned : WillHold(i)' = ram[transfer.src][i]
      BY <2>5, <2>10, <2>11, <3>1
    <3>. QED
      BY <2>4, <2>5, <2>13, <3>2 DEF DataInv, flash_busy
  <2>. QED
    BY <2>4, <2>12, <2>13
<1>5. CASE flash_abandon
  <2>1. flash_state = "WRITE_SECTOR" /\ pages_to_program = {} /\ flash_busy
    BY <1>5 DEF flash_abandon, NeverForbidden, flash_busy
  <2>2. /\ transfer' = transfer /\ planned' = planned /\ ram' = ram /\ sound' = sound
        /\ mem' = mem /\ wip' = wip /\ flash_state' = "VERIFY_TRACK"
    BY <1>5 DEF flash_abandon, history
  <2>3. Settled' = Settled
    BY <2>2, SettledStable
  <2>. QED
    BY <2>1, <2>2, <2>3 DEF DataInv, WillHold, flash_busy
<1>6. CASE flash_verify
  BY <1>6 DEF flash_verify, DataInv, flash_busy
<1>7. CASE chip_done
  <2>1. Settled' = Settled
    BY <1>7, SettledStable
  <2>. QED
    BY <1>7, <2>1 DEF chip_done, control, history, DataInv, WillHold, flash_busy
<1>8. ASSUME NEW b \in Buffers, NEW data \in Payloads, fill(b, data)
      PROVE  DataInv'
  <2>. SUFFICES ASSUME sound' PROVE DataInv'
    BY DEF DataInv
  <2>1. /\ transfer' = transfer /\ planned' = planned /\ mem' = mem /\ wip' = wip
        /\ flash_state' = flash_state /\ pages_to_program' = pages_to_program
        /\ sound
        /\ flash_busy => ram'[transfer.src] = ram[transfer.src]
    BY <1>8 DEF fill, control, Admitted, TypeOK
  <2>2. Settled' = Settled
    BY <2>1, SettledStable
  <2>. QED
    BY <2>1, <2>2 DEF DataInv, WillHold, flash_busy
<1>9. CASE restart
  BY <1>9 DEF restart, DataInv
<1>. QED
  BY <1>0, <1>1, <1>2, <1>3, <1>4, <1>5, <1>6, <1>7, <1>8, <1>9
  DEF Next, flash_task

----------------------------------------------------------------------------
(* The steps that reach the chip *)

\* The entry points leave the chip and the buffers alone.
LEMMA EntryPointsLeaveChip ==
  ASSUME NEW t, NEW rc, write_flash(t, rc) \/ write_flash_unsafe(t, rc)
  PROVE  mem' = mem /\ wip' = wip /\ ram' = ram
BY DEF write_flash, write_flash_unsafe, Start, vars

LEMMA ChipSteps ==
  ASSUME [Next]_vars
  PROVE  \/ mem' = mem /\ wip' = wip
         \/ flash_erase
         \/ flash_program
         \/ chip_done
<1>1. ASSUME NEW t \in Request, NEW rc \in {"zero", "size"},
             write_flash(t, rc) \/ write_flash_unsafe(t, rc)
      PROVE  mem' = mem /\ wip' = wip
  BY <1>1, EntryPointsLeaveChip
<1>. QED
  BY <1>1 DEF Next, flash_task, flash_abandon, flash_verify, fill, restart, vars

\* A command is the erase or the program of the controller's current state.
LEMMA CommandStep ==
  ASSUME SafetyInv, [Next]_vars, Commands
  PROVE  /\ flash_state \in {"ERASE_TRACK", "WRITE_SECTOR"}
         /\ wip = NULL
         /\ ~Forbidden
         /\ wip'.sector = transfer.sector
<1>1. CASE flash_erase
  BY <1>1 DEF flash_erase, spiIsBusy
<1>2. CASE flash_program
  <2>1. (wip').sector = transfer.sector
    BY <1>2 DEF flash_program
  <2>. QED
    BY <1>2, <2>1 DEF flash_program, spiIsBusy
<1>. QED
  BY <1>1, <1>2, ChipSteps DEF Commands, chip_done

----------------------------------------------------------------------------
(* Theorems *)

\* Every variable keeps its type, for every geometry and every caller.
THEOREM TypeCorrect == Spec => []TypeOK
BY SafetyInvariant, PTL DEF SafetyInv

\* flash_task never meets a transfer it has to refuse (flash.c:339, 358).
THEOREM SecurityCheckNeverHappens == Spec => []NeverForbidden
BY SafetyInvariant, PTL DEF SafetyInv

\* The register and the state agree, up to what a restart left behind.
THEOREM ModeCorrect == Spec => []ModeAgrees
BY SafetyInvariant, PTL DEF SafetyInv

\* The memory-mapped view is on only over an idle chip.
THEOREM ViewOffWhileBusy == Spec => []MappedChipIsIdle
<1>1. SafetyInv => MappedChipIsIdle
  BY DEF SafetyInv, OperationInv, MappedChipIsIdle
<1>. QED
  BY <1>1, SafetyInvariant, PTL

\* No run changes a sector of the failsafe boot loader (flash.c:265).
THEOREM FailsafeSafe == Spec => FailsafeUntouched
<1>1. ASSUME SafetyInv, [Next]_vars
      PROVE  [LeavesFailsafe]_vars
  <2>1. CASE mem' = mem
    BY <2>1 DEF LeavesFailsafe
  <2>2. CASE chip_done
    <3>1. wip \in Operation /\ wip # NULL /\ wip.sector >= FailsafeEnd
      BY <1>1, <2>2 DEF chip_done, SafetyInv, TypeOK, OperationInv
    <3>2. wip.sector \in Nat
      BY <3>1, GeometryAssumption DEF Operation, Sector
    <3>3. \A s \in Sector : s < FailsafeEnd => s # wip.sector
      BY <3>1, <3>2, GeometryAssumption DEF Sector
    <3>4. mem' = Settled
      BY <2>2 DEF chip_done
    <3>. QED
      BY <1>1, <3>1, <3>3, <3>4 DEF Settled, SafetyInv, TypeOK, LeavesFailsafe
  <2>. QED
    BY <1>1, <2>1, <2>2, ChipSteps DEF flash_erase, flash_program
<1>. QED
  BY <1>1, SafetyInvariant, PTL DEF Spec, FailsafeUntouched

\* The reserved sectors are changed only on behalf of write_flash_unsafe.
THEOREM ReservedSafe == Spec => ReservedOnlyByUnsafe
<1>1. ASSUME SafetyInv, [Next]_vars
      PROVE  [Commands /\ wip'.sector < FirstSafe
                => origin = "write_flash_unsafe"]_vars
  BY <1>1, CommandStep DEF SafetyInv, Admitted, flash_busy
<1>. QED
  BY <1>1, SafetyInvariant, PTL DEF Spec, ReservedOnlyByUnsafe

\* The chip gets its commands one at a time, over the bit-bang port.
THEOREM PortDiscipline == Spec => CommandsOnlyWhenIdle
<1>1. ASSUME SafetyInv, [Next]_vars
      PROVE  [Commands => wip = NULL /\ bitbang]_vars
  BY <1>1, CommandStep DEF SafetyInv, ModeAgrees, flash_busy
<1>. QED
  BY <1>1, SafetyInvariant, PTL DEF Spec, CommandsOnlyWhenIdle

\* Erase-then-program is right: when the controller verifies, every page it
\* set out to program holds the buffer's bits.
THEOREM DataCorrect == Spec => []ProgrammedAsPlanned
<1>1. Init => DataInv
  BY DEF Init, DataInv
<1>2. SafetyInv /\ DataInv => ProgrammedAsPlanned
  BY DEF DataInv, ProgrammedAsPlanned, Settled, WillHold
<1>. QED
  BY <1>1, <1>2, DataStep, SafetyInvariant, PTL DEF Spec

\* write_flash starts an erase for a whole sector or for its first chunk only.
ErasesFromFirst ==
  flash_state = "ERASE_TRACK" /\ origin = "write_flash" => transfer.page = 0

LEMMA EraseStart ==
  ASSUME NEW t \in Request, NEW scan, ~OutOfRange(t), ~Unerasable(t, scan), NeedsErase(t, scan)
  PROVE  t.page = 0
<1>1. t.page \in Nat /\ t.size \in Nat /\ t.page + t.size <= SectorPages
  BY RequestType, TransferFields
<1>2. CASE FirstChunk(t)
  BY <1>2 DEF FirstChunk
<1>3. CASE t.size = SectorPages
  BY <1>1, <1>3
<1>. QED
  BY <1>2, <1>3 DEF NeedsErase, Unerasable

LEMMA EraseStep == ErasesFromFirst /\ [Next]_vars => ErasesFromFirst'
<1>. SUFFICES ASSUME ErasesFromFirst, [Next]_vars PROVE ErasesFromFirst'
  OBVIOUS
<1>0. CASE UNCHANGED vars
  BY <1>0 DEF vars, control, history, ErasesFromFirst
<1>1. ASSUME NEW t \in Request, NEW rc, write_flash(t, rc)
      PROVE  ErasesFromFirst'
  <2>1. ASSUME ~OutOfRange(t), ~flash_busy,
               NEW scan, NEW view, ~Unerasable(t, scan),
               Start(t, NeedsErase(t, scan), view, "write_flash", rc)
        PROVE  ErasesFromFirst'
    <3>1. CASE NeedsErase(t, scan)
      BY <2>1, <3>1, EraseStart DEF Start, ErasesFromFirst
    <3>2. CASE ~NeedsErase(t, scan)
      BY <2>1, <3>2 DEF Start, ErasesFromFirst, flash_busy
    <3>. QED
      BY <3>1, <3>2
  <2>. QED
    BY <1>0, <1>1, <2>1 DEF write_flash
<1>2. ASSUME NEW t \in Request, NEW rc, write_flash_unsafe(t, rc)
      PROVE  ErasesFromFirst'
  BY <1>0, <1>2 DEF write_flash_unsafe, Start, ErasesFromFirst
<1>. QED
  BY <1>0, <1>1, <1>2
  DEF Next, flash_task, flash_erase, flash_program, flash_abandon, flash_verify, chip_done,
      fill, restart, control, history, ErasesFromFirst

\* The chunks of a sector that were written survive the writing of the later
\* ones: the sector is erased for the first only (flash.c:185-190).
THEOREM ChunksSurvive == Spec => EarlierChunksSurvive
<1>1. Init => ErasesFromFirst
  BY DEF Init, ErasesFromFirst
<1>2. ASSUME ErasesFromFirst, [Next]_vars
      PROVE  [Commands /\ wip'.op = "erase" /\ origin = "write_flash" => transfer.page = 0]_vars
  <2>1. CASE flash_erase
    BY <1>2, <2>1 DEF flash_erase, ErasesFromFirst
  <2>2. CASE flash_program
    <3>1. (wip').op = "program"
      BY <2>2 DEF flash_program
    <3>. QED
      BY <3>1
  <2>. QED
    BY <1>2, <2>1, <2>2, ChipSteps DEF Commands, chip_done
<1>. QED
  BY <1>1, <1>2, EraseStep, PTL DEF Spec, EarlierChunksSurvive

----------------------------------------------------------------------------
(* Chunks of a sector *)

Start0(c) == c * ChunkPages   \* the first page of a chunk
FirstOf(p) == (p \div ChunkPages) * ChunkPages

LEMMA Division ==
  ASSUME NEW p \in Nat, NEW d \in Nat, d > 0
  PROVE  p \div d \in Nat /\ p % d \in 0..d - 1 /\ p = (p \div d) * d + (p % d)
OBVIOUS

\* A quotient and a remainder are the only ones.
LEMMA DivisionUnique ==
  ASSUME NEW d \in Nat, NEW q \in Nat, NEW c \in Nat, NEW r \in Nat, NEW e \in Nat,
         r < d, e < d, q * d + r = c * d + e
  PROVE  q = c /\ r = e
<1>1. CASE q > c
  <2>1. PICK k \in Nat : q = c + 1 + k
    BY <1>1
  <2>2. q * d = c * d + d + k * d /\ k * d >= 0
    BY <2>1
  <2> QED BY <2>2
<1>2. CASE q < c
  <2>1. PICK k \in Nat : c = q + 1 + k
    BY <1>2
  <2>2. c * d = q * d + d + k * d /\ k * d >= 0
    BY <2>1
  <2> QED BY <2>2
<1> QED BY <1>1, <1>2

LEMMA ChunkCount ==
  /\ ChunkPages \in Nat /\ ChunkPages > 0 /\ SectorPages \in Nat /\ ChunkPages < SectorPages
  /\ Chunks \in Nat /\ Chunks > 1 /\ SectorPages = Chunks * ChunkPages
<1>1. /\ ChunkPages \in Nat /\ ChunkPages > 0 /\ SectorPages \in Nat /\ ChunkPages < SectorPages
      /\ SectorPages % ChunkPages = 0
  BY GeometryAssumption, CallerAssumption
<1>2. Chunks \in Nat /\ SectorPages = Chunks * ChunkPages
  BY <1>1, Division DEF Chunks
<1>3. Chunks # 0 /\ Chunks # 1
  BY <1>1, <1>2
<1> QED BY <1>1, <1>2, <1>3

\* The chunks of a sector lie behind each other, the last one at its end.
LEMMA ChunkPlace ==
  ASSUME NEW c \in 0..Chunks - 1
  PROVE  /\ Start0(c) \in PageNo /\ Start0(c) \in Nat /\ Start0(c) + ChunkPages <= SectorPages
         /\ c = 0 => Start0(c) = 0
         /\ c > 0 => Start0(c) >= ChunkPages
         /\ Start0(c + 1) = Start0(c) + ChunkPages
<1>1. PICK k \in Nat : Chunks = c + 1 + k
  BY ChunkCount
<1>2. c * ChunkPages \in Nat /\ k * ChunkPages \in Nat
  BY ChunkCount
<1>3. SectorPages = c * ChunkPages + ChunkPages + k * ChunkPages
  BY <1>1, ChunkCount
<1>4. (c + 1) * ChunkPages = c * ChunkPages + ChunkPages
  BY ChunkCount
<1>5. ASSUME c > 0 PROVE c * ChunkPages >= ChunkPages
  <2>1. PICK n \in Nat : c = n + 1
    BY <1>5
  <2>2. c * ChunkPages = n * ChunkPages + ChunkPages /\ n * ChunkPages >= 0
    BY <2>1, ChunkCount
  <2> QED BY <2>2, ChunkCount
<1>6. c = 0 => c * ChunkPages = 0
  BY ChunkCount
<1> QED BY <1>2, <1>3, <1>4, <1>5, <1>6, ChunkCount DEF Start0, PageNo

\* A page lies in the chunk that its number says.
LEMMA PagePlace ==
  ASSUME NEW p \in PageNo
  PROVE  /\ p \div ChunkPages \in 0..Chunks - 1 /\ p % ChunkPages \in 0..ChunkPages - 1
         /\ FirstOf(p) = Start0(p \div ChunkPages) /\ FirstOf(p) \in PageNo
         /\ p = FirstOf(p) + (p % ChunkPages)
<1>1. p \in Nat /\ p < SectorPages
  BY ChunkCount DEF PageNo
<1> DEFINE q == p \div ChunkPages
           r == p % ChunkPages
<1>2. q \in Nat /\ r \in 0..ChunkPages - 1 /\ p = q * ChunkPages + r
  BY <1>1, ChunkCount, Division
<1> HIDE DEF q, r
<1>3. q < Chunks
  <2>1. SUFFICES ASSUME q >= Chunks PROVE FALSE
    BY <1>2, ChunkCount
  <2>2. PICK k \in Nat : q = Chunks + k
    BY <1>2, <2>1, ChunkCount
  <2>3. q * ChunkPages = SectorPages + k * ChunkPages /\ k * ChunkPages >= 0
    BY <2>2, ChunkCount
  <2> QED BY <1>1, <1>2, <2>3, ChunkCount
<1>4. q \in 0..Chunks - 1
  BY <1>2, <1>3, ChunkCount
<1>5. Start0(q) \in PageNo
  BY <1>4, ChunkPlace
<1> QED BY <1>2, <1>4, <1>5 DEF FirstOf, Start0, q, r

\* The pages of a chunk are those from its first one on.
LEMMA InChunk ==
  ASSUME NEW c \in 0..Chunks - 1, NEW i \in 0..ChunkPages - 1
  PROVE  /\ Start0(c) + i \in PageNo
         /\ (Start0(c) + i) \div ChunkPages = c /\ (Start0(c) + i) % ChunkPages = i
         /\ FirstOf(Start0(c) + i) = Start0(c)
<1> DEFINE p == Start0(c) + i
           q == p \div ChunkPages
           r == p % ChunkPages
<1>1. Start0(c) \in Nat /\ p \in PageNo /\ p \in Nat
  BY ChunkPlace, ChunkCount DEF PageNo
<1>2. q \in 0..Chunks - 1 /\ r \in 0..ChunkPages - 1 /\ FirstOf(p) = Start0(q)
      /\ p = FirstOf(p) + r
  BY <1>1, PagePlace
<1> HIDE DEF q, r
<1>3. q * ChunkPages + r = c * ChunkPages + i
  BY <1>2 DEF Start0
<1>4. q = c /\ r = i
  BY <1>2, <1>3, DivisionUnique, ChunkCount
<1> QED BY <1>1, <1>2, <1>4 DEF q, r

\* The first page of a page's chunk is that of its own chunk.
LEMMA FirstOfFirst ==
  ASSUME NEW p \in PageNo
  PROVE  /\ FirstOf(p) \in PageNo /\ FirstOf(p) \div ChunkPages = p \div ChunkPages
         /\ FirstOf(p) % ChunkPages = 0 /\ FirstOf(FirstOf(p)) = FirstOf(p)
<1>1. p \div ChunkPages \in 0..Chunks - 1 /\ FirstOf(p) = Start0(p \div ChunkPages) + 0
      /\ 0 \in 0..ChunkPages - 1
  BY PagePlace, ChunkPlace, ChunkCount
<1> QED BY <1>1, InChunk, PagePlace DEF FirstOf, Start0

----------------------------------------------------------------------------
(* The callers' types, and how they use the controller *)

\* cli_install stays below the drive, and is at work while sectors are left.
Installing ==
  /\ install.left > 0 => install.next + install.left <= FirstSafe
  /\ install.step \in {"write", "wait", "written"} => install.left > 0

CallersTyped == CallersTypeOK /\ Installing

LEMMA CallersGeometry ==
  /\ FirstSafe \in Nat /\ NumSectors \in Nat /\ FirstSafe <= NumSectors
  /\ InstallSectors \in Nat
  /\ usb \in Buffers /\ cache \in Buffers /\ usb # cache /\ NULL \notin Buffers
  /\ Drive \subseteq Sector /\ \A s \in Drive : s \in Nat /\ s >= FirstSafe
BY GeometryAssumption, CallerAssumption, NullAssumption DEF Drive, Sector

LEMMA HostTransferType ==
  ASSUME host \in Command
  PROVE  /\ HostTransfer \in Request /\ ~Unsafe(HostTransfer) /\ ~OutOfRange(HostTransfer)
         /\ HostTransfer.src = usb /\ HostTransfer.sector = host.sector
         /\ HostTransfer.page = Start0(host.chunk) /\ HostTransfer.size = ChunkPages
         /\ host.sector \in Drive /\ host.chunk \in 0..Chunks - 1
<1>1. host.sector \in Drive /\ host.chunk \in 0..Chunks - 1
  BY DEF Command
<1>2. Start0(host.chunk) \in PageNo /\ Start0(host.chunk) + ChunkPages <= SectorPages
  BY <1>1, ChunkPlace
<1>3. /\ HostTransfer.src = usb /\ HostTransfer.sector = host.sector
      /\ HostTransfer.page = Start0(host.chunk) /\ HostTransfer.size = ChunkPages
  BY DEF HostTransfer, Start0
<1>4. ChunkPages \in Sizes /\ host.sector \in 0..NumSectors
  BY <1>1, CallersGeometry, CallerAssumption DEF Drive
<1>5. HostTransfer \in Request
  BY <1>2, <1>4, CallersGeometry DEF Request, HostTransfer, Start0
<1>6. ~Unsafe(HostTransfer) /\ ~OutOfRange(HostTransfer)
  <2>1. ~(host.sector < FirstSafe) /\ ~(host.sector >= NumSectors)
    BY <1>1, CallersGeometry DEF Drive
  <2>2. ~(Start0(host.chunk) + ChunkPages > SectorPages)
    BY <1>1, <1>2, ChunkPlace, ChunkCount
  <2> QED BY <1>3, <2>1, <2>2 DEF Unsafe, OutOfRange
<1> QED BY <1>1, <1>3, <1>5, <1>6

InstallTransfer == [src |-> cache, sector |-> install.next, page |-> 0, size |-> SectorPages]

LEMMA InstallTransferType ==
  ASSUME CallersTyped, install.step = "write"
  PROVE  /\ InstallTransfer \in Request /\ InstallTransfer.sector < FirstSafe
         /\ InstallTransfer.src = cache
<1>1. /\ install.next \in Nat /\ install.left \in Nat /\ install.left > 0
      /\ install.next + install.left <= FirstSafe
  BY CallersGeometry DEF CallersTyped, CallersTypeOK, Installing
<1>2. install.next < FirstSafe /\ install.next \in 0..NumSectors
  BY <1>1, CallersGeometry
<1>3. SectorPages \in Sizes /\ 0 \in PageNo
  BY ChunkCount, CallerAssumption DEF PageNo
<1> QED BY <1>2, <1>3, CallersGeometry DEF InstallTransfer, Request

\* Every step of the callers is a step of the controller, or leaves it alone.
LEMMA CallersStepIsStep ==
  ASSUME CallersTyped, [CallersNext]_allVars
  PROVE  [Next]_vars
<1>1. CASE UNCHANGED vars
  BY <1>1
<1>2. ASSUME NEW rc \in {"zero", "size"}, tud_write(rc) PROVE Next
  <2>1. host \in Command
    BY <1>2 DEF tud_write, TudRuns, CallersTyped, CallersTypeOK
  <2>2. write_flash(HostTransfer, rc)
    BY <1>2 DEF tud_write
  <2> QED BY <2>1, <2>2, HostTransferType DEF Next
<1>3. ASSUME NEW rc \in {"zero", "size"}, install_write(rc) PROVE Next
  <2>1. install.step = "write" /\ write_flash_unsafe(InstallTransfer, rc)
    BY <1>3 DEF install_write, InstallAt, InstallTransfer
  <2> QED BY <2>1, InstallTransferType DEF Next
<1>4. ASSUME NEW data \in Payloads, install_read(data) \/ HostData(data) PROVE Next
  BY <1>4, CallersGeometry DEF install_read, HostData, Next
<1>5. CASE disk_task \/ chip \/ watchdog
  BY <1>5 DEF disk_task, chip, watchdog, Next
<1>6. CASE UNCHANGED allVars
  BY <1>6 DEF allVars
<1>7. \/ UNCHANGED vars
      \/ \E rc \in {"zero", "size"} : tud_write(rc) \/ install_write(rc)
      \/ \E data \in Payloads : install_read(data) \/ HostData(data)
      \/ disk_task \/ chip \/ watchdog \/ UNCHANGED allVars
  BY DEF CallersNext, Host, HostWrite, HostRead, HostAbort, tud_task, tud_resume, tud_read,
         tty_install, tty_task, install_done, install_return
<1> QED BY <1>1, <1>2, <1>3, <1>4, <1>5, <1>6, <1>7

LEMMA CallersInitTyped == CallersInit => CallersTyped
<1> SUFFICES ASSUME CallersInit PROVE CallersTyped
  OBVIOUS
<1>1. install \in [next : Nat, left : 0..InstallSectors,
                   step : {"none", "read", "write", "wait", "written"}]
  BY CallersGeometry DEF CallersInit, NoInstall
<1>2. acked \in [Drive -> [PageNo -> Content \cup {NULL}]]
  BY DEF CallersInit
<1>3. Installing
  BY DEF CallersInit, NoInstall, Installing
<1> QED BY <1>1, <1>2, <1>3 DEF CallersInit, CallersTyped, CallersTypeOK

\* The host is told that its chunk is stored.
Acknowledged ==
  /\ spoiled' = IF stale' THEN spoiled \cup {host.sector} ELSE spoiled
  /\ acked' = [acked EXCEPT ![host.sector] =
       [p \in PageNo |-> IF p \div ChunkPages = host.chunk
                           THEN ram[usb][p % ChunkPages] ELSE @[p]]]
  /\ host' = NextCommand

LEMMA NextCommandType ==
  ASSUME host \in Command
  PROVE  /\ NextCommand \in Command \cup {NULL}
         /\ host.chunk + 1 < Chunks =>
              /\ NextCommand \in Command /\ NextCommand.op = host.op
              /\ NextCommand.sector = host.sector /\ NextCommand.chunk = host.chunk + 1
              /\ NextCommand.ready = (host.op = "read")
         /\ ~(host.chunk + 1 < Chunks) => NextCommand = NULL
<1>1. CASE host.chunk + 1 < Chunks
  <2>1. host.chunk + 1 \in 0..Chunks - 1
    BY <1>1, ChunkCount DEF Command
  <2>2. NextCommand = [host EXCEPT !.chunk = host.chunk + 1, !.ready = (host.op = "read")]
    BY <1>1 DEF NextCommand
  <2> QED BY <1>1, <2>1, <2>2 DEF Command
<1>2. CASE ~(host.chunk + 1 < Chunks)
  BY <1>2 DEF NextCommand
<1> QED BY <1>1, <1>2

LEMMA AckedType ==
  ASSUME TypeOK, CallersTypeOK, host \in Command, Acknowledged
  PROVE  /\ acked' \in [Drive -> [PageNo -> Content \cup {NULL}]]
         /\ \A s \in Drive : s # host.sector => acked'[s] = acked[s]
         /\ \A p \in PageNo : acked'[host.sector][p] =
              IF p \div ChunkPages = host.chunk THEN ram[usb][p % ChunkPages]
              ELSE acked[host.sector][p]
<1> DEFINE told == [p \in PageNo |-> IF p \div ChunkPages = host.chunk
                                       THEN ram[usb][p % ChunkPages]
                                       ELSE acked[host.sector][p]]
<1>1. host.sector \in Drive
  BY DEF Command
<1>2. acked' = [acked EXCEPT ![host.sector] = told]
  BY DEF Acknowledged
<1>3. told \in [PageNo -> Content \cup {NULL}]
  <2>1. ASSUME NEW p \in PageNo PROVE ram[usb][p % ChunkPages] \in Content
    <3>1. p % ChunkPages \in PageNo
      BY PagePlace, ChunkCount DEF PageNo
    <3>2. ram[usb] \in [PageNo -> Content]
      BY CallersGeometry, PayloadAssumption DEF TypeOK
    <3> QED BY <3>1, <3>2
  <2>2. acked[host.sector] \in [PageNo -> Content \cup {NULL}]
    BY <1>1 DEF CallersTypeOK
  <2> QED BY <2>1, <2>2
<1>4. \A p \in PageNo : told[p] = IF p \div ChunkPages = host.chunk THEN ram[usb][p % ChunkPages]
                                  ELSE acked[host.sector][p]
  OBVIOUS
<1> HIDE DEF told
<1> QED BY <1>1, <1>2, <1>3, <1>4 DEF CallersTypeOK

\* The tasks suspended, one on top of the other.
LEMMA OnTop ==
  ASSUME NEW x, NEW y
  PROVE  Append(<<>>, x) = <<x>> /\ Append(<<x>>, y) = <<x, y>>
<1> DEFINE one == <<x>>
           two == Append(one, y)
<1>1. one \in Seq({x, y}) /\ Len(one) = 1 /\ one[1] = x
  OBVIOUS
<1>2. two \in Seq({x, y}) /\ Len(two) = 2 /\ two[1] = x /\ two[2] = y
  BY <1>1, AppendProperties
<1> HIDE DEF one, two
<1>3. two = <<x, y>>
  BY <1>2
<1> QED BY <1>3 DEF one, two

LEMMA OffTop ==
  ASSUME NEW x, NEW y
  PROVE  /\ SubSeq(<<>>, 1, Len(<<>>) - 1) = <<>> /\ SubSeq(<<x>>, 1, Len(<<x>>) - 1) = <<>>
         /\ SubSeq(<<x, y>>, 1, Len(<<x, y>>) - 1) = <<x>>
<1> DEFINE two == <<x, y>>
           one == SubSeq(two, 1, 1)
<1>1. two \in Seq({x, y}) /\ Len(two) = 2 /\ two[1] = x
  OBVIOUS
<1>2. one \in Seq({x, y}) /\ Len(one) = 1 /\ one[1] = x
  BY <1>1, SubSeqProperties
<1> HIDE DEF one, two
<1>3. one = <<x>>
  BY <1>2
<1>4. Len(two) - 1 = 1
  BY <1>1
<1>5. SubSeq(two, 1, Len(two) - 1) = <<x>>
  BY <1>3, <1>4 DEF one
<1>6. SubSeq(<<>>, 1, 0 - 1) = <<>> /\ SubSeq(<<x>>, 1, 0) = <<>> /\ Len(<<>>) = 0
      /\ Len(<<x>>) - 1 = 0
  OBVIOUS
<1> QED BY <1>5, <1>6 DEF two

LEMMA CallersTypeStep ==
  ASSUME TypeOK, CallersTyped, [CallersNext]_allVars
  PROVE  CallersTyped'
<1> USE DEF CallersTyped, CallersTypeOK
<1>0. /\ host \in Command => host.sector \in Drive
      /\ stack \in {<<>>, <<"tud">>, <<"tty">>, <<"tud", "tty">>, <<"tty", "tud">>}
  BY DEF Command
<1>1. ASSUME NEW s \in Drive, HostWrite(s) \/ HostRead(s) PROVE CallersTyped'
  <2>1. host' \in Command
    <3>1. 0 \in 0..Chunks - 1
      BY ChunkCount
    <3>2. \/ host' = [op |-> "write", sector |-> s, chunk |-> 0, ready |-> FALSE]
          \/ host' = [op |-> "read", sector |-> s, chunk |-> 0, ready |-> TRUE]
      BY <1>1 DEF HostWrite, HostRead
    <3>3. [op |-> "write", sector |-> s, chunk |-> 0, ready |-> FALSE] \in Command
      BY <3>1 DEF Command
    <3>4. [op |-> "read", sector |-> s, chunk |-> 0, ready |-> TRUE] \in Command
      BY <3>1 DEF Command
    <3> QED BY <3>2, <3>3, <3>4, Zenon
  <2>2. acked' \in [Drive -> [PageNo -> Content \cup {NULL}]] /\ spoiled' \subseteq Drive
    BY <1>1 DEF HostWrite, HostRead, promises
  <2> QED BY <1>1, <2>1, <2>2 DEF HostWrite, HostRead, promises, Installing
<1>2. ASSUME NEW data \in Payloads, HostData(data) PROVE CallersTyped'
  <2>1. host' \in Command
    BY <1>2 DEF HostData, Command
  <2> QED BY <1>2, <2>1 DEF HostData, promises, Installing
<1>3. CASE HostAbort
  BY <1>3 DEF HostAbort, Installing
<1>4. ASSUME NEW rc \in {"zero", "size"}, tud_write(rc) PROVE CallersTyped'
  <2>1. host \in Command /\ ~Suspended("tud") /\ UNCHANGED install /\ stale' \in BOOLEAN
    BY <1>4 DEF tud_write, TudRuns, Staleness, TypeOK
  <2>2. CASE rc = "size"
    <3>1. Acknowledged /\ UNCHANGED stack /\ polling' \in BOOLEAN
      BY <1>4, <2>2 DEF tud_write, Acknowledged
    <3>2. acked' \in [Drive -> [PageNo -> Content \cup {NULL}]]
      BY <2>1, <3>1, AckedType
    <3>3. spoiled' \subseteq Drive /\ host' \in Command \cup {NULL}
      BY <1>0, <2>1, <3>1, NextCommandType DEF Acknowledged
    <3> QED BY <2>1, <3>1, <3>2, <3>3 DEF Installing
  <2>3. CASE rc # "size"
    <3>1. /\ stack' = stack \/ stack' = Append(stack, "tud")
          /\ polling' \in BOOLEAN /\ UNCHANGED <<acked, host, spoiled>>
      BY <1>4, <2>3 DEF tud_write
    <3>2. stack = <<>> \/ stack = <<"tty">>
      <4>1. stack # <<"tud">> /\ stack # <<"tud", "tty">> /\ stack # <<"tty", "tud">>
        BY <2>1 DEF Suspended
      <4> QED BY <1>0, <4>1
    <3>3. stack' \in {<<>>, <<"tud">>, <<"tty">>, <<"tud", "tty">>, <<"tty", "tud">>}
      BY <3>1, <3>2, OnTop
    <3> QED BY <2>1, <3>1, <3>3 DEF Installing
  <2> QED BY <2>2, <2>3
<1>5. ASSUME Pop PROVE stack' \in {<<>>, <<"tud">>, <<"tty">>, <<"tud", "tty">>, <<"tty", "tud">>}
  <2>1. CASE stack = <<>>
    BY <1>5, <2>1, OffTop DEF Pop
  <2>2. CASE stack = <<"tud">> \/ stack = <<"tty">>
    BY <1>5, <2>2, OffTop DEF Pop
  <2>3. CASE stack = <<"tud", "tty">> \/ stack = <<"tty", "tud">>
    BY <1>5, <2>3, OffTop DEF Pop
  <2> QED BY <1>0, <2>1, <2>2, <2>3
<1>6. CASE tud_resume
  BY <1>5, <1>6 DEF tud_resume, promises, Installing
<1>7. CASE tud_read
  <2>1. host \in Command
    BY <1>7 DEF tud_read, TudRuns
  <2>2. host' \in Command \cup {NULL}
    BY <1>7, <2>1, NextCommandType DEF tud_read
  <2> QED BY <1>7, <2>2 DEF tud_read, promises, Installing
<1>8. ASSUME NEW s \in Regions, tty_install(s) PROVE CallersTyped'
  <2>1. s \in Nat /\ s + InstallSectors <= FirstSafe
    BY CallerAssumption, CallersGeometry DEF Sector
  <2>2. install' = [next |-> s, left |-> InstallSectors, step |-> "read"]
    BY <1>8 DEF tty_install
  <2>3. install' \in [next : Nat, left : 0..InstallSectors,
                      step : {"none", "read", "write", "wait", "written"}] /\ Installing'
    BY <2>1, <2>2, CallersGeometry DEF Installing
  <2>4. stack = <<>> \/ stack = <<"tud">>
    <3>1. stack # <<"tty">> /\ stack # <<"tud", "tty">> /\ stack # <<"tty", "tud">>
      BY <1>8 DEF tty_install, Suspended
    <3> QED BY <1>0, <3>1
  <2>5. stack' \in {<<>>, <<"tud">>, <<"tty">>, <<"tud", "tty">>, <<"tty", "tud">>}
    BY <1>8, <2>4, OnTop DEF tty_install
  <2> QED BY <1>8, <2>3, <2>5 DEF tty_install, promises
<1>9. ASSUME NEW data \in Payloads, install_read(data) PROVE CallersTyped'
  BY <1>9 DEF install_read, promises, Installing
<1>10. ASSUME NEW rc \in {"zero", "size"}, install_write(rc) PROVE CallersTyped'
  <2>1. stale' \in BOOLEAN
    BY <1>10 DEF install_write, Staleness, TypeOK
  <2>2. install.left > 0 /\ install.next + install.left <= FirstSafe
    BY <1>10 DEF install_write, InstallAt, Installing
  <2>3. /\ install' \in [next : Nat, left : 0..InstallSectors,
                         step : {"none", "read", "write", "wait", "written"}]
        /\ install'.left = install.left /\ install'.next = install.next
    BY <1>10 DEF install_write
  <2> QED BY <1>10, <2>1, <2>2, <2>3 DEF install_write, Installing
<1>11. CASE install_done
  <2>1. install.left > 0 /\ install.next + install.left <= FirstSafe
    BY <1>11 DEF install_done, InstallAt, Installing
  <2>2. install' = [next |-> install.next + 1, left |-> install.left - 1, step |-> "read"]
    BY <1>11 DEF install_done
  <2>3. /\ install' \in [next : Nat, left : 0..InstallSectors,
                         step : {"none", "read", "write", "wait", "written"}]
        /\ Installing'
    BY <2>1, <2>2, CallersGeometry DEF Installing
  <2> QED BY <1>11, <2>3 DEF install_done, promises
<1>12. CASE install_return
  <2>1. /\ install' \in [next : Nat, left : 0..InstallSectors,
                         step : {"none", "read", "write", "wait", "written"}]
        /\ Installing'
    BY <1>12, CallersGeometry DEF install_return, NoInstall, Installing
  <2> QED BY <1>5, <1>12, <2>1 DEF install_return, promises
<1>13. CASE disk_task \/ chip \/ UNCHANGED allVars
  BY <1>13 DEF disk_task, chip, allVars, callers, promises, Installing
<1>14. CASE watchdog
  <2>1. /\ install' \in [next : Nat, left : 0..InstallSectors,
                         step : {"none", "read", "write", "wait", "written"}]
        /\ Installing'
    BY <1>14, CallersGeometry DEF watchdog, NoInstall, Installing
  <2> QED BY <1>14, <2>1 DEF watchdog
<1> QED BY <1>1, <1>2, <1>3, <1>4, <1>6, <1>7, <1>8, <1>9, <1>10, <1>11, <1>12, <1>13, <1>14
        DEF CallersNext, Host, tud_task, tty_task

----------------------------------------------------------------------------
(* What is proved of the controller holds under its callers *)

Base == CallersTyped /\ SafetyInv /\ DataInv

LEMMA BaseInit == Init /\ CallersInit => Base
<1>1. Init => DataInv
  BY DEF Init, DataInv
<1> QED BY <1>1, SafetyInit, CallersInitTyped DEF Base

LEMMA BaseStep == Base /\ [CallersNext]_allVars => Base'
<1>1. SafetyInv => TypeOK
  BY DEF SafetyInv
<1> QED BY <1>1, CallersTypeStep, CallersStepIsStep, SafetyStep, DataStep DEF Base

LEMMA BaseInvariant == CallersSpec => []Base
BY BaseInit, BaseStep, PTL DEF CallersSpec

\* The callers' variables hold values of their types; the tasks that are
\* suspended are on the stack once each.
THEOREM CallersTypeCorrect == CallersSpec => []CallersTypeOK
<1>1. Base => CallersTypeOK
  BY DEF Base, CallersTyped
<1> QED BY <1>1, BaseInvariant, PTL

\* The USB drive and cli_install make only requests that the controller's
\* theorems allow for: whatever Spec promises holds with them.
THEOREM ControllerUsedRight == CallersSpec => Spec
<1>1. Base /\ [CallersNext]_allVars => [Next]_vars
  BY CallersStepIsStep DEF Base
<1> QED BY <1>1, BaseInvariant, PTL DEF CallersSpec, Spec

----------------------------------------------------------------------------
(* The outcomes of a callback *)

Writing == host \in Command /\ host.op = "write"

\* The callback returns 0, or the transfer of this chunk is already over, or
\* the chunk is refused, or a transfer is planned that may turn out empty.
Postponed == UNCHANGED <<vars, host, acked, stale, spoiled>>
Completed ==
  ~flash_busy /\ transfer = HostTransfer /\ UNCHANGED vars /\ stale' = stale /\ Acknowledged
Refused ==
  /\ ~flash_busy /\ transfer # HostTransfer /\ UNCHANGED vars /\ stale' = stale /\ Acknowledged
  /\ \E scan \in View(host.sector) : Unerasable(HostTransfer, scan)
Plans(scan, view, rc) ==
  /\ ~flash_busy /\ transfer # HostTransfer
  /\ scan \in View(host.sector) /\ view \in View(host.sector)
  /\ ~Unerasable(HostTransfer, scan)
  /\ Start(HostTransfer, NeedsErase(HostTransfer, scan), view, "write_flash", rc)
  /\ transfer' = HostTransfer /\ sound' = ~bitbang /\ stale' = bitbang
  /\ UNCHANGED <<mem, wip, ram>>
PlansWork(scan, view) ==
  Plans(scan, view, "zero") /\ flash_busy' /\ bitbang' /\ UNCHANGED <<host, acked, spoiled>>
PlansNothing(scan, view) ==
  /\ Plans(scan, view, "size") /\ UNCHANGED <<flash_state, bitbang>> /\ Acknowledged
  /\ ~NeedsErase(HostTransfer, scan) /\ PagesToProgram(HostTransfer, FALSE, view) = {}

LEMMA CallbackOutcomes ==
  ASSUME Base, NEW rc \in {"zero", "size"}, tud_write(rc)
  PROVE  /\ Writing /\ host.ready /\ UNCHANGED install
         /\ \/ Postponed \/ Completed \/ Refused
            \/ \E scan, view : PlansWork(scan, view) \/ PlansNothing(scan, view)
<1> DEFINE t == HostTransfer
<1>1. Writing /\ host.ready /\ UNCHANGED install
  BY DEF tud_write, TudRuns, Writing, Base, CallersTyped, CallersTypeOK
<1>2. ~Unsafe(t) /\ ~OutOfRange(t) /\ t.sector = host.sector
  BY <1>1, HostTransferType DEF Writing
<1>3. /\ write_flash(t, rc) /\ stale' = Staleness
      /\ rc = "size" => Acknowledged
      /\ rc # "size" => UNCHANGED <<acked, host, spoiled>>
  BY DEF tud_write, Acknowledged
<1>4. UNCHANGED vars => UNCHANGED transfer
  BY DEF vars, control
<1>5. \/ transfer = t /\ rc = (IF flash_busy THEN "zero" ELSE "size") /\ UNCHANGED vars
      \/ transfer # t /\ flash_busy /\ rc = "zero" /\ UNCHANGED vars
      \/ /\ transfer # t /\ ~flash_busy
         /\ \E scan, view \in View(t.sector) :
              IF Unerasable(t, scan)
                THEN rc = "size" /\ UNCHANGED vars
                ELSE Start(t, NeedsErase(t, scan), view, "write_flash", rc)
  BY <1>2, <1>3 DEF write_flash, SameTransfer
<1> HIDE DEF t
<1>6. CASE transfer = t /\ rc = (IF flash_busy THEN "zero" ELSE "size") /\ UNCHANGED vars
  <2>1. stale' = stale
    BY <1>3, <1>4, <1>6 DEF Staleness
  <2>2. CASE flash_busy
    <3>1. rc # "size"
      BY <1>6, <2>2
    <3> QED BY <1>1, <1>3, <1>6, <2>1, <3>1 DEF Postponed
  <2>3. CASE ~flash_busy
    <3>1. rc = "size"
      BY <1>6, <2>3
    <3> QED BY <1>1, <1>3, <1>6, <2>1, <2>3, <3>1 DEF Completed, t
  <2> QED BY <2>2, <2>3
<1>7. CASE transfer # t /\ flash_busy /\ rc = "zero" /\ UNCHANGED vars
  BY <1>1, <1>3, <1>4, <1>7 DEF Staleness, Postponed
<1>8. CASE /\ transfer # t /\ ~flash_busy
           /\ \E scan, view \in View(t.sector) :
                IF Unerasable(t, scan)
                  THEN rc = "size" /\ UNCHANGED vars
                  ELSE Start(t, NeedsErase(t, scan), view, "write_flash", rc)
  <2>1. PICK scan \in View(t.sector), view \in View(t.sector) :
          IF Unerasable(t, scan)
            THEN rc = "size" /\ UNCHANGED vars
            ELSE Start(t, NeedsErase(t, scan), view, "write_flash", rc)
    BY <1>8
  <2>2. CASE Unerasable(t, scan)
    <3>1. stale' = stale
      BY <1>3, <1>4, <2>1, <2>2 DEF Staleness
    <3>2. Refused
      BY <1>2, <1>3, <1>8, <2>1, <2>2, <3>1 DEF Refused, t
    <3> QED BY <1>1, <3>2
  <2>3. CASE ~Unerasable(t, scan)
    <3> DEFINE erase == NeedsErase(t, scan)
               pages == PagesToProgram(t, erase, view)
    <3>1. /\ transfer' = t /\ sound' = ~bitbang /\ UNCHANGED <<mem, wip, ram>>
          /\ Start(t, erase, view, "write_flash", rc)
      BY <2>1, <2>3 DEF Start
    <3>2. stale' = bitbang
      BY <1>3, <1>8, <3>1 DEF Staleness, Base, SafetyInv, TypeOK
    <3>3. Plans(scan, view, rc)
      BY <1>2, <1>8, <2>3, <3>1, <3>2 DEF Plans, t
    <3>4. CASE erase \/ pages # {}
      <4>1. rc = "zero" /\ flash_busy' /\ bitbang'
        BY <3>1, <3>4 DEF Start, flash_busy
      <4> QED BY <1>1, <1>3, <3>3, <4>1 DEF PlansWork
    <3>5. CASE ~(erase \/ pages # {})
      <4>1. rc = "size" /\ UNCHANGED <<flash_state, bitbang>>
        BY <3>1, <3>5 DEF Start
      <4>2. PagesToProgram(t, FALSE, view) = {}
        BY <3>5 DEF PagesToProgram
      <4>3. PlansNothing(scan, view)
        BY <1>3, <3>3, <3>5, <4>1, <4>2 DEF PlansNothing, t
      <4> QED BY <1>1, <4>3
    <3> QED BY <3>4, <3>5
  <2> QED BY <2>2, <2>3
<1> QED BY <1>5, <1>6, <1>7, <1>8

\* cli_install's transfer takes the controller.
Replaced ==
  /\ ~flash_busy /\ transfer'.src = cache /\ transfer'.sector < FirstSafe
  /\ stale' \in {stale, bitbang}
  /\ ~flash_busy' => bitbang' = bitbang
  /\ UNCHANGED <<mem, wip, ram, host, acked, spoiled>>

LEMMA InstallOutcomes ==
  ASSUME Base, NEW rc \in {"zero", "size"}, install_write(rc)
  PROVE  UNCHANGED <<vars, host, promises>> \/ Replaced
<1> DEFINE t == InstallTransfer
<1>1. /\ write_flash_unsafe(t, rc) /\ stale' = Staleness /\ UNCHANGED <<host, acked, spoiled>>
      /\ install.step = "write"
  BY DEF install_write, InstallAt, InstallTransfer
<1>2. t.src = cache /\ t.sector < FirstSafe
  BY <1>1, InstallTransferType DEF Base
<1> HIDE DEF t
<1>3. CASE UNCHANGED vars
  <2>1. stale' = stale
    BY <1>1, <1>3 DEF vars, control, Staleness
  <2> QED BY <1>1, <1>3, <2>1 DEF promises
<1>4. ASSUME NEW scan, NEW view, ~flash_busy,
             Start(t, SetsBits(t, scan), view, "write_flash_unsafe", rc)
      PROVE  Replaced
  <2> DEFINE work == SetsBits(t, scan) \/ PagesToProgram(t, SetsBits(t, scan), view) # {}
  <2>1. transfer' = t /\ sound' = ~bitbang /\ UNCHANGED <<mem, wip, ram>>
    BY <1>4 DEF Start
  <2>2. stale' \in {stale, bitbang}
    BY <1>1, <2>1 DEF Staleness, Base, SafetyInv, TypeOK
  <2>3. ~flash_busy' => bitbang' = bitbang
    <3>1. CASE work
      BY <1>4, <3>1 DEF Start, flash_busy
    <3>2. CASE ~work
      BY <1>4, <3>2 DEF Start
    <3> QED BY <3>1, <3>2
  <2> QED BY <1>1, <1>2, <1>4, <2>1, <2>2, <2>3 DEF Replaced
<1> QED BY <1>1, <1>3, <1>4 DEF write_flash_unsafe

\* Every step of the callers, by what it does to the host's command, to the
\* promises made and to the controller.
ReadsOn == host \in Command /\ host.op = "read" /\ host' = NextCommand /\ UNCHANGED <<vars, promises>>
Answers ==
  Writing /\ host.ready /\ (Completed \/ Refused \/ \E scan, view : PlansNothing(scan, view))
Works == Writing /\ host.ready /\ \E scan, view : PlansWork(scan, view)
Quietly(A) == A /\ UNCHANGED <<host, promises>>

LEMMA CallersCases ==
  ASSUME Base, [CallersNext]_allVars
  PROVE  \/ Quietly(UNCHANGED vars)
         \/ \E s \in Drive : HostWrite(s) \/ HostRead(s)
         \/ \E data \in Payloads : HostData(data)
         \/ HostAbort
         \/ ReadsOn
         \/ Answers
         \/ Works
         \/ Replaced
         \/ \E data \in Payloads : Quietly(fill(cache, data))
         \/ Quietly(flash_task)
         \/ Quietly(chip_done)
         \/ watchdog
<1>1. ASSUME NEW rc \in {"zero", "size"}, tud_write(rc)
      PROVE  Quietly(UNCHANGED vars) \/ Answers \/ Works
  <2>1. /\ Writing /\ host.ready
        /\ \/ Postponed \/ Completed \/ Refused
           \/ \E scan, view : PlansWork(scan, view) \/ PlansNothing(scan, view)
    BY <1>1, CallbackOutcomes
  <2>2. Postponed => Quietly(UNCHANGED vars)
    BY DEF Postponed, Quietly, promises
  <2> QED BY <2>1, <2>2, Zenon DEF Answers, Works
<1>2. ASSUME tud_read PROVE Quietly(UNCHANGED vars) \/ ReadsOn
  BY <1>2 DEF tud_read, TudRuns, Quietly, ReadsOn, Base, CallersTyped, CallersTypeOK
<1>3. ASSUME NEW rc \in {"zero", "size"}, install_write(rc)
      PROVE  Quietly(UNCHANGED vars) \/ Replaced
  BY <1>3, InstallOutcomes DEF Quietly
<1>4. ASSUME tud_resume \/ install_done \/ install_return \/ (\E s \in Regions : tty_install(s))
             \/ UNCHANGED allVars
      PROVE  Quietly(UNCHANGED vars)
  BY <1>4 DEF tud_resume, install_done, install_return, tty_install, Quietly, allVars, callers,
             promises
<1>5. ASSUME NEW data \in Payloads, install_read(data) PROVE Quietly(fill(cache, data))
  BY <1>5 DEF install_read, Quietly
<1>6. disk_task => Quietly(flash_task)
  BY DEF disk_task, Quietly, callers, promises
<1>7. chip => Quietly(chip_done)
  BY DEF chip, Quietly, callers, promises
<1> QED BY <1>1, <1>2, <1>3, <1>4, <1>5, <1>6, <1>7, Zenon DEF CallersNext, Host, tud_task, tty_task

----------------------------------------------------------------------------
(* The order of a block's chunks *)

\* The drive's buffer serves the drive, cli_install's the reserved sectors.
Own ==
  /\ transfer.src = cache => transfer.sector < FirstSafe
  /\ transfer.src = usb => transfer.sector \in Drive /\ transfer.size = ChunkPages

\* The block was forgotten when its command came, and is told chunk by chunk.
Told ==
  Writing =>
    /\ \A p \in PageNo : acked[host.sector][p] # NULL => p < Start0(host.chunk)
    /\ host.chunk = 0 => host.sector \notin spoiled
Whole == \A s \in Drive, p \in PageNo : acked[s][p] # NULL => acked[s][FirstOf(p)] # NULL

\* Only the first chunk of a block has its sector erased.
Erasing ==
  flash_state = "ERASE_TRACK" /\ transfer.sector \in Drive =>
    transfer.page = 0 /\ \A p \in PageNo : acked[transfer.sector][p] = NULL

Order == Own /\ Told /\ Whole /\ Erasing

LEMMA EraseFirst ==
  ASSUME host \in Command, NEW scan, ~Unerasable(HostTransfer, scan), NeedsErase(HostTransfer, scan)
  PROVE  host.chunk = 0 /\ HostTransfer.page = 0
<1>1. /\ HostTransfer.page = Start0(host.chunk) /\ HostTransfer.size # SectorPages
      /\ host.chunk \in 0..Chunks - 1
  BY HostTransferType, ChunkCount
<1>2. HostTransfer.page = 0
  BY <1>1 DEF Unerasable, NeedsErase, FirstChunk
<1>3. host.chunk > 0 => Start0(host.chunk) >= ChunkPages
  BY <1>1, ChunkPlace, Zenon
<1>4. ~(0 >= ChunkPages) /\ host.chunk \in Nat
  BY <1>1, ChunkCount
<1> QED BY <1>1, <1>2, <1>3, <1>4

LEMMA NullIsNone == NULL \notin Command /\ NULL \notin Content /\ NULL \notin Buffers
BY CallerNullAssumption, CallersGeometry

LEMMA OrderInit == Init /\ CallersInit => Order
<1> SUFFICES ASSUME Init, CallersInit PROVE Order
  OBVIOUS
<1>1. transfer.src = NULL /\ flash_state = "USER_MODE" /\ host = NULL
      /\ \A s \in Drive, p \in PageNo : acked[s][p] = NULL
  BY DEF Init, CallersInit, NoTransfer
<1> QED BY <1>1, NullIsNone, CallersGeometry DEF Order, Own, Told, Whole, Erasing, Writing

\* An answer moves the host on, and touches its chunk only.
LEMMA AnswerOrder ==
  ASSUME Base, Order, Answers
  PROVE  /\ host \in Command /\ ~flash_busy /\ ~flash_busy' /\ Acknowledged
         /\ UNCHANGED <<flash_state, mem, wip, ram, bitbang>>
         /\ transfer' \in {transfer, HostTransfer} /\ Order'
<1>1. host \in Command /\ host.op = "write" /\ host.sector \in Drive /\ host.chunk \in 0..Chunks - 1
  BY HostTransferType DEF Answers, Writing
<1>2. /\ ~flash_busy /\ Acknowledged /\ UNCHANGED <<flash_state, mem, wip, ram, bitbang>>
      /\ transfer' \in {transfer, HostTransfer}
  BY DEF Answers, Completed, Refused, PlansNothing, Plans, vars, control
<1>3. ~flash_busy' /\ flash_state' # "ERASE_TRACK"
  BY <1>2 DEF flash_busy
<1>4. /\ \A s \in Drive : s # host.sector => acked'[s] = acked[s]
      /\ \A p \in PageNo : acked'[host.sector][p] =
           IF p \div ChunkPages = host.chunk THEN ram[usb][p % ChunkPages]
           ELSE acked[host.sector][p]
  BY <1>1, <1>2, AckedType DEF Base, CallersTyped, SafetyInv
<1>5. Own'
  <2>1. transfer' = transfer \/ (transfer'.src = usb /\ transfer'.sector \in Drive
                                 /\ transfer'.size = ChunkPages)
    BY <1>1, <1>2, HostTransferType
  <2> QED BY <2>1, CallersGeometry DEF Order, Own
<1>6. Told'
  <2> SUFFICES ASSUME Writing' PROVE Told'
    BY DEF Told
  <2>1. /\ NextCommand \in Command /\ host' = NextCommand /\ host.chunk + 1 < Chunks
    BY <1>1, <1>2, NextCommandType, NullIsNone DEF Acknowledged, Writing
  <2>2. host'.sector = host.sector /\ host'.chunk = host.chunk + 1
    BY <1>1, <2>1, NextCommandType
  <2>3. Start0(host.chunk + 1) = Start0(host.chunk) + ChunkPages /\ Start0(host.chunk) \in Nat
    BY <1>1, ChunkPlace
  <2>4. ASSUME NEW p \in PageNo, acked'[host.sector][p] # NULL
        PROVE  p < Start0(host.chunk + 1)
    <3>1. p \in Nat
      BY ChunkCount DEF PageNo
    <3>2. CASE p \div ChunkPages = host.chunk
      <4>1. p = Start0(host.chunk) + (p % ChunkPages) /\ p % ChunkPages \in 0..ChunkPages - 1
        BY <3>2, PagePlace
      <4> QED BY <2>3, <4>1, ChunkCount
    <3>3. CASE p \div ChunkPages # host.chunk
      <4>1. p < Start0(host.chunk)
        BY <1>1, <1>4, <2>4, <3>3 DEF Order, Told, Writing
      <4> QED BY <2>3, <3>1, <4>1, ChunkCount
    <3> QED BY <3>2, <3>3
  <2>5. host'.chunk # 0
    BY <1>1, <2>2, ChunkCount
  <2> QED BY <2>2, <2>4, <2>5 DEF Told
<1>7. Whole'
  <2> SUFFICES ASSUME NEW s \in Drive, NEW p \in PageNo, acked'[s][p] # NULL
               PROVE  acked'[s][FirstOf(p)] # NULL
    BY DEF Whole
  <2>1. /\ FirstOf(p) \in PageNo /\ FirstOf(p) \div ChunkPages = p \div ChunkPages
        /\ FirstOf(p) % ChunkPages = 0
    BY FirstOfFirst
  <2>2. CASE s = host.sector /\ p \div ChunkPages = host.chunk
    <3>1. acked'[s][FirstOf(p)] = ram[usb][0]
      BY <1>4, <2>1, <2>2
    <3>2. ram[usb][0] \in Content
      BY CallersGeometry, PayloadAssumption, ChunkCount DEF Base, SafetyInv, TypeOK, PageNo
    <3> QED BY <3>1, <3>2, NullIsNone
  <2>3. CASE ~(s = host.sector /\ p \div ChunkPages = host.chunk)
    BY <1>1, <1>4, <2>1, <2>3 DEF Order, Whole
  <2> QED BY <2>2, <2>3
<1>8. Erasing'
  BY <1>3 DEF Erasing
<1> QED BY <1>1, <1>2, <1>3, <1>5, <1>6, <1>7, <1>8 DEF Order

LEMMA OrderStep == Base /\ Order /\ [CallersNext]_allVars => Order'
<1> SUFFICES ASSUME Base, Order, [CallersNext]_allVars PROVE Order'
  OBVIOUS
<1> USE DEF Order
<1>1. ASSUME UNCHANGED <<host, acked, spoiled>> PROVE Told' /\ Whole'
  BY <1>1 DEF Told, Whole, Writing
<1>2. CASE Quietly(UNCHANGED vars)
  BY <1>1, <1>2 DEF Quietly, promises, vars, control, Own, Erasing
<1>3. ASSUME NEW s \in Drive, HostWrite(s) PROVE Order'
  <2>1. /\ UNCHANGED <<transfer, flash_state>> /\ host'.sector = s /\ s \notin spoiled'
        /\ acked' = [acked EXCEPT ![s] = [p \in PageNo |-> NULL]]
    BY <1>3 DEF HostWrite, vars, control
  <2>2. /\ \A p \in PageNo : acked'[s][p] = NULL
        /\ \A x \in Drive : x # s => acked'[x] = acked[x]
    BY <2>1 DEF Base, CallersTyped, CallersTypeOK
  <2> QED BY <2>1, <2>2 DEF Own, Told, Whole, Erasing
<1>4. ASSUME NEW s \in Drive, HostRead(s) PROVE Order'
  <2>1. UNCHANGED <<transfer, flash_state, acked, spoiled>> /\ host'.op = "read"
    BY <1>4 DEF HostRead, vars, control, promises
  <2> QED BY <2>1 DEF Own, Told, Whole, Erasing, Writing
<1>5. ASSUME NEW data \in Payloads, HostData(data) PROVE Order'
  <2>1. /\ UNCHANGED <<transfer, flash_state, acked, spoiled>> /\ host \in Command
        /\ host' = [host EXCEPT !.ready = TRUE]
    BY <1>5 DEF HostData, fill, control, promises, Base, CallersTyped, CallersTypeOK
  <2>2. host'.op = host.op /\ host'.sector = host.sector /\ host'.chunk = host.chunk
    BY <2>1 DEF Command
  <2> QED BY <2>1, <2>2 DEF Own, Told, Whole, Erasing, Writing
<1>6. CASE HostAbort
  <2>1. UNCHANGED <<transfer, flash_state, acked, spoiled>> /\ host' = NULL
    BY <1>6 DEF HostAbort, vars, control
  <2> QED BY <2>1, NullIsNone DEF Own, Told, Whole, Erasing, Writing
<1>7. CASE ReadsOn
  <2>1. UNCHANGED <<transfer, flash_state, acked, spoiled>>
    BY <1>7 DEF ReadsOn, vars, control, promises
  <2>2. ~Writing'
    BY <1>7, NextCommandType, NullIsNone DEF ReadsOn, Writing
  <2> QED BY <2>1, <2>2 DEF Own, Told, Whole, Erasing
<1>8. CASE Works
  <2>1. PICK scan, view : PlansWork(scan, view)
    BY <1>8 DEF Works
  <2>2. /\ host \in Command /\ UNCHANGED <<host, acked, spoiled>> /\ transfer' = HostTransfer
        /\ ~Unerasable(HostTransfer, scan) /\ Writing
        /\ flash_state' = "ERASE_TRACK" => NeedsErase(HostTransfer, scan)
    BY <1>8, <2>1 DEF Works, Writing, PlansWork, Plans, Start, flash_busy
  <2>3. Own'
    BY <2>2, HostTransferType, CallersGeometry DEF Own
  <2>4. Erasing'
    <3> SUFFICES ASSUME flash_state' = "ERASE_TRACK" PROVE Erasing'
      BY DEF Erasing
    <3>1. host.chunk = 0 /\ HostTransfer.page = 0
      BY <2>2, EraseFirst
    <3>2. 0 \in 0..Chunks - 1 /\ Start0(0) = 0
      BY ChunkPlace, ChunkCount
    <3>3. \A p \in PageNo : ~(p < 0)
      BY ChunkCount DEF PageNo
    <3>4. \A p \in PageNo : acked[host.sector][p] = NULL
      BY <2>2, <3>1, <3>2, <3>3 DEF Told
    <3> QED BY <2>2, <3>1, <3>4, HostTransferType DEF Erasing
  <2> QED BY <1>1, <2>2, <2>3, <2>4
<1>9. CASE Replaced
  <2>1. transfer'.src # usb /\ transfer'.sector \notin Drive
    BY <1>9, CallersGeometry, \A s \in Drive : s \in Nat /\ ~(s < FirstSafe) DEF Replaced
  <2> QED BY <1>1, <1>9, <2>1 DEF Replaced, Own, Erasing
<1>10. ASSUME NEW data \in Payloads, Quietly(fill(cache, data)) PROVE Order'
  BY <1>1, <1>10 DEF Quietly, promises, fill, control, Own, Erasing
<1>11. CASE Quietly(flash_task)
  <2>1. UNCHANGED transfer /\ flash_state' # "ERASE_TRACK" /\ UNCHANGED <<host, acked, spoiled>>
    BY <1>11 DEF Quietly, promises, flash_task, flash_erase, flash_program, flash_abandon, flash_verify
  <2> QED BY <1>1, <2>1 DEF Own, Erasing
<1>12. CASE Quietly(chip_done)
  BY <1>1, <1>12 DEF Quietly, promises, chip_done, control, Own, Erasing
<1>13. CASE watchdog
  <2>1. transfer' = NoTransfer /\ flash_state' = "USER_MODE" /\ host' = NULL
        /\ UNCHANGED <<acked, spoiled>>
    BY <1>13 DEF watchdog, restart
  <2>2. transfer'.src = NULL
    BY <2>1 DEF NoTransfer
  <2> QED BY <2>1, <2>2, NullIsNone, CallersGeometry DEF Own, Told, Whole, Erasing, Writing
<1> QED BY <1>2, <1>3, <1>4, <1>5, <1>6, <1>7, <1>8, <1>9, <1>10, <1>11, <1>12, <1>13,
           CallersCases, AnswerOrder

LEMMA OrderInvariant == CallersSpec => [](Base /\ Order)
<1>1. Init /\ CallersInit => Base /\ Order
  BY BaseInit, OrderInit
<1>2. Base /\ Order /\ [CallersNext]_allVars => (Base /\ Order)'
  BY BaseStep, OrderStep
<1> QED BY <1>1, <1>2, PTL DEF CallersSpec

\* An erase command never hits a page that the host was told is stored: the
\* block's first chunk erases, later ones are refused ("neederase",
\* flash.c:185), and its command made the host forget the block.
THEOREM ErasesSpareTheAcked == CallersSpec => AckedPagesNotErased
<1>1. ASSUME Base, Order, [CallersNext]_allVars
      PROVE  [Commands /\ wip'.op = "erase" /\ wip'.sector \in Drive =>
                \A p \in PageNo : acked[wip'.sector][p] = NULL]_allVars
  <2> SUFFICES ASSUME Commands, wip'.op = "erase", wip'.sector \in Drive
               PROVE  \A p \in PageNo : acked[wip'.sector][p] = NULL
    OBVIOUS
  <2>1. [Next]_vars
    BY <1>1, CallersStepIsStep DEF Base
  <2>2. flash_erase
    <3>1. flash_program => wip'.op = "program"
      BY DEF flash_program
    <3> QED BY <2>1, <3>1, ChipSteps DEF Commands, chip_done
  <2> QED BY <1>1, <2>2 DEF flash_erase, Order, Erasing
<1> QED BY <1>1, OrderInvariant, PTL DEF CallersSpec, AckedPagesNotErased

----------------------------------------------------------------------------
(* What the host was told is stored, stays stored *)

\* write_flash remembers a transfer of the drive that was planned with the view
\* on, and its command was not given up.
Mine == ~stale /\ transfer.src = usb

\* The view is on again once such a transfer is over.
Mapped == ~stale /\ ~flash_busy => ~bitbang

\* As long as it is busy the host waits for it.
InUse == Mine /\ flash_busy => Writing /\ host.ready /\ transfer = HostTransfer /\ sound

\* It is never taken for a transfer of a later command: it is the current
\* chunk's, or lies before it, and the last one of a block is not the first.
Behind ==
  Mine =>
    /\ ~Writing => transfer.page # 0
    /\ Writing /\ host.chunk = 0 /\ transfer.page = 0 => transfer = HostTransfer /\ host.ready
    /\ Writing /\ host.chunk > 0 =>
         /\ transfer.sector = host.sector /\ transfer.page <= Start0(host.chunk)
         /\ transfer.page = Start0(host.chunk) => host.ready
         /\ transfer.page = 0 => host.chunk = 1 /\ host.sector \notin spoiled

\* A block whose earlier chunks were told truly is still written truly,
Faithful == Writing /\ host.chunk > 0 /\ host.sector \notin spoiled => ~stale

\* and its pages from the current chunk on are still erased, or hold at least
\* the bits that the chunk wants.
Room ==
  Writing /\ host.chunk > 0 /\ host.sector \notin spoiled =>
    /\ \A p \in PageNo :
         p >= Start0(host.chunk) + ChunkPages => Settled[host.sector][p] = Bits
    /\ \A i \in 0..ChunkPages - 1 :
         \/ Settled[host.sector][Start0(host.chunk) + i] = Bits
         \/ host.ready /\ ram[usb][i] \subseteq Settled[host.sector][Start0(host.chunk) + i]

\* The current chunk is going to be stored, or was skipped for its first byte;
\* the first one leaves the rest of the sector erased.
FirstByte(page) == page \cap FirstByteBits
Stores ==
  \/ planned = 0..ChunkPages - 1 /\ (~flash_busy => \A i \in planned : WillHold(i) = ram[usb][i])
  \/ /\ planned = {}
     /\ flash_state = "ERASE_TRACK" => FirstByte(Bits) = FirstByte(ram[usb][0])
     /\ flash_state # "ERASE_TRACK" => FirstByte(WillHold(0)) = FirstByte(ram[usb][0])
RestErased ==
  flash_state # "ERASE_TRACK" =>
    \A p \in PageNo : p >= ChunkPages => Settled[host.sector][p] = Bits
Work ==
  Writing /\ transfer = HostTransfer /\ ~stale => Stores /\ (host.chunk = 0 => RestErased)

\* Neither the chip nor the controller is about to touch what was promised.
ChipSpares ==
  wip # NULL /\ wip.sector \in Drive /\ wip.sector \notin spoiled =>
    \A p \in PageNo : wip.op = "erase" \/ wip.page = p => acked[wip.sector][p] = NULL
MaskSpares ==
  flash_busy /\ transfer.sector \in Drive /\ transfer.sector \notin spoiled =>
    \A i \in pages_to_program : acked[transfer.sector][transfer.page + i] = NULL

Promise ==
  /\ Mapped /\ InUse /\ Behind /\ Faithful /\ Room /\ Work
  /\ ChipSpares /\ MaskSpares /\ AckedIsStored

Known == Base /\ Order /\ Promise

LEMMA StoredShape ==
  ASSUME NEW s, NEW p
  PROVE  IsStored(s, p) <=> \/ mem[s][p] = acked[s][p]
                            \/ FirstByte(mem[s][FirstOf(p)]) = FirstByte(acked[s][FirstOf(p)])
BY DEF IsStored, FirstByteAgrees, FirstByte, FirstOf

\* The promises depend on what the chip holds only.
LEMMA AckedStable ==
  ASSUME AckedIsStored, UNCHANGED <<mem, acked, spoiled>>
  PROVE  AckedIsStored'
BY DEF AckedIsStored, IsStored, FirstByteAgrees

LEMMA HostTransferHere ==
  ASSUME Writing
  PROVE  /\ HostTransfer.src = usb /\ HostTransfer.sector = host.sector
         /\ HostTransfer.page = Start0(host.chunk) /\ HostTransfer.size = ChunkPages
         /\ host.sector \in Drive /\ host.chunk \in 0..Chunks - 1
         /\ host.chunk = 0 <=> Start0(host.chunk) = 0
<1>1. /\ HostTransfer.src = usb /\ HostTransfer.sector = host.sector
      /\ HostTransfer.page = Start0(host.chunk) /\ HostTransfer.size = ChunkPages
      /\ host.sector \in Drive /\ host.chunk \in 0..Chunks - 1
  BY HostTransferType DEF Writing
<1>2. host.chunk > 0 => Start0(host.chunk) >= ChunkPages
  BY <1>1, ChunkPlace, Zenon
<1>3. host.chunk = 0 => Start0(host.chunk) = 0
  BY <1>1, ChunkPlace, Zenon
<1> QED BY <1>1, <1>2, <1>3, ChunkCount

LEMMA PromiseInit == Init /\ CallersInit => Promise
<1> SUFFICES ASSUME Init, CallersInit PROVE Promise
  OBVIOUS
<1>1. /\ transfer.src = NULL /\ flash_state = "USER_MODE" /\ host = NULL /\ ~bitbang /\ wip = NULL
      /\ \A s \in Drive, p \in PageNo : acked[s][p] = NULL
  BY DEF Init, CallersInit, NoTransfer
<1>2. ~Writing /\ transfer.src # usb
  BY <1>1, NullIsNone, CallersGeometry DEF Writing
<1> QED BY <1>1, <1>2 DEF Promise, Mapped, Mine, InUse, Behind, Faithful, Room, Work, ChipSpares,
           MaskSpares, AckedIsStored, flash_busy

----------------------------------------------------------------------------
(* The steps of the host *)

\* What the promises are about depends on these variables only.
LEMMA PromiseQuiet == ASSUME Known, Quietly(UNCHANGED vars) PROVE Promise'
<1>1. /\ UNCHANGED <<flash_state, transfer, pages_to_program, bitbang, mem, wip, ram, planned, sound>>
      /\ UNCHANGED <<host, acked, stale, spoiled>>
  BY DEF Quietly, promises, vars, control, history
<1>2. /\ UNCHANGED <<Settled, flash_busy, HostTransfer>>
      /\ (Writing' <=> Writing) /\ (Mine' <=> Mine)
  BY <1>1 DEF Settled, flash_busy, HostTransfer, Writing, Mine
<1>3. Mapped' /\ InUse' /\ Faithful' /\ Room'
  BY <1>1, <1>2 DEF Known, Promise, Mapped, InUse, Faithful, Room
<1>4. Behind'
  BY <1>1, <1>2 DEF Known, Promise, Behind
<1>5. Work'
  BY <1>1, <1>2 DEF Known, Promise, Work, Stores, RestErased, WillHold
<1>6. ChipSpares' /\ MaskSpares'
  BY <1>1, <1>2 DEF Known, Promise, ChipSpares, MaskSpares
<1> QED BY <1>1, <1>3, <1>4, <1>5, <1>6, AckedStable DEF Known, Promise

\* A new block: what write_flash remembers is not its first chunk.
LEMMA PromiseWrite == ASSUME Known, NEW s \in Drive, HostWrite(s) PROVE Promise'
<1>1. /\ host = NULL /\ host'.sector = s /\ host'.chunk = 0 /\ UNCHANGED <<vars, stale>>
      /\ spoiled' = spoiled \ {s} /\ acked' = [acked EXCEPT ![s] = [p \in PageNo |-> NULL]]
  BY DEF HostWrite
<1>2. ~Writing
  BY <1>1, NullIsNone DEF Writing
<1>3. /\ \A p \in PageNo : acked'[s][p] = NULL
      /\ \A x \in Drive : x # s => acked'[x] = acked[x]
  BY <1>1 DEF Known, Base, CallersTyped, CallersTypeOK
<1>4. Mine => transfer.page # 0 /\ ~flash_busy
  BY <1>2 DEF Known, Promise, Behind, InUse
<1>5. UNCHANGED <<flash_state, bitbang, transfer, mem, wip, pages_to_program, Mine, flash_busy>>
  BY <1>1 DEF vars, control, Mine, flash_busy
<1>6. Mapped'
  BY <1>1, <1>5 DEF Known, Promise, Mapped
<1>7. InUse' /\ Behind' /\ Faithful' /\ Room'
  BY <1>1, <1>4, <1>5 DEF InUse, Behind, Faithful, Room
<1>8. Work'
  <2>1. 0 \in 0..Chunks - 1 /\ Start0(0) = 0
    BY ChunkPlace, ChunkCount
  <2>2. HostTransfer'.page = 0 /\ HostTransfer'.src = usb
    BY <1>1, <2>1 DEF HostTransfer, Start0
  <2>3. ~(transfer' = HostTransfer' /\ ~stale')
    BY <1>1, <1>4, <1>5, <2>2 DEF Mine
  <2> QED BY <2>3 DEF Work
<1>9. ChipSpares' /\ MaskSpares'
  <2>1. ASSUME NEW x \in Drive, x \notin spoiled', NEW p, acked[x][p] = NULL
        PROVE  acked'[x][p] = NULL \/ x = s
    BY <1>3, <2>1
  <2>2. ChipSpares'
    BY <1>1, <1>3, <1>5 DEF Known, Promise, ChipSpares
  <2>3. ASSUME flash_busy, transfer.sector \in Drive, NEW i \in pages_to_program
        PROVE  transfer.page + i \in PageNo
    <3>1. /\ transfer.page \in Nat /\ transfer.size \in Nat /\ transfer.page + transfer.size <= SectorPages
          /\ bytes_remaining \in 1..transfer.size
          /\ pages_to_program = transfer.size - bytes_remaining .. transfer.size - 1
      BY <2>3, TransferFields DEF Known, Base, SafetyInv, TypeOK, Admitted, MaskIsInterval
    <3> QED BY <2>3, <3>1, ChunkCount DEF PageNo
  <2>4. MaskSpares'
    BY <1>1, <1>3, <1>5, <2>3 DEF Known, Promise, MaskSpares
  <2> QED BY <2>2, <2>4
<1>10. AckedIsStored'
  <2> SUFFICES ASSUME NEW x \in Drive, NEW p \in PageNo, acked'[x][p] # NULL, x \notin spoiled'
               PROVE  IsStored(x, p)'
    BY DEF AckedIsStored
  <2>1. x # s /\ x \notin spoiled /\ acked'[x] = acked[x]
    BY <1>1, <1>3
  <2>2. IsStored(x, p)
    BY <2>1 DEF Known, Promise, AckedIsStored
  <2> QED BY <1>5, <2>1, <2>2 DEF IsStored, FirstByteAgrees
<1> QED BY <1>6, <1>7, <1>8, <1>9, <1>10 DEF Promise

LEMMA PromiseRead == ASSUME Known, NEW s \in Drive, HostRead(s) \/ ReadsOn PROVE Promise'
<1>1. UNCHANGED <<vars, stale, acked, spoiled>>
  BY DEF HostRead, ReadsOn, promises
<1>2. ~Writing /\ ~Writing'
  BY NextCommandType, NullIsNone DEF HostRead, ReadsOn, Writing
<1>3. Mine => transfer.page # 0 /\ ~flash_busy
  BY <1>2 DEF Known, Promise, Behind, InUse
<1>4. UNCHANGED <<flash_state, bitbang, transfer, mem, wip, pages_to_program, Mine, flash_busy>>
  BY <1>1 DEF vars, control, Mine, flash_busy
<1>5. Mapped' /\ InUse' /\ Behind' /\ Faithful' /\ Room' /\ Work'
  BY <1>1, <1>2, <1>3, <1>4 DEF Known, Promise, Mapped, InUse, Behind, Faithful, Room, Work
<1>6. ChipSpares' /\ MaskSpares'
  BY <1>1, <1>4 DEF Known, Promise, ChipSpares, MaskSpares
<1> QED BY <1>1, <1>4, <1>5, <1>6, AckedStable DEF Known, Promise

\* The data come before the chunk's transfer.
LEMMA PromiseData == ASSUME Known, NEW data \in Payloads, HostData(data) PROVE Promise'
<1>1. /\ host \in Command /\ ~host.ready /\ host' = [host EXCEPT !.ready = TRUE]
      /\ UNCHANGED <<control, mem, wip, planned, stale, acked, spoiled>>
  BY DEF HostData, fill, promises, Known, Base, CallersTyped, CallersTypeOK
<1>2. /\ host'.op = host.op /\ host'.sector = host.sector /\ host'.chunk = host.chunk /\ host'.ready
      /\ Writing' <=> Writing
  BY <1>1 DEF Command, Writing
<1>3. HostTransfer' = HostTransfer
  BY <1>2 DEF HostTransfer
<1>4. UNCHANGED <<flash_state, bitbang, transfer, pages_to_program, Mine, flash_busy>>
  BY <1>1 DEF control, Mine, flash_busy
<1>5. Settled' = Settled
  BY <1>1, SettledStable DEF Known, Base, SafetyInv
<1>6. ~(Mine /\ flash_busy)
  BY <1>1 DEF Known, Promise, InUse
<1>7. ~(Writing /\ transfer = HostTransfer /\ ~stale)
  <2> SUFFICES ASSUME Writing, transfer = HostTransfer, ~stale PROVE FALSE
    OBVIOUS
  <2>1. Mine /\ transfer.page = Start0(host.chunk) /\ host.chunk \in 0..Chunks - 1
        /\ (host.chunk = 0 <=> Start0(host.chunk) = 0)
    BY HostTransferHere DEF Mine
  <2>2. host.chunk = 0 \/ host.chunk > 0
    BY <2>1, ChunkCount
  <2> QED BY <1>1, <2>1, <2>2 DEF Known, Promise, Behind
<1>8. Mapped' /\ InUse' /\ Faithful'
  BY <1>1, <1>2, <1>4, <1>6 DEF Known, Promise, Mapped, InUse, Faithful
<1>9. Behind'
  BY <1>1, <1>2, <1>3, <1>4 DEF Known, Promise, Behind
<1>10. Room'
  BY <1>1, <1>2, <1>5 DEF Known, Promise, Room
<1>11. Work'
  BY <1>1, <1>2, <1>3, <1>4, <1>7 DEF Work
<1>12. ChipSpares' /\ MaskSpares'
  BY <1>1, <1>4 DEF Known, Promise, ChipSpares, MaskSpares
<1> QED BY <1>1, <1>8, <1>9, <1>10, <1>11, <1>12, AckedStable DEF Known, Promise

\* A command that is given up, or lost in a restart, makes no promises.
LEMMA PromiseGivenUp == ASSUME Known, HostAbort \/ watchdog PROVE Promise'
<1>1. /\ stale' = TRUE /\ host' = NULL /\ UNCHANGED <<acked, spoiled, mem, wip>>
      /\ ~flash_busy' \/ UNCHANGED <<flash_state, transfer, pages_to_program>>
  BY DEF HostAbort, watchdog, restart, vars, control, flash_busy
<1>2. ~Writing' /\ ~Mine'
  BY <1>1, NullIsNone DEF Writing, Mine
<1>3. Mapped' /\ InUse' /\ Behind' /\ Faithful' /\ Room' /\ Work'
  BY <1>1, <1>2 DEF Mapped, InUse, Behind, Faithful, Room, Work
<1>4. ChipSpares'
  BY <1>1 DEF Known, Promise, ChipSpares
<1>5. MaskSpares'
  BY <1>1 DEF Known, Promise, MaskSpares, flash_busy
<1> QED BY <1>1, <1>3, <1>4, <1>5, AckedStable DEF Known, Promise

----------------------------------------------------------------------------
(* The answers to the host *)

\* With the view on, what is read and what will be there is what there is.
LEMMA MappedIdle ==
  ASSUME Known, ~bitbang
  PROVE  wip = NULL /\ Settled = mem /\ \A s : View(s) = {mem[s]}
BY DEF Known, Base, SafetyInv, OperationInv, Settled, View

\* A chunk of a block that was told truly so far is not refused.
LEMMA NotRefused ==
  ASSUME Known, Writing, host.ready, ~flash_busy, host.sector \notin spoiled,
         NEW scan \in View(host.sector)
  PROVE  ~Unerasable(HostTransfer, scan)
<1> SUFFICES ASSUME Unerasable(HostTransfer, scan) PROVE FALSE
  OBVIOUS
<1>1. /\ HostTransfer.src = usb /\ HostTransfer.page = Start0(host.chunk)
      /\ HostTransfer.size = ChunkPages /\ host.chunk \in 0..Chunks - 1
      /\ host.chunk = 0 <=> Start0(host.chunk) = 0
  BY HostTransferHere
<1>2. host.chunk > 0
  BY <1>1, ChunkCount DEF Unerasable
<1>3. ~stale
  BY <1>2 DEF Known, Promise, Faithful
<1>4. ~bitbang
  BY <1>3 DEF Known, Promise, Mapped
<1>5. scan = Settled[host.sector]
  BY <1>4, MappedIdle
<1>6. PICK i \in 0..ChunkPages - 1 : ~(ram[usb][i] \subseteq scan[Start0(host.chunk) + i])
  BY <1>1 DEF Unerasable, SetsBits
<1>7. scan[Start0(host.chunk) + i] = Bits \/ ram[usb][i] \subseteq scan[Start0(host.chunk) + i]
  BY <1>2, <1>5 DEF Known, Promise, Room
<1>8. ram[usb][i] \subseteq Bits
  <2>1. i \in PageNo
    BY ChunkCount DEF PageNo
  <2> QED BY <2>1, CallersGeometry, PayloadAssumption DEF Known, Base, SafetyInv, TypeOK, Content
<1> QED BY <1>6, <1>7, <1>8

\* The answer is true, and leaves the pages behind the chunk erased.
LEMMA AnswerTrue ==
  ASSUME Known, Answers, host.sector \notin spoiled'
  PROVE  /\ ~stale' /\ ~bitbang /\ host.sector \notin spoiled /\ ~Refused
         /\ \/ \A i \in 0..ChunkPages - 1 :
                 mem[host.sector][Start0(host.chunk) + i] = ram[usb][i]
            \/ FirstByte(mem[host.sector][Start0(host.chunk)]) = FirstByte(ram[usb][0])
         /\ \A p \in PageNo :
              p >= Start0(host.chunk) + ChunkPages => mem[host.sector][p] = Bits
<1> DEFINE s == host.sector
           c == host.chunk
<1>1. /\ HostTransfer.src = usb /\ HostTransfer.sector = s /\ HostTransfer.page = Start0(c)
      /\ HostTransfer.size = ChunkPages /\ c \in 0..Chunks - 1 /\ Start0(c) + 0 = Start0(c)
      /\ c = 0 <=> Start0(c) = 0
  BY HostTransferHere, ChunkPlace DEF Answers
<1>2. Writing /\ host.ready /\ ~flash_busy /\ Acknowledged
  BY DEF Answers, Completed, Refused, PlansNothing, Plans
<1>3. ~stale' /\ s \notin spoiled
  BY <1>2 DEF Acknowledged
<1>4. ~bitbang
  <2>1. Completed \/ Refused => ~stale
    BY <1>3 DEF Completed, Refused
  <2>2. (\E scan, view : PlansNothing(scan, view)) => ~bitbang
    BY <1>3 DEF PlansNothing, Plans
  <2> QED BY <1>2, <2>1, <2>2 DEF Answers, Known, Promise, Mapped
<1>5. ~Refused
  BY <1>2, <1>3, NotRefused DEF Refused
<1>6. Settled = mem /\ View(s) = {mem[s]}
  BY <1>4, MappedIdle
<1>7. c > 0 => \A p \in PageNo : p >= Start0(c) + ChunkPages => mem[s][p] = Bits
  BY <1>2, <1>3, <1>6 DEF Known, Promise, Room
<1>8. c > 0 \/ c = 0
  BY <1>1, ChunkCount
<1>9. 0 \in 0..ChunkPages - 1 /\ 0 + ChunkPages = ChunkPages
  BY ChunkCount
<1>10. CASE Completed
  <2>1. Stores /\ (c = 0 => RestErased) /\ flash_state # "ERASE_TRACK" /\ transfer = HostTransfer
    BY <1>2, <1>3, <1>10 DEF Completed, Known, Promise, Work, flash_busy
  <2>2. \A i : WillHold(i) = mem[s][Start0(c) + i]
    BY <1>1, <1>6, <2>1 DEF WillHold
  <2>3. \/ \A i \in 0..ChunkPages - 1 : mem[s][Start0(c) + i] = ram[usb][i]
        \/ FirstByte(mem[s][Start0(c)]) = FirstByte(ram[usb][0])
    BY <1>1, <1>2, <2>1, <2>2 DEF Stores
  <2>4. c = 0 => \A p \in PageNo : p >= ChunkPages => mem[s][p] = Bits
    BY <1>6, <2>1 DEF RestErased
  <2>5. c = 0 => Start0(c) + ChunkPages = ChunkPages
    BY <1>1, <1>9
  <2>6. \A p \in PageNo : p >= Start0(c) + ChunkPages => mem[s][p] = Bits
    BY <1>7, <1>8, <2>4, <2>5
  <2> QED BY <1>3, <1>4, <1>5, <2>3, <2>6
<1>11. ASSUME NEW scan, NEW view, PlansNothing(scan, view)
       PROVE  /\ FirstByte(mem[s][Start0(c)]) = FirstByte(ram[usb][0])
              /\ \A p \in PageNo : p >= Start0(c) + ChunkPages => mem[s][p] = Bits
  <2>1. /\ scan = mem[s] /\ view = mem[s] /\ ~NeedsErase(HostTransfer, scan)
        /\ PagesToProgram(HostTransfer, FALSE, view) = {}
    BY <1>6, <1>11 DEF PlansNothing, Plans
  <2>2. FirstByte(mem[s][Start0(c)]) = FirstByte(ram[usb][0])
    BY <1>1, <1>9, <2>1 DEF PagesToProgram, FirstByte
  <2>3. ASSUME c = 0, NEW p \in PageNo, p >= Start0(c) + ChunkPages PROVE mem[s][p] = Bits
    <3>1. FirstChunk(HostTransfer)
      BY <1>1, <2>3, ChunkCount DEF FirstChunk
    <3>2. p \in ChunkPages..SectorPages - 1
      BY <1>1, <1>9, <2>3, ChunkCount DEF PageNo
    <3> QED BY <1>1, <2>1, <3>1, <3>2 DEF NeedsErase, RestDirty
  <2> QED BY <1>7, <1>8, <2>2, <2>3
<1> QED BY <1>3, <1>4, <1>5, <1>10, <1>11 DEF Answers

\* An answer promises its chunk, and the host goes on behind it.
LEMMA PromiseAnswers == ASSUME Known, Answers PROVE Promise'
<1> DEFINE s == host.sector
           c == host.chunk
<1>1. /\ HostTransfer.src = usb /\ HostTransfer.sector = s /\ HostTransfer.page = Start0(c)
      /\ HostTransfer.size = ChunkPages /\ c \in 0..Chunks - 1 /\ s \in Drive
      /\ c = 0 <=> Start0(c) = 0
  BY HostTransferHere DEF Answers
<1>2. /\ host \in Command /\ host.op = "write" /\ Writing /\ host.ready
      /\ ~flash_busy /\ ~flash_busy' /\ Acknowledged
      /\ UNCHANGED <<flash_state, mem, wip, ram, bitbang>>
      /\ transfer' \in {transfer, HostTransfer}
  BY AnswerOrder DEF Known, Answers, Writing
<1>3. c \in Nat /\ c + 1 \in Nat /\ Start0(c) \in Nat /\ Start0(c + 1) = Start0(c) + ChunkPages
  BY <1>1, ChunkPlace, ChunkCount
<1>4. /\ \A x \in Drive : x # s => acked'[x] = acked[x]
      /\ \A p \in PageNo : acked'[s][p] =
           IF p \div ChunkPages = c THEN ram[usb][p % ChunkPages] ELSE acked[s][p]
  BY <1>2, AckedType DEF Known, Base, CallersTyped, SafetyInv
<1>5. /\ spoiled' = IF stale' THEN spoiled \cup {s} ELSE spoiled
      /\ \A x \in Drive : x # s => (x \in spoiled' <=> x \in spoiled)
      /\ s \notin spoiled' <=> s \notin spoiled /\ ~stale'
  BY <1>2 DEF Acknowledged
<1>6. ~stale' => ~bitbang
  <2>1. Completed \/ Refused => stale' = stale
    BY DEF Completed, Refused
  <2>2. (\E scan, view : PlansNothing(scan, view)) => stale' = bitbang
    BY DEF PlansNothing, Plans
  <2> QED BY <1>2, <2>1, <2>2 DEF Answers, Known, Promise, Mapped
<1>7. Settled' = Settled
  BY <1>2, SettledStable DEF Known, Base, SafetyInv
<1>8. ASSUME Writing'
      PROVE  /\ host'.sector = s /\ host'.chunk = c + 1 /\ c + 1 \in 0..Chunks - 1
             /\ HostTransfer'.page = Start0(c + 1)
  <2>1. NextCommand \in Command /\ host' = NextCommand /\ c + 1 < Chunks
    BY <1>2, <1>8, NextCommandType, NullIsNone DEF Acknowledged, Writing
  <2>2. host'.sector = s /\ host'.chunk = c + 1
    BY <1>2, <2>1, NextCommandType
  <2>3. HostTransfer'.page = Start0(c + 1)
    BY <2>2 DEF HostTransfer, Start0
  <2> QED BY <1>3, <2>1, <2>2, <2>3, ChunkCount
<1>9. ASSUME ~Writing' PROVE c > 0
  <2>1. ~(c + 1 < Chunks)
    BY <1>2, <1>9, NextCommandType DEF Acknowledged, Writing
  <2> QED BY <1>1, <2>1, ChunkCount
<1>10. ASSUME Mine', transfer' # HostTransfer
       PROVE  /\ s \in spoiled /\ c > 0 /\ transfer'.page # 0
              /\ transfer'.sector = s /\ transfer'.page \in Nat /\ transfer'.page <= Start0(c)
  <2>1. transfer' = transfer /\ transfer # HostTransfer
    BY <1>2, <1>10
  <2>2. Refused
    BY <1>10, <2>1 DEF Answers, Completed, PlansNothing, Plans
  <2>3. Mine /\ transfer.page \in Nat
    BY <1>10, <2>1, <2>2, TransferFields DEF Refused, Mine, Known, Base, SafetyInv, TypeOK
  <2>4. PICK scan \in View(s) : Unerasable(HostTransfer, scan)
    BY <2>2 DEF Refused
  <2>5. s \in spoiled
    BY <1>2, <2>4, NotRefused
  <2>6. c > 0
    BY <1>1, <1>3, <2>4 DEF Unerasable
  <2> QED BY <1>2, <2>1, <2>3, <2>5, <2>6 DEF Known, Promise, Behind
<1>11. Mapped' /\ InUse' /\ MaskSpares'
  BY <1>2, <1>6 DEF Mapped, InUse, MaskSpares
<1>12. ChipSpares'
  <2> SUFFICES ASSUME wip' # NULL, wip'.sector \in Drive, wip'.sector \notin spoiled'
               PROVE  \A p \in PageNo : wip'.op = "erase" \/ wip'.page = p
                                          => acked'[wip'.sector][p] = NULL
    BY DEF ChipSpares
  <2>1. CASE wip'.sector = s
    <3>1. wip = NULL
      BY <1>5, <1>6, <2>1, MappedIdle
    <3> QED BY <1>2, <3>1
  <2>2. CASE wip'.sector # s
    BY <1>2, <1>4, <1>5, <2>2 DEF Known, Promise, ChipSpares
  <2> QED BY <2>1, <2>2
<1>13. Faithful'
  BY <1>5, <1>8 DEF Faithful
<1>14. Behind'
  <2> SUFFICES ASSUME Mine' PROVE Behind'
    BY DEF Behind
  <2>1. s \in spoiled' <=> s \in spoiled
    BY <1>5 DEF Mine
  <2>2. c = 0 => s \notin spoiled
    BY <1>2 DEF Known, Order, Told
  <2>3. c = 0 \/ c > 0
    BY <1>3
  <2>4. c > 0 => c + 1 > 0 /\ c + 1 # 0
    BY <1>3
  <2>5. c = 0 => c + 1 = 1
    OBVIOUS
  <2>6. c + 1 > 0 /\ c + 1 # 0
    BY <1>3
  <2>7. CASE transfer' = HostTransfer
    <3>1. ~Writing' => transfer'.page # 0
      BY <1>1, <1>9, <2>7, c > 0 => c # 0
    <3>2. Writing' => /\ transfer'.sector = s /\ Start0(c) <= Start0(c + 1)
                      /\ Start0(c) # Start0(c + 1)
                      /\ transfer'.page = 0 => c + 1 = 1 /\ s \notin spoiled'
      BY <1>1, <1>3, <2>1, <2>2, <2>5, <2>7, ChunkCount
    <3> QED BY <1>1, <1>8, <2>6, <2>7, <3>1, <3>2 DEF Behind
  <2>8. CASE transfer' # HostTransfer
    <3>1. transfer'.page <= Start0(c + 1) /\ transfer'.page # Start0(c + 1)
      BY <1>3, <1>10, <2>8, ChunkCount
    <3> QED BY <1>8, <1>10, <2>6, <2>8, <3>1 DEF Behind
  <2> QED BY <2>7, <2>8
<1>15. Work'
  <2> SUFFICES ASSUME Writing', transfer' = HostTransfer', ~stale' PROVE FALSE
    BY DEF Work
  <2>1. transfer'.page = Start0(c + 1) /\ transfer'.src = usb
    BY <1>8 DEF HostTransfer
  <2>2. Start0(c + 1) # Start0(c) /\ ~(Start0(c + 1) <= Start0(c))
    BY <1>3, ChunkCount
  <2> QED BY <1>1, <1>10, <2>1, <2>2 DEF Mine
<1>16. ASSUME s \notin spoiled'
       PROVE  /\ \/ \A i \in 0..ChunkPages - 1 : mem[s][Start0(c) + i] = ram[usb][i]
                 \/ FirstByte(mem[s][Start0(c)]) = FirstByte(ram[usb][0])
              /\ \A p \in PageNo : p >= Start0(c) + ChunkPages => Settled[s][p] = Bits
  BY <1>16, AnswerTrue, MappedIdle
<1>17. Room'
  <2> SUFFICES ASSUME Writing', s \notin spoiled' PROVE Room'
    BY <1>8 DEF Room
  <2>1. ASSUME NEW p \in PageNo, p >= Start0(c + 1) + ChunkPages PROVE p >= Start0(c) + ChunkPages
    BY <1>3, <2>1, ChunkCount DEF PageNo
  <2>2. ASSUME NEW i \in 0..ChunkPages - 1
        PROVE  Start0(c + 1) + i \in PageNo /\ Start0(c + 1) + i >= Start0(c) + ChunkPages
    <3>1. Start0(c + 1) + i \in PageNo
      BY <1>8, InChunk
    <3> QED BY <1>3, <3>1, ChunkCount
  <2>3. \A p \in PageNo : p >= Start0(c + 1) + ChunkPages => Settled'[s][p] = Bits
    BY <1>7, <1>16, <2>1
  <2>4. \A i \in 0..ChunkPages - 1 : Settled'[s][Start0(c + 1) + i] = Bits
    BY <1>7, <1>16, <2>2
  <2> QED BY <1>8, <2>3, <2>4 DEF Room
<1>18. AckedIsStored'
  <2> SUFFICES ASSUME NEW x \in Drive, NEW p \in PageNo, acked'[x][p] # NULL, x \notin spoiled'
               PROVE  IsStored(x, p)'
    BY DEF AckedIsStored
  <2>1. /\ FirstOf(p) \in PageNo /\ FirstOf(p) \div ChunkPages = p \div ChunkPages
        /\ FirstOf(p) % ChunkPages = 0 /\ p % ChunkPages \in 0..ChunkPages - 1
        /\ p = FirstOf(p) + (p % ChunkPages) /\ FirstOf(p) = Start0(p \div ChunkPages)
    BY FirstOfFirst, PagePlace
  <2>2. \/ mem[x][p] = acked'[x][p]
        \/ FirstByte(mem[x][FirstOf(p)]) = FirstByte(acked'[x][FirstOf(p)])
    <3>1. CASE x = s /\ p \div ChunkPages = c
      BY <1>4, <1>16, <2>1, <3>1
    <3>2. CASE ~(x = s /\ p \div ChunkPages = c)
      <4>1. acked'[x][p] = acked[x][p] /\ acked'[x][FirstOf(p)] = acked[x][FirstOf(p)]
        BY <1>4, <2>1, <3>2
      <4>2. x \notin spoiled
        BY <1>5
      <4> QED BY <4>1, <4>2, StoredShape DEF Known, Promise, AckedIsStored
    <3> QED BY <3>1, <3>2
  <2> QED BY <1>2, <2>2 DEF IsStored, FirstByteAgrees, FirstByte, FirstOf
<1> QED BY <1>11, <1>12, <1>13, <1>14, <1>15, <1>17, <1>18 DEF Promise

\* The transfer that starts is the current chunk's, and can be finished.
LEMMA PromiseWorks == ASSUME Known, Works PROVE Promise'
<1> DEFINE s == host.sector
           c == host.chunk
           t == HostTransfer
<1>1. /\ t.src = usb /\ t.sector = s /\ t.page = Start0(c) /\ t.size = ChunkPages
      /\ c \in 0..Chunks - 1 /\ s \in Drive /\ (c = 0 <=> Start0(c) = 0)
      /\ Start0(c) \in Nat /\ Start0(c) + 0 = Start0(c) /\ c \in Nat
  BY HostTransferHere, ChunkPlace, ChunkCount DEF Works
<1>2. PICK scan, view : PlansWork(scan, view)
  BY DEF Works
<1> DEFINE erase == NeedsErase(t, scan)
           pages == PagesToProgram(t, erase, view)
<1>3. /\ Writing /\ host.ready /\ ~flash_busy /\ flash_busy' /\ transfer' = t
      /\ UNCHANGED <<host, acked, spoiled, mem, wip, ram>>
      /\ scan \in View(s) /\ view \in View(s) /\ sound' = ~bitbang /\ stale' = bitbang
  <2>1. Writing /\ host.ready
    BY DEF Works
  <2> QED BY <1>2, <2>1 DEF PlansWork, Plans
<1>4. /\ planned' = pages /\ pages_to_program' = pages
      /\ flash_state' = IF erase THEN "ERASE_TRACK" ELSE "WRITE_SECTOR"
  BY <1>2, <1>3 DEF PlansWork, Plans, Start, flash_busy
<1>5. Settled' = Settled /\ HostTransfer' = t /\ (Writing' <=> Writing)
  BY <1>3 DEF Settled, HostTransfer, Writing
<1>6. /\ pages \in {{}, 0..ChunkPages - 1}
      /\ pages = {} => FirstByte(ram[usb][0]) =
                         FirstByte(IF erase THEN Bits ELSE view[Start0(c)])
  <2>1. 0..ChunkPages - 1 # {}
    BY ChunkCount
  <2> QED BY <1>1, <2>1 DEF PagesToProgram, FirstByte
<1> HIDE DEF t, erase, pages
<1>7. Mapped' /\ InUse'
  BY <1>3, <1>5 DEF Mapped, InUse, Mine
<1>8. Behind'
  <2>1. Start0(c) <= Start0(c) /\ (c > 0 => c # 0)
    BY <1>1
  <2> QED BY <1>1, <1>3, <1>5, <2>1 DEF Behind
<1>9. Faithful' /\ Room'
  BY <1>3, <1>5 DEF Known, Promise, Faithful, Mapped, Room
<1>10. Work'
  <2> SUFFICES ASSUME ~bitbang PROVE Work'
    BY <1>3 DEF Work
  <2>1. scan = mem[s] /\ view = mem[s] /\ Settled = mem
    BY <1>3, MappedIdle
  <2>2. WillHold(0)' = mem[s][Start0(c)]
    BY <1>1, <1>3, <1>5, <2>1 DEF WillHold
  <2>3. Stores'
    BY <1>3, <1>4, <1>6, <2>1, <2>2 DEF Stores
  <2>4. ASSUME c = 0, ~erase, NEW p \in PageNo, p >= ChunkPages PROVE mem[s][p] = Bits
    <3>1. FirstChunk(t)
      BY <1>1, <2>4, ChunkCount DEF FirstChunk
    <3>2. p \in ChunkPages..SectorPages - 1
      BY <2>4, ChunkCount DEF PageNo
    <3> QED BY <1>1, <2>1, <2>4, <3>1, <3>2 DEF NeedsErase, RestDirty, erase
  <2>5. c = 0 => RestErased'
    BY <1>3, <1>4, <1>5, <2>1, <2>4 DEF RestErased
  <2> QED BY <1>3, <2>3, <2>5 DEF Work
<1>11. ChipSpares'
  BY <1>3 DEF Known, Promise, ChipSpares
<1>12. MaskSpares'
  <2>1. ASSUME NEW i \in pages PROVE acked[s][Start0(c) + i] = NULL
    <3>1. i \in 0..ChunkPages - 1
      BY <1>6, <2>1
    <3>2. Start0(c) + i \in PageNo
      BY <1>1, <3>1, InChunk
    <3>3. ~(Start0(c) + i < Start0(c))
      BY <1>1, <3>1, ChunkCount
    <3> QED BY <1>3, <3>2, <3>3 DEF Known, Order, Told
  <2> QED BY <1>1, <1>3, <1>4, <2>1 DEF MaskSpares
<1> QED BY <1>3, <1>7, <1>8, <1>9, <1>10, <1>11, <1>12, AckedStable DEF Known, Promise

----------------------------------------------------------------------------
(* The other steps: cli_install, flash_task and the chip *)

\* cli_install's transfer is not taken for one of the drive's.
LEMMA PromiseReplaced == ASSUME Known, Replaced PROVE Promise'
<1>1. /\ UNCHANGED <<mem, wip, ram, host, acked, spoiled>> /\ stale' \in {stale, bitbang}
      /\ ~flash_busy' => bitbang' = bitbang
      /\ ~flash_busy /\ transfer'.src = cache /\ transfer'.sector < FirstSafe
  BY DEF Replaced
<1>2. transfer'.src # usb /\ transfer'.sector \notin Drive
  BY <1>1, CallersGeometry, \A s \in Drive : s \in Nat /\ ~(s < FirstSafe)
<1>3. ~stale => ~bitbang
  BY <1>1 DEF Known, Promise, Mapped
<1>4. /\ HostTransfer' = HostTransfer /\ Settled' = Settled /\ (Writing' <=> Writing)
      /\ HostTransfer.src = usb
  BY <1>1 DEF HostTransfer, Settled, Writing
<1>5. ~Mine' /\ transfer' # HostTransfer
  BY <1>2, <1>4 DEF Mine
<1>6. Mapped' /\ Faithful'
  BY <1>1, <1>3, <1>4 DEF Known, Promise, Mapped, Faithful
<1>7. InUse' /\ Behind' /\ Work' /\ MaskSpares'
  BY <1>2, <1>4, <1>5 DEF InUse, Behind, Work, MaskSpares
<1>8. Room' /\ ChipSpares'
  BY <1>1, <1>4 DEF Known, Promise, Room, ChipSpares
<1> QED BY <1>1, <1>6, <1>7, <1>8, AckedStable DEF Known, Promise

\* Its buffer is its own.
LEMMA PromiseFill == ASSUME Known, NEW data \in Payloads, Quietly(fill(cache, data)) PROVE Promise'
<1>1. /\ UNCHANGED <<flash_state, transfer, pages_to_program, bitbang, mem, wip, planned>>
      /\ UNCHANGED <<host, acked, stale, spoiled>>
      /\ ram' = [ram EXCEPT ![cache] = data]
      /\ sound' = (sound /\ ~(flash_busy /\ transfer.src = cache))
  BY DEF Quietly, promises, fill, control
<1>2. ram'[usb] = ram[usb]
  BY <1>1, CallersGeometry DEF Known, Base, SafetyInv, TypeOK
<1>3. /\ UNCHANGED <<Settled, flash_busy, HostTransfer>>
      /\ (Writing' <=> Writing) /\ (Mine' <=> Mine)
  BY <1>1 DEF Settled, flash_busy, HostTransfer, Writing, Mine
<1>4. InUse'
  BY <1>1, <1>3, CallersGeometry DEF Known, Promise, InUse, Mine
<1>5. Mapped' /\ Behind' /\ Faithful'
  BY <1>1, <1>3 DEF Known, Promise, Mapped, Behind, Faithful
<1>6. Room'
  BY <1>1, <1>2, <1>3 DEF Known, Promise, Room
<1>7. Work'
  BY <1>1, <1>2, <1>3 DEF Known, Promise, Work, Stores, RestErased, WillHold
<1>8. ChipSpares' /\ MaskSpares'
  BY <1>1, <1>3 DEF Known, Promise, ChipSpares, MaskSpares
<1> QED BY <1>1, <1>4, <1>5, <1>6, <1>7, <1>8, AckedStable DEF Known, Promise

\* The chip's operation changes one page, or erases one sector.
LEMMA Untouched ==
  ASSUME TypeOK, NEW s \in Sector, NEW p \in PageNo,
         wip # NULL /\ wip.sector = s => wip.op # "erase" /\ wip.page # p
  PROVE  Settled[s][p] = mem[s][p]
<1>1. CASE wip = NULL
  BY <1>1 DEF Settled
<1>2. CASE wip # NULL /\ wip.op = "erase"
  BY <1>2 DEF Settled, TypeOK
<1>3. CASE wip # NULL /\ wip.op # "erase"
  <2>1. Settled = [mem EXCEPT ![wip.sector][wip.page] = @ \cap wip.data]
    BY <1>3 DEF Settled
  <2> QED BY <1>3, <2>1 DEF TypeOK
<1> QED BY <1>1, <1>2, <1>3

\* The chip finishes a command that spared what was promised.
LEMMA PromiseChip == ASSUME Known, Quietly(chip_done) PROVE Promise'
<1>1. /\ UNCHANGED <<flash_state, transfer, pages_to_program, bitbang, ram, planned, sound>>
      /\ UNCHANGED <<host, acked, stale, spoiled>> /\ mem' = Settled /\ wip' = NULL
  BY DEF Quietly, promises, chip_done, control, history
<1>2. Settled' = Settled
  BY SettledStable DEF Quietly, Known, Base, SafetyInv
<1>3. /\ UNCHANGED <<flash_busy, HostTransfer>>
      /\ (Writing' <=> Writing) /\ (Mine' <=> Mine)
  BY <1>1 DEF flash_busy, HostTransfer, Writing, Mine
<1>4. Mapped' /\ InUse' /\ Behind' /\ Faithful'
  BY <1>1, <1>3 DEF Known, Promise, Mapped, InUse, Behind, Faithful
<1>5. Room' /\ Work'
  BY <1>1, <1>2, <1>3 DEF Known, Promise, Room, Work, Stores, RestErased, WillHold
<1>6. ChipSpares' /\ MaskSpares'
  BY <1>1, <1>3 DEF Known, Promise, ChipSpares, MaskSpares
<1>7. AckedIsStored'
  <2> SUFFICES ASSUME NEW s \in Drive, NEW p \in PageNo, acked[s][p] # NULL, s \notin spoiled
               PROVE  IsStored(s, p)'
    BY <1>1 DEF AckedIsStored
  <2>1. /\ FirstOf(p) \in PageNo /\ acked[s][FirstOf(p)] # NULL /\ s \in Sector
    BY FirstOfFirst, CallersGeometry DEF Known, Order, Whole
  <2>2. Settled[s][p] = mem[s][p] /\ Settled[s][FirstOf(p)] = mem[s][FirstOf(p)]
    BY <2>1, Untouched DEF Known, Base, SafetyInv, Promise, ChipSpares
  <2>3. \/ mem[s][p] = acked[s][p]
        \/ FirstByte(mem[s][FirstOf(p)]) = FirstByte(acked[s][FirstOf(p)])
    BY StoredShape DEF Known, Promise, AckedIsStored
  <2> QED BY <1>1, <2>2, <2>3 DEF IsStored, FirstByteAgrees, FirstByte, FirstOf
<1> QED BY <1>4, <1>5, <1>6, <1>7 DEF Promise

\* flash_task works for the current chunk, or for cli_install.
LEMMA WorksForHost ==
  ASSUME Known, flash_busy, transfer.sector \in Drive, ~stale
  PROVE  Writing /\ host.ready /\ transfer = HostTransfer /\ sound
<1>1. transfer.src = usb
  BY CallersGeometry, CallerAssumption DEF Known, Order, Own, Base, SafetyInv, Admitted
<1> QED BY <1>1 DEF Known, Promise, InUse, Mine

LEMMA PromiseTask == ASSUME Known, Quietly(flash_task) PROVE Promise'
<1>1. /\ UNCHANGED <<transfer, mem, ram, planned, sound, host, acked, stale, spoiled>>
      /\ flash_busy /\ wip = NULL
  BY DEF Quietly, promises, flash_task, flash_erase, flash_program, flash_abandon, flash_verify,
         history, flash_busy, spiIsBusy
<1>2. /\ HostTransfer' = HostTransfer /\ Settled = mem
      /\ (Writing' <=> Writing) /\ (Mine' <=> Mine)
  BY <1>1 DEF HostTransfer, Settled, Writing, Mine
<1>3. Behind' /\ Faithful' /\ AckedIsStored'
  BY <1>1, <1>2, AckedStable DEF Known, Promise, Behind, Faithful
<1>4. InUse'
  BY <1>1, <1>2 DEF Known, Promise, InUse
<1>5. /\ transfer.src \in Buffers /\ transfer.sector \in Sector /\ transfer.page \in Nat
      /\ transfer.size \in Nat /\ transfer.page + transfer.size <= SectorPages
      /\ TypeOK /\ Drive \subseteq Sector
  BY <1>1, TransferFields, CallersGeometry DEF Known, Base, SafetyInv, TypeOK, Admitted
<1>6. CASE flash_verify
  <2>1. ~flash_busy' /\ wip' = wip /\ ~bitbang' /\ flash_state = "VERIFY_TRACK"
    BY <1>6 DEF flash_verify, flash_busy
  <2>2. Settled' = Settled /\ flash_state' # "ERASE_TRACK"
    BY <1>1, <2>1, <1>6 DEF Settled, flash_verify
  <2>3. Mapped' /\ ChipSpares' /\ MaskSpares' /\ Room'
    BY <1>1, <1>2, <2>1, <2>2 DEF Mapped, ChipSpares, MaskSpares, Known, Promise, Room
  <2>4. Work'
    <3> SUFFICES ASSUME Writing, transfer = HostTransfer, ~stale PROVE Work'
      BY <1>1, <1>2 DEF Work
    <3>1. Stores /\ (host.chunk = 0 => RestErased) /\ transfer.src = usb
      BY HostTransferHere DEF Known, Promise, Work
    <3>2. sound
      BY <1>1, <3>1 DEF Known, Promise, InUse, Mine
    <3>3. \A i \in planned : WillHold(i) = ram[usb][i]
      BY <2>1, <3>1, <3>2 DEF Known, Base, DataInv
    <3>4. Stores'
      BY <1>1, <2>1, <2>2, <3>1, <3>3 DEF Stores, WillHold
    <3>5. host.chunk = 0 => RestErased'
      BY <1>1, <2>1, <2>2, <3>1 DEF RestErased
    <3> QED BY <1>1, <3>4, <3>5 DEF Work
  <2> QED BY <1>3, <1>4, <2>3, <2>4 DEF Promise
<1>7. CASE flash_abandon
  <2>1. flash_state = "WRITE_SECTOR" /\ flash_state' = "VERIFY_TRACK"
        /\ UNCHANGED <<wip, pages_to_program>> /\ flash_busy'
    BY <1>7 DEF flash_abandon, Known, Base, SafetyInv, NeverForbidden, flash_busy
  <2>2. Settled' = Settled
    BY <1>1, <2>1 DEF Settled
  <2>3. Mapped' /\ ChipSpares' /\ MaskSpares' /\ Room'
    BY <1>1, <1>2, <2>1, <2>2 DEF Mapped, ChipSpares, MaskSpares, Known, Promise, Room
  <2>4. Stores => Stores'
    BY <1>1, <2>1, <2>2 DEF Stores, WillHold
  <2>5. RestErased => RestErased'
    BY <1>1, <2>1, <2>2 DEF RestErased
  <2>6. Work'
    BY <1>1, <1>2, <2>4, <2>5 DEF Known, Promise, Work
  <2> QED BY <1>3, <1>4, <2>3, <2>6 DEF Promise
<1>8. CASE flash_erase
  <2>1. /\ wip' = [op |-> "erase", sector |-> transfer.sector] /\ flash_busy'
        /\ flash_state = "ERASE_TRACK" /\ flash_state' = "WRITE_SECTOR"
        /\ pages_to_program' = pages_to_program
    BY <1>8 DEF flash_erase, flash_busy
  <2>2. wip' # NULL
    BY <1>5, <2>1, NullAssumption DEF Operation
  <2>3. Settled' = [mem EXCEPT ![transfer.sector] = [p \in PageNo |-> Bits]]
    BY <1>1, <2>1, <2>2 DEF Settled
  <2>4. /\ \A p \in PageNo : Settled'[transfer.sector][p] = Bits
        /\ \A x \in Sector, p \in PageNo :
             Settled[x][p] = Bits => Settled'[x][p] = Bits
        /\ \A x \in Sector, p \in PageNo :
             Settled'[x][p] = Bits \/ Settled'[x][p] = Settled[x][p]
    BY <1>2, <1>5, <2>3 DEF TypeOK
  <2>5. Mapped' /\ MaskSpares'
    BY <1>1, <2>1 DEF Mapped, MaskSpares, Known, Promise
  <2>6. ChipSpares'
    BY <1>1, <2>1 DEF ChipSpares, Known, Order, Erasing
  <2>7. Room'
    <3> SUFFICES ASSUME Writing, host.chunk > 0, host.sector \notin spoiled PROVE Room'
      BY <1>1, <1>2 DEF Room
    <3>1. host.sector \in Sector /\ host.chunk \in 0..Chunks - 1
      BY <1>5, HostTransferHere
    <3>2. /\ \A p \in PageNo :
               p >= Start0(host.chunk) + ChunkPages => Settled[host.sector][p] = Bits
          /\ \A i \in 0..ChunkPages - 1 :
               \/ Settled[host.sector][Start0(host.chunk) + i] = Bits
               \/ host.ready /\ ram[usb][i] \subseteq Settled[host.sector][Start0(host.chunk) + i]
      BY DEF Known, Promise, Room
    <3>3. \A i \in 0..ChunkPages - 1 : Start0(host.chunk) + i \in PageNo
      BY <3>1, InChunk
    <3>4. \A i \in 0..ChunkPages - 1 :
               \/ Settled'[host.sector][Start0(host.chunk) + i] = Bits
               \/ host.ready /\ ram[usb][i] \subseteq Settled'[host.sector][Start0(host.chunk) + i]
      BY <2>4, <3>1, <3>2, <3>3
    <3>5. \A p \in PageNo :
               p >= Start0(host.chunk) + ChunkPages => Settled'[host.sector][p] = Bits
      BY <2>4, <3>1, <3>2
    <3> QED BY <1>1, <3>4, <3>5 DEF Room
  <2>8. Work'
    <3> SUFFICES ASSUME Writing, transfer = HostTransfer, ~stale PROVE Work'
      BY <1>1, <1>2 DEF Work
    <3>1. Stores /\ transfer.sector = host.sector /\ transfer.page + 0 \in PageNo
      <4>1. transfer.page \in PageNo /\ transfer.page + 0 = transfer.page
        BY <1>5, TransferFields DEF TypeOK
      <4> QED BY <4>1, HostTransferHere DEF Known, Promise, Work
    <3>2. FirstByte(WillHold(0)') = FirstByte(Bits)
      BY <1>1, <2>4, <3>1 DEF WillHold
    <3>3. Stores'
      BY <1>1, <2>1, <3>1, <3>2 DEF Stores
    <3>4. RestErased'
      BY <1>1, <2>4, <3>1 DEF RestErased
    <3> QED BY <3>3, <3>4 DEF Work
  <2> QED BY <1>3, <1>4, <2>5, <2>6, <2>7, <2>8 DEF Promise
<1>9. CASE flash_program
  <2>0. PICK k \in Int : k = transfer.size - bytes_remaining
    BY <1>5 DEF TypeOK
  <2>1. flash_state = "WRITE_SECTOR" /\ pages_to_program # {}
    BY <1>9 DEF flash_program
  <2>2. /\ bytes_remaining \in 1..transfer.size /\ pages_to_program = k..transfer.size - 1
    BY <2>0, <2>1 DEF Known, Base, SafetyInv, MaskIsInterval
  <2>3. Min(pages_to_program) = k /\ k \in pages_to_program /\ k \in Nat /\ k < transfer.size
    BY <1>5, <2>0, <2>2, MinOfInterval
  <2>4. /\ wip' = [op |-> "program", sector |-> transfer.sector,
                   page |-> transfer.page + k, data |-> ram[transfer.src][k]]
        /\ flash_state' \in {"WRITE_SECTOR", "VERIFY_TRACK"} /\ flash_busy'
        /\ pages_to_program' \subseteq pages_to_program
    BY <1>9, <2>1, <2>3 DEF flash_program, flash_busy
  <2>5. transfer.page + k \in PageNo /\ k \in PageNo
    BY <1>5, <2>3, ChunkCount DEF PageNo
  <2>6. Settled' = [mem EXCEPT ![transfer.sector][transfer.page + k] = @ \cap ram[transfer.src][k]]
    <3>1. ram[transfer.src][k] \in Content
      BY <1>5, <2>5, PayloadAssumption DEF TypeOK
    <3>2. wip' \in Operation
      BY <1>5, <2>4, <2>5, <3>1 DEF Operation
    <3> QED BY <1>1, <2>4, <3>2, NullAssumption DEF Settled
  <2>7. /\ Settled'[transfer.sector][transfer.page + k] =
             Settled[transfer.sector][transfer.page + k] \cap ram[transfer.src][k]
        /\ \A x \in Sector, p \in PageNo :
             x # transfer.sector \/ p # transfer.page + k => Settled'[x][p] = Settled[x][p]
    BY <1>2, <1>5, <2>5, <2>6 DEF TypeOK
  <2>8. Mapped' /\ MaskSpares'
    BY <1>1, <2>4 DEF Mapped, MaskSpares, Known, Promise
  <2>9. ChipSpares'
    BY <1>1, <2>3, <2>4 DEF ChipSpares, MaskSpares, Known, Promise
  <2>10. Room'
    <3> DEFINE s == host.sector
               c == host.chunk
    <3> SUFFICES ASSUME Writing, c > 0, s \notin spoiled PROVE Room'
      BY <1>1, <1>2 DEF Room
    <3>1. s \in Sector /\ s \in Drive /\ c \in 0..Chunks - 1 /\ Start0(c) \in Nat
      BY <1>5, HostTransferHere, ChunkPlace
    <3>2. /\ \A p \in PageNo : p >= Start0(c) + ChunkPages => Settled[s][p] = Bits
          /\ \A i \in 0..ChunkPages - 1 :
               \/ Settled[s][Start0(c) + i] = Bits
               \/ host.ready /\ ram[usb][i] \subseteq Settled[s][Start0(c) + i]
      BY DEF Known, Promise, Room
    <3>3. \A i \in 0..ChunkPages - 1 : Start0(c) + i \in PageNo
      BY <3>1, InChunk
    <3>4. CASE transfer.sector # s
      BY <1>1, <2>7, <3>1, <3>2, <3>3, <3>4 DEF Room
    <3>5. CASE transfer.sector = s
      <4>1. host.ready /\ transfer = HostTransfer /\ sound /\ transfer.src = usb
            /\ transfer.page = Start0(c) /\ transfer.size = ChunkPages
        <5>1. ~stale
          BY DEF Known, Promise, Faithful
        <5> QED BY <1>1, <3>1, <3>5, <5>1, WorksForHost, HostTransferHere
      <4>2. ram[usb][k] \subseteq Settled[s][Start0(c) + k]
        BY <2>1, <2>3, <3>5, <4>1 DEF Known, Base, DataInv, WillHold
      <4>3. Settled'[s][Start0(c) + k] = ram[usb][k]
        BY <2>7, <3>5, <4>1, <4>2
      <4>4. ASSUME NEW p \in PageNo, p >= Start0(c) + ChunkPages
            PROVE  Settled'[s][p] = Bits
        <5>1. p # transfer.page + k
          BY <2>3, <3>1, <4>1, <4>4, ChunkCount DEF PageNo
        <5> QED BY <2>7, <3>1, <3>2, <4>4, <5>1
      <4>5. ASSUME NEW i \in 0..ChunkPages - 1
            PROVE  \/ Settled'[s][Start0(c) + i] = Bits
                   \/ host.ready /\ ram[usb][i] \subseteq Settled'[s][Start0(c) + i]
        <5>1. CASE i = k
          BY <4>1, <4>3, <5>1
        <5>2. CASE i # k
          <6>1. Start0(c) + i # transfer.page + k
            BY <2>3, <3>1, <4>1, <5>2, ChunkCount
          <6> QED BY <2>7, <3>1, <3>2, <3>3, <6>1
        <5> QED BY <5>1, <5>2
      <4> QED BY <1>1, <4>4, <4>5 DEF Room
    <3> QED BY <3>4, <3>5
  <2>11. Work'
    <3> SUFFICES ASSUME Writing, transfer = HostTransfer, ~stale PROVE Work'
      BY <1>1, <1>2 DEF Work
    <3>1. /\ Stores /\ (host.chunk = 0 => RestErased) /\ transfer.src = usb
          /\ transfer.sector = host.sector /\ transfer.page = Start0(host.chunk)
          /\ transfer.size = ChunkPages /\ (host.chunk = 0 => transfer.page = 0)
      BY HostTransferHere DEF Known, Promise, Work
    <3>2. k \in planned
      BY <1>1, <2>1, <2>3, <3>1 DEF Known, Promise, InUse, Mine, Base, DataInv
    <3>3. Stores'
      BY <1>1, <2>4, <3>1, <3>2 DEF Stores
    <3>4. ASSUME host.chunk = 0, NEW p \in PageNo, p >= ChunkPages
          PROVE  Settled'[host.sector][p] = Bits
      <4>1. p # transfer.page + k
        BY <2>3, <3>1, <3>4, ChunkCount DEF PageNo
      <4>2. Settled[host.sector][p] = Bits
        BY <2>1, <3>1, <3>4 DEF RestErased
      <4> QED BY <1>5, <2>7, <3>1, <4>1, <4>2
    <3>5. host.chunk = 0 => RestErased'
      BY <1>1, <3>4 DEF RestErased
    <3> QED BY <1>1, <3>3, <3>5 DEF Work
  <2> QED BY <1>3, <1>4, <2>8, <2>9, <2>10, <2>11 DEF Promise
<1> QED BY <1>6, <1>7, <1>8, <1>9 DEF Quietly, flash_task

----------------------------------------------------------------------------
(* The invariant and the theorem *)

LEMMA PromiseStep == ASSUME Known, [CallersNext]_allVars PROVE Promise'
<1>1. ASSUME NEW s \in Drive, HostWrite(s) \/ HostRead(s) PROVE Promise'
  BY <1>1, PromiseWrite, PromiseRead
<1>2. ASSUME NEW data \in Payloads, HostData(data) PROVE Promise'
  BY <1>2, PromiseData
<1>3. CASE HostAbort \/ watchdog
  BY <1>3, PromiseGivenUp
<1>4. CASE ReadsOn
  <2>1. \E s : s \in Drive
    BY <1>4 DEF ReadsOn, Command
  <2> QED BY <1>4, <2>1, PromiseRead
<1>5. CASE Answers \/ Works
  BY <1>5, PromiseAnswers, PromiseWorks
<1>6. CASE Replaced
  BY <1>6, PromiseReplaced
<1>7. ASSUME NEW data \in Payloads, Quietly(fill(cache, data)) PROVE Promise'
  BY <1>7, PromiseFill
<1>8. CASE Quietly(UNCHANGED vars)
  BY <1>8, PromiseQuiet
<1>9. CASE Quietly(flash_task)
  BY <1>9, PromiseTask
<1>10. CASE Quietly(chip_done)
  BY <1>10, PromiseChip
<1>11. Base
  BY DEF Known
<1> QED BY <1>1, <1>2, <1>3, <1>4, <1>5, <1>6, <1>7, <1>8, <1>9, <1>10, <1>11, CallersCases

LEMMA PromiseInvariant == CallersSpec => []Known
<1>1. Init /\ CallersInit => Known
  BY BaseInit, OrderInit, PromiseInit DEF Known
<1>2. Known /\ [CallersNext]_allVars => Known'
  BY BaseStep, OrderStep, PromiseStep DEF Known
<1> QED BY <1>1, <1>2, PTL DEF CallersSpec

\* What the USB host was told is stored is in the flash from then on, whatever
\* is erased, retried, given up or restarted, and whatever cli_install writes,
\* except where write_flash answered for a command that was given up
\* ("Transfer complete", flash.c:113).
THEOREM AckedStored == CallersSpec => []AckedIsStored
<1>1. Known => AckedIsStored
  BY DEF Known, Promise
<1> QED BY <1>1, PromiseInvariant, PTL
=============================================================================
