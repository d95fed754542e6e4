------------------------------ MODULE BootRom ------------------------------
(***************************************************************************)
(* How the machine gets its first program (hw/mips/bbk9588.c): when QEMU   *)
(* starts, the boot ROM copies the first stage from the normal or from the *)
(* backup area of the NAND image into RAM, correcting it page by page, or  *)
(* copies pages raw for a diagnostic start.  A reset only sends the CPU    *)
(* back to the start address: RAM is what the guest left in it.            *)
(***************************************************************************)
EXTENDS Naturals, Sequences, FiniteSets

CONSTANTS
  Size,          \* pages of the first stage (bootrom-size)
  Backup,        \* page of the backup area, 4 in the code
  Pages,         \* pages of the chip
  Images,        \* [present, spare (raw stride), pages] of the image file
  Firmwares      \* values of firmware-phys, as "zero" or "default"

VARIABLES
  nand,          \* page -> [mark, data]
  image,
  board,         \* up, area, pc: what a start left
  ram,           \* RAM at firmware-phys, page by page
  touched        \* the guest has written there since QEMU started

vars == <<nand, image, board, ram, touched>>

(* The spare bytes mark a page as the boot ROM's; the code finds its data       *)
(* right, correctable or beyond correction.                                    *)
Conditions == {"erased", "right", "wrong", "lost"}
PageStates == [mark : BOOLEAN, data : Conditions]

Down == [up |-> FALSE, area |-> "none", pc |-> "default"]
Empty == <<>>

Init ==
  /\ nand \in [Pages -> {p \in PageStates : p.data = "erased" => ~p.mark}]
  /\ image \in Images
  /\ board = Down /\ ram = Empty /\ touched = FALSE

----------------------------------------------------------------------------
(* bbk9588_bootrom_nand_page_valid *)
PageValid(p) == image.present /\ (image.spare => p < image.pages /\ nand[p].mark)

(* bbk9588_bootrom_nand_area_has_valid_page; the search ends with the image.    *)
Area(first) == first .. first + Size - 1
InImage(first) == {p \in Area(first) : p < image.pages}

AreaHasValidPage(first) == \E p \in InImage(first) : PageValid(p)

(* bbk9588_bootrom_nand_range_erased *)
RangeErased(first) == \A p \in InImage(first) : nand[p].data = "erased"

(* bbk9588_bootrom_correct_nand_page *)
Corrects(p) == image.spare /\ p < image.pages /\ nand[p].data # "lost"

(* bbk9588_bootrom_copy_nand_data: up to the first page that is not marked; one *)
(* page beyond correction and nothing is written to RAM.                       *)
Marked(first) ==
  {p \in Area(first) : \A q \in first .. p : PageValid(q)}

CopyFails(first) == Marked(first) = {} \/ \E p \in Marked(first) : ~Corrects(p)

Copied(first) == [i \in 1 .. Cardinality(Marked(first)) |-> <<first + i - 1, "right">>]

(* bbk9588_bootrom_load_first_stage *)
Loads(first) == AreaHasValidPage(first) /\ ~RangeErased(first) /\ ~CopyFails(first)

EntryPc(firmware) == IF firmware = "zero" THEN "entry" ELSE "default"

LoadFirstStage(first, area, firmware) ==
  /\ Loads(first)
  /\ ram' = Copied(first)
  /\ board' = [up |-> TRUE, area |-> area, pc |-> EntryPc(firmware)]

(* bbk9588_bootrom_load_raw_payload: pages as they are, or QEMU exits.          *)
LoadRaw(first, length) ==
  IF first + length > image.pages THEN board' = Down /\ UNCHANGED ram
  ELSE /\ ram' = [i \in 1 .. length |-> <<first + i - 1, nand[first + i - 1].data>>]
       /\ board' = [up |-> TRUE, area |-> "raw", pc |-> "default"]

(* bbk9588_load_firmware and bbk9588_bootrom_load_from_nand.  RAM begins empty.  *)
StartBootRom(firmware) ==
  /\ ~board.up /\ image.present
  /\ \/ LoadFirstStage(0, "normal", firmware)
     \/ ~Loads(0) /\ LoadFirstStage(Backup, "backup", firmware)
     \/ ~Loads(0) /\ ~Loads(Backup) /\ board' = Down /\ ram' = Empty
  /\ touched' = FALSE /\ UNCHANGED <<nand, image>>

StartRaw(first, length) ==
  /\ ~board.up /\ image.present
  /\ first # 0 \/ length > Size
  /\ LoadRaw(first, length)
  /\ touched' = FALSE /\ UNCHANGED <<nand, image>>

(* With -kernel, or without an image and with a warning only, the boot ROM has  *)
(* no part.                                                                    *)
StartKernel ==
  /\ ~board.up
  /\ board' = [up |-> TRUE, area |-> "kernel", pc |-> "default"]
  /\ ram' = Empty /\ touched' = FALSE /\ UNCHANGED <<nand, image>>

----------------------------------------------------------------------------
(* The guest overwrites its first stage, or a page of the chip.                *)
WriteRam ==
  /\ board.up /\ touched' = TRUE /\ ram' = Empty
  /\ UNCHANGED <<nand, image, board>>

WritePage(p, s) ==
  /\ board.up /\ image.present /\ p < image.pages
  /\ nand' = [nand EXCEPT ![p] = s]
  /\ UNCHANGED <<image, board, ram, touched>>

(* bbk9588_cpu_reset *)
Reset == board.up /\ UNCHANGED vars

Quit == board.up /\ board' = Down /\ ram' = Empty /\ UNCHANGED <<nand, image, touched>>

Next ==
  \/ \E f \in Firmwares : StartBootRom(f)
  \/ \E p \in Pages, n \in 1 .. Size + 1 : StartRaw(p, n)
  \/ StartKernel \/ WriteRam \/ Reset \/ Quit
  \/ \E p \in Pages : \E s \in {[mark |-> TRUE, data |-> "right"],
                                [mark |-> FALSE, data |-> "erased"]} : WritePage(p, s)

Spec == Init /\ [][Next]_vars

----------------------------------------------------------------------------
TypeOK ==
  /\ nand \in [Pages -> PageStates] /\ touched \in BOOLEAN
  /\ board.area \in {"none", "normal", "backup", "raw", "kernel"}
  /\ board.pc \in {"default", "entry"} /\ board.up \in BOOLEAN
  /\ ram \in Seq(Pages \X Conditions)

(* What the boot ROM put into RAM is one run of corrected pages from the start  *)
(* of one area, and never what it could not correct.                           *)
StageSound ==
  board.area \in {"normal", "backup"} /\ ~touched =>
    LET first == IF board.area = "normal" THEN 0 ELSE Backup
    IN  /\ Len(ram) \in 1 .. Size
        /\ \A i \in 1 .. Len(ram) : ram[i] = <<first + i - 1, "right">>

(* A start uses the backup only if the normal area has nothing to offer, leaves *)
(* the chip alone, and copies less than the whole stage only if a page of the   *)
(* area is not marked.                                                         *)
StartsWell ==
  board.area = "none" /\ board'.area \in {"normal", "backup"} =>
    LET first == IF board'.area = "normal" THEN 0 ELSE Backup
    IN  /\ nand' = nand
        /\ board'.area = "backup" =>
             \/ \E p \in InImage(0) : nand[p].data = "lost"
             \/ \A p \in InImage(0) : ~nand[p].mark \/ nand[p].data = "erased"
             \/ ~nand[0].mark
        /\ Len(ram') < Size =>
             \E p \in Area(first) : p >= image.pages \/ ~nand[p].mark

(* Only a new QEMU reads the chip again: a reset runs what the guest left.      *)
OnlyStartLoads ==
  ram' # ram /\ ram' # Empty => ~board.up
=============================================================================
