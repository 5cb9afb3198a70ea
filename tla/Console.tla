------------------------------ MODULE Console ------------------------------
(***************************************************************************)
(* The console's menu on a machine that was started from a stick: the      *)
(* system is installed on a disk, or reset.                                *)
(*                                                                         *)
(*   backend/cmd/backend/prompt.go, backend/utils/dd.go                    *)
(*   backend/modules/nas/diskinventory/x86_install.go                      *)
(*   backend/service/nas.go (getBootDisk, GetDiskInfoForX86Install)        *)
(*                                                                         *)
(* Disks have their device numbers one after the other, a disk's           *)
(* partitions behind it.  A table is its two headers, its entries and its  *)
(* checksums; a checksum is what it was computed from.                     *)
(***************************************************************************)
EXTENDS Integers, Sequences, FiniteSets

CONSTANT DiskCount  \* how many disks there are

ASSUME ConsoleAssumption == DiskCount \in Nat \ {0}

VARIABLES machine,  \* the disks: partitions, size, kind; which one runs the system, and whether /boot is mounted
          menu,     \* where the console is
          found,    \* the disks that were listed, and the one taken for the system's
          target,   \* the disk that was chosen
          agreed,   \* history: how often its loss was agreed to
          table     \* the partition table of the disk that is written

consoleVars == <<machine, menu, found, target, agreed, table>>

DiskIds == 1 .. DiskCount
None0 == 0

-----------------------------------------------------------------------------
(* Which disks there are                                                   *)

\* Device numbers: a disk's own is followed by its partitions'.
Minor[d \in DiskIds] == IF d = 1 THEN 0 ELSE Minor[d - 1] + machine.disks[d - 1].parts + 1

\* isX86DiskRoot: the disk with /boot, of more than two partitions.
isX86DiskRoot(d) == machine.disks[d].parts > 2 /\ machine.root = d /\ machine.boot

\* getBootDisk: the number of the system's partition, its last two bits cut off,
\* is taken for its disk's, and refused when that has no third partition.
getBootDisk ==
  LET number == ((Minor[machine.root] + 2) \div 4) * 4
      at == {d \in DiskIds : Minor[d] = number /\ machine.disks[d].parts >= 3}
  IN  IF at = {} THEN None0 ELSE CHOOSE d \in at : TRUE

X86Root ==
  LET mounted == {d \in DiskIds : isX86DiskRoot(d)} IN IF mounted = {} THEN getBootDisk ELSE CHOOSE d \in mounted : TRUE

\* FromLSBLK: the disks that are offered, none when the system's is not known.
FromLSBLK ==
  [root |-> X86Root,
   devs |-> IF X86Root = None0 THEN {}
            ELSE {d \in DiskIds : d # X86Root /\ machine.disks[d].kind = "disk" /\ machine.disks[d].large}]

-----------------------------------------------------------------------------
(* The target's table.  The source has the entries "src" and the id "src". *)

Source0 == [main |-> "src", grub |-> "src"]
Blank == [main |-> "", grub |-> ""]
Header(guid, entries) == [guid |-> guid, ecrc |-> entries, hcrc |-> <<guid, entries>>]
Valid(t) == t.header.ecrc = t.entries /\ t.header.hcrc = <<t.header.guid, t.header.ecrc>>
OldTable == [header |-> Header("old", Blank), entries |-> Blank, alt |-> Blank, altGuid |-> "old", reset |-> FALSE]

\* The first bytes of the source, up to its third partition.
Dd(t) == [t EXCEPT !.header = Header("src", Source0), !.entries = Source0]
\* The new system starts without the old one's overlay.
WriteReset(t) == [t EXCEPT !.reset = TRUE]

\* parted may fail (the disk is in use); nobody looks.
RebuildGPT(t, ok) ==
  LET made == IF ok THEN [t EXCEPT !.header = Header("new", Blank), !.entries = Blank, !.alt = Blank, !.altGuid = "new"] ELSE t
  IN  [made EXCEPT !.header.guid = "src", !.entries = Source0]

\* Mutant: the header's checksum first.
MutFixCrc(t) ==
  LET h == [t EXCEPT !.header.hcrc = <<t.header.guid, t.header.ecrc>>] IN [h EXCEPT !.header.ecrc = t.entries]
FixCrc(t) ==
  LET e == [t EXCEPT !.header.ecrc = t.entries] IN [e EXCEPT !.header.hcrc = <<e.header.guid, e.header.ecrc>>]

\* parted's Fix takes the header that is good, and rewrites the other.
FixAlternative(t) ==
  IF Valid(t) THEN [t EXCEPT !.alt = t.entries, !.altGuid = t.header.guid]
  ELSE [t EXCEPT !.header = Header(t.altGuid, t.alt), !.entries = t.alt]

-----------------------------------------------------------------------------
(* Behaviours                                                              *)

ConsoleInit ==
  /\ \E parts \in [DiskIds -> 0 .. 4], root \in DiskIds, boot \in BOOLEAN, large \in BOOLEAN, kind \in {"disk", "loop", "sr"}, gpt \in BOOLEAN :
       /\ parts[root] >= 3
       /\ machine = [disks |-> [d \in DiskIds |-> [parts |-> parts[d], large |-> d = root \/ large,
                                                   kind |-> IF d = root THEN "disk" ELSE kind]],
                     root |-> root, boot |-> boot, gpt |-> gpt]
  /\ menu = "main" /\ found = [root |-> None0, devs |-> {}] /\ target = None0 /\ agreed = 0 /\ table = OldTable

ConsoleIdle ==
  /\ machine = [disks |-> [d \in DiskIds |-> [parts |-> 3, large |-> TRUE, kind |-> "disk"]], root |-> 1, boot |-> TRUE, gpt |-> TRUE]
  /\ menu = "quit" /\ found = [root |-> None0, devs |-> {}] /\ target = None0 /\ agreed = 0 /\ table = OldTable

\* promptInstallX86: the list is made once; without a disk the console ends.
SelectInstall ==
  /\ menu = "main"
  /\ found' = FromLSBLK
  /\ menu' = IF FromLSBLK.devs = {} THEN "quit" ELSE "select"
  /\ UNCHANGED <<machine, target, agreed, table>>

SelectDisk ==
  /\ menu = "select"
  /\ \/ \E d \in found.devs : target' = d /\ menu' = "confirm" /\ agreed' = 0
     \/ menu' = "main" /\ UNCHANGED <<target, agreed>>
  /\ UNCHANGED <<machine, found, table>>

\* The two questions: no goes back to the list, the second may quit.
Confirm(answer) ==
  CASE answer = "no" -> "select" [] answer = "quit" -> "main"
    [] answer = "ok" -> IF menu = "confirm" THEN "again" ELSE "dd"

Answer ==
  /\ menu \in {"confirm", "again"}
  /\ \E answer \in {"ok", "no"} \union (IF menu = "again" THEN {"quit"} ELSE {}) :
       /\ menu' = Confirm(answer)
       /\ agreed' = IF answer = "ok" THEN agreed + 1 ELSE 0
  /\ UNCHANGED <<machine, found, target, table>>

\* The disk is unmounted and written; an error ends the console.
CopySystem ==
  /\ menu = "dd"
  /\ \/ menu' = "quit" /\ UNCHANGED table
     \/ menu' = (IF machine.gpt THEN "gpt" ELSE "reboot") /\ table' = WriteReset(Dd(table))
  /\ UNCHANGED <<machine, found, target, agreed>>
RebuildTable ==
  /\ menu = "gpt" /\ menu' = "crc"
  /\ \E ok \in BOOLEAN : table' = RebuildGPT(table, ok)
  /\ UNCHANGED <<machine, found, target, agreed>>
Checksums ==
  /\ menu = "crc" /\ menu' = "alt" /\ table' = FixCrc(table)
  /\ UNCHANGED <<machine, found, target, agreed>>
Alternative ==
  /\ menu = "alt" /\ menu' = "reboot" /\ table' = FixAlternative(table)
  /\ UNCHANGED <<machine, found, target, agreed>>

\* promptReset: firstboot, or not; either way the console ends.
promptReset ==
  /\ menu = "main" /\ menu' \in {"reset", "quit"}
  /\ UNCHANGED <<machine, found, target, agreed, table>>

\* The quit of the menu.
QuitMenu == menu = "main" /\ menu' = "quit" /\ UNCHANGED <<machine, found, target, agreed, table>>

ConsoleNext == SelectInstall \/ SelectDisk \/ Answer \/ CopySystem \/ RebuildTable \/ Checksums
               \/ Alternative \/ promptReset \/ QuitMenu
ConsoleSpec == ConsoleInit /\ [][ConsoleNext]_consoleVars

-----------------------------------------------------------------------------
(* Properties                                                              *)

Writing == menu \in {"dd", "gpt", "crc", "alt", "reboot"}

ConsoleTypeOK ==
  /\ menu \in {"main", "select", "confirm", "again", "dd", "gpt", "crc", "alt", "reboot", "reset", "quit"}
  /\ found.root \in DiskIds \union {None0} /\ found.devs \subseteq DiskIds
  /\ found.devs # {} => machine.disks[found.root].parts >= 3
  /\ target \in DiskIds \union {None0}

\* The disk that runs the system is never written, though it is found by its
\* mount point or by a guess from a device number.
NeverOwnDisk == Writing => target # machine.root

\* A disk is written only after its loss was agreed to twice in a row, since it was
\* chosen, and never one that is too small.
AgreedTwice == Writing => agreed = 2 /\ machine.disks[target].large

\* At the reboot the target has the source's table, with both headers good, whether
\* or not parted could write a table of its own before.
BootableAtReboot ==
  menu = "reboot" =>
    /\ table.entries = Source0 /\ table.header.guid = "src" /\ Valid(table) /\ table.reset
    /\ machine.gpt => table.alt = Source0 /\ table.altGuid = "src"

\* The installation: it never writes the system's own disk, nor any without two consents,
\* and what it has written will start.
ConsoleCorrect == ConsoleTypeOK /\ NeverOwnDisk /\ AgreedTwice /\ BootableAtReboot
=============================================================================
