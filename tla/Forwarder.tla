----------------------------- MODULE Forwarder -----------------------------
(***************************************************************************)
(* The forwarder (src/forwarder): a separate program that looks for the    *)
(* application on the SD card and then on the USB partitions, reads it to  *)
(* a fixed address, builds its command line and starts the small loader    *)
(* that is linked into it.                                                 *)
(***************************************************************************)
EXTENDS Naturals, Sequences, FiniteSets, SequencesExt

CONSTANTS
  Cards,         \* SD cards: <<>> for none, or <<files, or "other" unless FAT>>
  Disks,         \* USB disks: <<>> for none, or <<partitions>>, each a record
                 \* [type, sector, fs, files]; a missing one has type 0
  Loaders,       \* loaders: [text, data: sequences of [start, size], entry]
  MAX_CMDLINE,
  Path,          \* [device, folder] -> the characters of the file's path
  Shortcut,      \* the characters of the argument main adds
  LowMemory,     \* sections that start below are skipped ...
  SanityCap      \* ... and sections larger than this

Folders == <<"wiiflow", "wiibrowser">>
USB == <<"usb1", "usb2", "usb3", "usb4">>
Devices == <<"sd">> \o USB

\* The command line has room for the path of the application and the shortcut.
ForwarderAssumption ==
  /\ MAX_CMDLINE \in Nat /\ Shortcut \in Seq(ToSet(Shortcut))
  /\ \A i \in 1..5, k \in 1..2 :
       LET path == Path[[device |-> Devices[i], folder |-> Folders[k]]] IN
       path \in Seq(ToSet(path)) /\ Len(path) + Len(Shortcut) + 3 <= MAX_CMDLINE

VARIABLES
  card, disk, loader,   \* what is plugged in, and the program linked in
  pc,
  mounted,       \* device -> its files
  exeFile,       \* <<>> or <<the device and folder of the file that is open>>
  exeBuffer,     \* <<>> or <<the device and folder of the file read into memory>>
  cmdline,       \* the command line: "nul" ends an argument
  length,        \* args.length
  copied,        \* the loader's sections that are at their place
  argvAt         \* <<>> or <<the address where args was put>>

vars == <<card, disk, loader, pc, mounted, exeFile, exeBuffer, cmdline, length, copied, argvAt>>

\* After SDCard_deInit and USBDevice_deInit.
NothingMounted == [d \in {} |-> {}]

Init ==
  /\ card \in Cards /\ disk \in Disks /\ loader \in Loaders
  /\ pc = "sd" /\ mounted = NothingMounted
  /\ exeFile = <<>> /\ exeBuffer = <<>>
  /\ cmdline = [i \in 1..MAX_CMDLINE |-> "nul"] /\ length = 0
  /\ copied = {} /\ argvAt = <<>>

Plugged == UNCHANGED <<card, disk, loader>>

\* The application of wiiflow's folder before the one of wiibrowser.
open_file(dev, files) ==
  LET found == {k \in 1..2 : dev \in DOMAIN files /\ Folders[k] \in files[dev]} IN
  IF found = {} THEN <<>>
  ELSE <<[device |-> dev, folder |-> Folders[CHOOSE k \in found : \A j \in found : k <= j]]>>

SDCard_Init ==
  IF card # <<>> /\ card[1] # {"other"} THEN [d \in {"sd"} |-> card[1]] ELSE NothingMounted

TryCard ==
  /\ pc = "sd"
  /\ mounted' = SDCard_Init
  /\ exeFile' = open_file("sd", mounted')
  /\ pc' = IF exeFile' = <<>> THEN "usb" ELSE "read"
  /\ Plugged /\ UNCHANGED <<exeBuffer, cmdline, length, copied, argvAt>>

\* A boot sector decides about FAT and NTFS, the type in the partition table
\* about ext.
Mounts(p) ==
  /\ p.type # 0
  /\ \/ p.sector /\ p.fs \in {"FAT", "NTFS"}
     \/ p.type = 131 /\ p.fs = "ext"

\* The card, if there is one, stays mounted.
USBDevice_Init ==
  LET parts == IF disk = <<>> THEN {} ELSE {i \in 1..4 : Mounts(disk[1][i])} IN
  [d \in DOMAIN mounted \cup {USB[i] : i \in parts} |->
     IF d \in DOMAIN mounted THEN mounted[d] ELSE disk[1][CHOOSE i \in parts : USB[i] = d].files]

TryDisk ==
  /\ pc = "usb"
  /\ mounted' = USBDevice_Init
  /\ LET open == {i \in 1..4 : open_file(USB[i], mounted') # <<>>} IN
     exeFile' = IF open = {} THEN <<>> ELSE open_file(USB[CHOOSE i \in open : \A j \in open : i <= j], mounted')
  /\ pc' = IF exeFile' = <<>> THEN "give up" ELSE "read"
  /\ Plugged /\ UNCHANGED <<exeBuffer, cmdline, length, copied, argvAt>>

\* All devices are closed, then the console goes back to its menu.
SYS_ResetSystem ==
  /\ pc = "give up"
  /\ mounted' = NothingMounted
  /\ pc' = "menu"
  /\ Plugged /\ UNCHANGED <<exeFile, exeBuffer, cmdline, length, copied, argvAt>>

\* A device that fails gives fewer bytes than the file has.
ReadFile ==
  /\ pc = "read"
  /\ exeFile' = <<>>
  /\ \/ exeBuffer' = exeFile /\ pc' = "args"
     \/ exeBuffer' = <<>> /\ pc' = "give up"
  /\ Plugged /\ UNCHANGED <<mounted, cmdline, length, copied, argvAt>>

\* An argument goes over the second of the two zeros that end the line; one
\* that does not fit is left out.
Added(line, len, arg) ==
  IF len + Len(arg) + 1 > MAX_CMDLINE THEN [line |-> line, len |-> len]
  ELSE [line |-> [i \in DOMAIN line |->
                    IF i \in len..len + Len(arg) - 1 THEN arg[i - len + 1]
                    ELSE IF i \in {len + Len(arg), len + Len(arg) + 1} THEN "nul" ELSE line[i]],
        len |-> len + Len(arg) + 1]

arg_init == [line |-> [i \in 1..MAX_CMDLINE |-> "nul"], len |-> 1]

Arguments ==
  LET first == Added(arg_init.line, arg_init.len, Path[exeBuffer[1]])
      second == Added(first.line, first.len, Shortcut) IN
  /\ pc = "args"
  /\ cmdline' = second.line /\ length' = second.len
  /\ pc' \in {"load", "give up"}      \* no memory for a copy of the loader
  /\ Plugged /\ UNCHANGED <<mounted, exeFile, exeBuffer, copied, argvAt>>

\* Every section with a size and a start that are allowed is copied.
load_dol_image ==
  {s \in ToSet(loader.text) \cup ToSet(loader.data) :
     s.size # 0 /\ s.start >= LowMemory /\ s.size <= SanityCap}

\* Then args goes eight bytes behind the entry point.
StartLoader ==
  /\ pc = "load"
  /\ copied' = load_dol_image
  /\ argvAt' = <<loader.entry + 8>>
  /\ mounted' = NothingMounted
  /\ pc' = IF loader.entry = 0 THEN "menu" ELSE "running"
  /\ Plugged /\ UNCHANGED <<exeFile, exeBuffer, cmdline, length>>

Next == TryCard \/ TryDisk \/ SYS_ResetSystem \/ ReadFile \/ Arguments \/ StartLoader

Spec == Init /\ [][Next]_vars

-----------------------------------------------------------------------------
\* The applications on the devices that can be mounted, best first.
Usable(k) == IF k = 1 THEN (IF card # <<>> /\ card[1] # {"other"} THEN card[1] ELSE {})
             ELSE IF disk # <<>> /\ Mounts(disk[1][k - 1]) THEN disk[1][k - 1].files ELSE {}
Better(a, b) == a[1] < b[1] \/ (a[1] = b[1] /\ a[2] < b[2])
Applications == {a \in (1..5) \X (1..2) : Folders[a[2]] \in Usable(a[1])}
Best == CHOOSE a \in Applications : \A b \in Applications \ {a} : Better(a, b)

\* The loader runs only with the best application in memory, with that
\* file's path and the shortcut as the two arguments of a line that ends in
\* two zeros, and when it runs or the console is back in its menu no device
\* is mounted and no file is open (forwarder/source/main.c:203-300).
ForwardsTheBest ==
  /\ pc = "running" =>
       /\ Applications # {}
       /\ exeBuffer = <<[device |-> Devices[Best[1]], folder |-> Folders[Best[2]]]>>
       /\ SubSeq(cmdline, 1, length) = Path[exeBuffer[1]] \o <<"nul">> \o Shortcut \o <<"nul", "nul">>
  /\ pc \in {"running", "menu"} => mounted = NothingMounted /\ exeFile = <<>>
  /\ exeFile # <<>> => exeFile[1].device \in DOMAIN mounted
=============================================================================
