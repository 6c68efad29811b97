-------------------------------- MODULE Startup --------------------------------
(***************************************************************************)
(* kernel_main of main.c: where the machine is described, the screen, the  *)
(* card with its partitions (libfs.c, mbr.c), and the search for a         *)
(* configuration, whose lines are read.                                    *)
(*                                                                         *)
(* A machine is what the firmware, the display and the card are, what its  *)
(* configurations say and what its guests open.  The file                  *)
(* system of a partition is reduced to its kind and the files it holds;    *)
(* FileSystems has the rest, Multiboot what the lines do.                  *)
(***************************************************************************)
EXTENDS DeviceTree, Display, Vfs, ConfigText

CONSTANTS
  Machines,     \* machines by name
  OldBase,      \* the base of every device in the first models
  BASE_ADJUST,  \* how much higher it is in the second
  AllMemory,    \* 512 MiB
  MaxText       \* bound: characters printed on the screen

\* A card that is there has a table of four partitions, each with a name of its
\* own; a display, if it has any pixels, has room for a character; and what stands
\* between the slashes of a path is one name.
ASSUME StartupAssumption ==
  /\ \A m \in DOMAIN Machines :
       LET card == Machines[m].card
           display == Machines[m].display
       IN  /\ card.blockSize \in Nat
           /\ card.present =>
                \A i \in 1 .. 4 :
                  /\ card.table[i].start \in Nat /\ card.table[i].length \in Nat
                  /\ card.names[i] \in STRING \ (Punctuation \cup {Nameless})
                  /\ \A j \in 1 .. 4 : card.names[i] = card.names[j] => i = j
           /\ {display.width, display.height, display.padding} \subseteq Nat
           /\ display.width = 0 \/ display.width >= CHAR_W
           /\ display.height = 0 \/ display.height >= CHAR_H
           /\ Machines[m].texts \subseteq Seq(STRING)
           /\ \A path \in Machines[m].paths : IsPath(path)
  /\ WIDTH >= CHAR_W /\ HEIGHT >= CHAR_H

VARIABLES
  machine, pc, conf_source,
  regions,      \* what mem_cb was given
  sr,           \* the ranges of the tree's buses
  bases, base_adjust,
  uart_bases,   \* where uart_init found its devices
  outputs,      \* ostate
  part,         \* the partition read_mbr is at
  entries, def, \* of vfs.c
  tries,        \* how many names find_and_run_config has tried
  missed,       \* history: configurations there are, on devices that failed
  config,       \* the one that was opened
  file,         \* history: the text of it
  buf,          \* what is still to be read of that
  line,         \* history: the line read last, and what was made of it
  opened        \* history: what a guest's path was taken for

described == <<machine, conf_source, regions, sr, bases, base_adjust, uart_bases>>
files == <<part, entries, def>>
search == <<tries, missed, config>>
reading == <<file, buf, line, opened>>
vars == <<pc, described, displayVars, outputs, files, search, reading>>

M == Machines[machine]
None == <<>>
NoLine == [text |-> <<>>, method |-> <<>>, args |-> <<>>]

Init ==
  /\ machine \in DOMAIN Machines /\ pc = "source" /\ conf_source = 0
  /\ regions = <<>> /\ sr = <<>> /\ bases = OldBase /\ base_adjust = 0 /\ uart_bases = <<>>
  /\ outputs = {"uart"} /\ DisplayInit
  /\ part = 1 /\ entries = <<>> /\ def = NoDevice
  /\ tries = 0 /\ missed = {} /\ config = None
  /\ file = <<>> /\ buf = <<>> /\ line = NoLine /\ opened = None

(***************************************************************************)
(* The description of the machine.                                         *)
(***************************************************************************)

\* A tree or tags are where the firmware says, or at address 0.
Source ==
  CASE M.tree = "told" -> 3 [] M.tree = "zero" -> 4
    [] M.tree = "none" /\ M.tags = "told" -> 1 [] M.tree = "none" /\ M.tags = "zero" -> 2
    [] OTHER -> 0

FindSource ==
  /\ pc = "source" /\ conf_source' = Source
  /\ pc' = IF Source \in {3, 4} THEN "ranges" ELSE "describe"
  /\ UNCHANGED <<machine, regions, sr, bases, base_adjust, uart_bases, displayVars, outputs, files, search, reading>>

LoadRanges ==
  /\ pc = "ranges" /\ sr' = load_ranges(M.nodes) /\ pc' = "describe"
  /\ UNCHANGED <<machine, conf_source, regions, bases, base_adjust, uart_bases, displayVars, outputs, files, search, reading>>

AdjustOf(type) == IF type = 3139 THEN BASE_ADJUST ELSE 0

UartAt(b, adjust) == [d \in {"pl011", "bcm2835-gpio", "bcm2835-system-timer"} |-> b[d] + adjust]

Described(newRegions, newBases, adjust, source) ==
  /\ pc = "describe" /\ conf_source \in source /\ pc' = "screen"
  /\ regions' = newRegions /\ bases' = newBases /\ base_adjust' = adjust
  /\ uart_bases' = UartAt(newBases, adjust)
  /\ UNCHANGED <<machine, conf_source, sr, displayVars, outputs, files, search, reading>>

\* Tags at address 0 are found, and then not read.
ReadTags ==
  Described(IF conf_source = 1 THEN TagRegions(M.tagList) ELSE <<>>, bases, AdjustOf(M.type), {1, 2})

ReadTree ==
  Described(TreeRegions(M.nodes, sr), [d \in Devices |-> Base(M.nodes, sr, d, bases[d])], 0, {3, 4})

AssumeMachine == Described(<<<<0, AllMemory>>>>, bases, BASE_ADJUST, {0})

(***************************************************************************)
(* The screen and the outputs.                                             *)
(***************************************************************************)
SetUpScreen ==
  /\ pc = "screen" /\ exchange \notin {"done", "failed"}
  /\ fb_init(M.display) \/ ((M.display.refuses \/ asked) /\ Refused)
  /\ UNCHANGED <<pc, described, outputs, files, search, reading>>

\* Output to the screen is enabled whatever fb_init said.
EnableOutputs ==
  /\ pc = "screen" /\ exchange \in {"done", "failed"}
  /\ pc' = "print" /\ outputs' = outputs \cup {"fb", "log"}
  /\ UNCHANGED <<described, displayVars, files, search, reading>>

split_putc(c) ==
  /\ pc = "print" /\ M.prints /\ printed < MaxText
  /\ "fb" \in outputs /\ console_putc(c)
  /\ UNCHANGED <<pc, described, outputs, files, search, reading>>

Firmware ==
  /\ FirmwareAnswers \/ OtherChannel
  /\ UNCHANGED <<pc, described, outputs, files, search, reading>>

(***************************************************************************)
(* libfs_init: the card, by way of the cache, and its partitions.          *)
(***************************************************************************)
Rests == <<described, displayVars, outputs, search, reading>>

libfs_init ==
  /\ pc = "print" /\ pc' = (IF M.card.present THEN "mbr" ELSE "search")
  /\ UNCHANGED <<Rests, files>>

\* The first block is read, and its signature and the size of blocks are right.
ReadMbr ==
  /\ pc = "mbr"
  /\ \/ /\ M.card.signature /\ M.card.blockSize >= 512 /\ M.card.blockSize % 512 = 0
        /\ pc' = "partitions"
     \/ /\ ~M.card.signature \/ M.card.blockSize < 512 \/ M.card.blockSize % 512 # 0
        /\ pc' = "search"
     \/ ~M.card.reliable /\ pc' = "search"
  /\ UNCHANGED <<Rests, files>>

Sectors == M.card.blockSize \div 512
Slot == M.card.table[part]

\* Which file system an identifier stands for.
KindOf(id) ==
  CASE id \in {1, 4, 6, 11, 12, 14, 17, 20, 27, 28, 30} -> "fat"
    [] id = 131 -> "ext2" [] id = 218 -> "nofs" [] OTHER -> "none"

\* Mutant: the start stays in sectors.
EntryInSectors(start, blocks) ==
  [name |-> M.card.names[part], slot |-> part, start_block |-> start, blocks |-> blocks \div Sectors]

Entry(start, blocks) ==
  [name |-> M.card.names[part], slot |-> part, start_block |-> start \div Sectors,
   blocks |-> blocks \div Sectors]

\* Mutant: every new device becomes the default.
DefaultLatest(e) == e

\* The first device stays the default.
Default(e) == IF def = NoDevice THEN e ELSE def

NextSlot == part' = part + 1 /\ pc' = IF part = 4 THEN "search" ELSE "partitions"

Registers ==
  LET e == Entry(Slot.start, Slot.length)
  IN  entries' = Append(entries, e) /\ def' = Default(e)

\* A partition of an identifier that is not 0 whose start and length are whole blocks.
Aligned == Slot.start % Sectors = 0 /\ Slot.length % Sectors = 0

EmptySlot ==
  /\ pc = "partitions" /\ Slot.id = 0
  /\ NextSlot /\ UNCHANGED <<Rests, entries, def>>

\* read_mbr fails, and leaves the partitions in front of it registered.
Misaligned ==
  /\ pc = "partitions" /\ Slot.id # 0 /\ ~Aligned
  /\ pc' = "search" /\ UNCHANGED <<Rests, files>>

\* register_fs: the file system is found where the identifier says so.
RegisterPartition ==
  /\ pc = "partitions" /\ Slot.id # 0 /\ Aligned
  /\ \/ KindOf(Slot.id) = Slot.kind /\ Slot.kind # "none" /\ Registers
     \/ /\ KindOf(Slot.id) # Slot.kind \/ Slot.kind = "none" \/ ~M.card.reliable
        /\ UNCHANGED <<entries, def>>
  /\ NextSlot /\ UNCHANGED Rests

(***************************************************************************)
(* find_and_run_config.                                                    *)
(***************************************************************************)
boot_cfg_names ==
  <<<<"/", "boot", "/", "rpi_boot.cfg">>, <<"/", "boot", "/", "rpi-boot.cfg">>,
    <<"/", "boot", "/", "grub", "/", "grub.cfg">>>>

\* The tokens of these names are strings, as every literal is; the provers are not told.
ASSUME TokensAssumption ==
  Punctuation \cup {"boot", "grub", "rpi_boot.cfg", "rpi-boot.cfg", "grub.cfg"} \subseteq STRING

\* The names on the default device, and then on every one.
Tries == Len(boot_cfg_names) * (1 + Len(entries))

Tried(k) ==
  LET name == boot_cfg_names[(k % Len(boot_cfg_names)) + 1]
      device == k \div Len(boot_cfg_names)
  IN  IF device = 0 THEN name ELSE <<"(", entries[device].name, ")">> \o name

Holds(ve, parts) == ve # NoDevice /\ parts \in M.card.table[ve.slot].files

\* The file a path names, if there is one.
On(path) == split_dir(path, entries, def)

TryName ==
  /\ pc = "search" /\ tries < Tries
  /\ \E path \in {Tried(tries)} : \E at \in {On(path)} :
         \/ /\ Holds(at.ve, at.parts)
            /\ config' = at /\ pc' = "read" /\ UNCHANGED <<tries, missed>>
         \/ /\ ~Holds(at.ve, at.parts) \/ ~M.card.reliable
            /\ missed' = IF Holds(at.ve, at.parts) THEN missed \cup {<<at.ve.slot, at.parts>>} ELSE missed
            /\ tries' = tries + 1 /\ UNCHANGED <<config, pc>>
  /\ UNCHANGED <<described, displayVars, outputs, files, reading>>

NoConfig ==
  /\ pc = "search" /\ tries = Tries /\ pc' = "done"
  /\ UNCHANGED <<described, displayVars, outputs, files, search, reading>>

\* A failed read is not noticed, and what is read as lines may be anything.
ReadConfig ==
  /\ pc = "read" /\ pc' = "lines"
  /\ \E t \in M.texts : file' = t /\ buf' = t
  /\ UNCHANGED <<described, displayVars, outputs, files, search, line, opened>>

\* config_parse: a method and its arguments. What the method does is in Multiboot.
ReadLine ==
  /\ pc = "lines" /\ buf # <<>>
  /\ buf' = Behind(buf)
  /\ \E whole \in {read_line(buf)} : \E begun \in {Unindented(whole)} :
     \E shown \in {Uncommented(begun)} : \E words \in {Trimmed(shown)} :
       line' = [text |-> whole, method |-> split_string(words).method, args |-> split_string(words).args]
  /\ UNCHANGED <<pc, described, displayVars, outputs, files, search, file, opened>>

EndConfig ==
  /\ pc = "lines" /\ buf = <<>> /\ pc' = "done"
  /\ UNCHANGED <<described, displayVars, outputs, files, search, reading>>

\* A guest opens a path of its own.
GuestOpens ==
  /\ pc = "done" /\ entries # <<>> /\ opened = None
  /\ \E path \in M.paths : opened' = <<path, On(path)>>
  /\ UNCHANGED <<pc, described, displayVars, outputs, files, search, file, buf, line>>

kernel_main ==
  \/ FindSource \/ LoadRanges \/ ReadTags \/ ReadTree \/ AssumeMachine
  \/ SetUpScreen \/ EnableOutputs \/ libfs_init \/ ReadMbr
  \/ EmptySlot \/ Misaligned \/ RegisterPartition
  \/ TryName \/ NoConfig \/ ReadConfig \/ ReadLine \/ EndConfig

Next == kernel_main \/ Firmware \/ (\E c \in Chars \cup {Newline} : split_putc(c)) \/ GuestOpens

Spec == Init /\ [][Next]_vars

\* kernel_main is never left waiting by its own code, and the firmware answers.
FairSpec == Spec /\ WF_vars(kernel_main) /\ WF_vars(FirmwareAnswers /\ Firmware)

(***************************************************************************)
(* Properties.                                                             *)
(***************************************************************************)
IsDescribed == pc \notin {"source", "ranges", "describe"}

\* The chunk allocator is given the memory the machine has, each region once and
\* at its own address (atag.c:40-59, rpifdt.c:41-123). Tags at address 0 are the
\* exception the code makes.
MemoryReported ==
  IsDescribed /\ conf_source # 2 => regions = M.truth.regions

\* Every device is where the machine has it, through the buses above it, and was
\* there when uart_init first used it (rpifdt.c:126-282, 369-384, main.c:194-220).
BasesReached ==
  IsDescribed =>
    /\ \A d \in Devices : bases[d] + base_adjust = M.truth.bases[d]
    /\ uart_bases = UartAt(M.truth.bases, 0)

\* What is believed of the machine is true of it.
MachineKnown == MemoryReported /\ BasesReached

\* A device begins and ends at the bytes the table says, whatever the size of the
\* card's blocks (mbr.c:167-188).
PartitionsInPlace ==
  \A i \in DOMAIN entries :
    LET e == entries[i]
        slot == M.card.table[e.slot]
    IN  /\ e.start_block * M.card.blockSize = slot.start * 512
        /\ e.blocks * M.card.blockSize = slot.length * 512

Configs ==
  {c \in (DOMAIN entries) \X (DOMAIN boot_cfg_names) :
     LET at == Named(boot_cfg_names[c[2]], entries, entries[c[1]]) IN Holds(at.ve, at.parts)}

Key(c) == <<entries[c[1]].slot, Named(boot_cfg_names[c[2]], entries, def).parts>>

Earlier(c, d) == c[1] < d[1] \/ (c[1] = d[1] /\ c[2] < d[2])

\* The configuration that is run is the first name on the first partition that has
\* one, and one that is passed over could not be read (main.c:87-161).
FirstConfigRuns ==
  /\ config # None =>
       \E c \in Configs :
         /\ Key(c) = <<config.ve.slot, config.parts>>
         /\ \A d \in Configs : Earlier(d, c) => Key(d) \in missed
  /\ pc = "done" /\ config = None => \A c \in Configs : Key(c) \in missed

\* Every line is taken apart as its author meant it: comments, white space and the
\* spaces between words are in none of its parts (config_parse.c:28-127).
LinesRead == Means(line.text, line.method, line.args)

\* A path leads to the device and the directories it names (vfs.c:98-185).
PathsResolve ==
  opened # None /\ ProperPath(opened[1]) =>
    LET meant == Named(opened[1], entries, def)
    IN  IF meant.ve = NoDevice THEN opened[2].ve = NoDevice ELSE opened[2] = meant

\* The firmware grants a screen: it reports a size, or leaves both sides open.
HasScreen == ~M.display.refuses /\ (M.display.width = 0 <=> M.display.height = 0)

\* The loader gets to the end of its configuration, whatever fails on the way, and
\* with its screen, whatever comes through the mailbox between a request and its
\* answer (main.c:163-270, mbox.c:35-47, fb.c:87-182).
Starts == <>(pc = "done" /\ (HasScreen => exchange = "done"))
================================================================================
