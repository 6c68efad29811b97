------------------------------- MODULE Multiboot -------------------------------
(***************************************************************************)
(* The configuration file and what it loads: config_parse.c runs its lines *)
(* one by one, and multiboot.c and elf.c load kernels and modules into the *)
(* chunks of memchunk.c, fill in the multiboot information and jump.       *)
(*                                                                         *)
(* Memory is counted in pages of 1 MiB, page 0 being the loader's.  A page *)
(* of memory holds a page of a file; memchunk.c in full is in Memory.  The *)
(* devices and their files are given; which lines a configuration has is   *)
(* chosen as they are run.                                                 *)
(***************************************************************************)
EXTENDS Naturals, Sequences

CONSTANTS
  Last,     \* the last page of memory
  Regions,  \* the memory there is for chunks: a sequence of [first, last]
  Reported, \* the memory the firmware reports (see FileAssumption)
  Devices,  \* the devices with a file system
  First,    \* the default device at the start
  Names,    \* the names of files
  Files,    \* from some <<device, name>> to a file (see FileAssumption)
  Lines,    \* the lines a configuration may have
  MayFail,  \* whether devices may fail and files be shorter than their headers say
  MaxLines  \* bound: lines run

Memory == 0 .. Last
Pages(at, n) == {p \in at .. at + n : p < at + n}

\* A segment or a section of an ELF file: pages of the file, then pages of zeros.
PiecesOf(kind) ==
  [kind : {kind}, part : STRING, virt : Nat, phys : Nat, pages : Nat, bss : Nat]

\* What a file is: the multiboot header it has ("none", "aout", "elf"), the
\* kind its first bytes show ("flat", "elf", "linux"), whether the header asks
\* for memory information, and its length; an a.out header has the addresses of
\* the image, an ELF file its segments and the sections that are not ALLOC.
\* The default machine (conf_source 0) has 512 MiB for chunks, but nobody reports
\* them.
ASSUME FileAssumption ==
  /\ Reported \in {Regions, <<>>}
  /\ Last \in Nat /\ First \in Devices /\ MayFail \in BOOLEAN /\ MaxLines \in Nat
  /\ \A i \in 1 .. Len(Regions) : Regions[i].first \in Memory /\ Regions[i].last \in Memory
  /\ DOMAIN Files \subseteq Devices \X Names
  /\ \A k \in DOMAIN Files :
       /\ Files[k].header \in {"none", "aout", "elf"}
       /\ Files[k].kind \in {"flat", "elf", "linux"}
       /\ Files[k].memory \in BOOLEAN
       /\ Files[k].pages \in Nat \ {0}
       /\ Files[k].load \in Nat /\ Files[k].bss \in Nat /\ Files[k].entry \in Nat
       /\ Files[k].toEnd \in BOOLEAN
       /\ Files[k].segments \in Seq(PiecesOf("segment"))
       /\ Files[k].sections \in Seq(PiecesOf("section"))
  /\ \A l \in Lines :
       /\ l.cmd \in {"multiboot", "kernel", "module", "boot", "entry_addr", "binary_load_addr"}
       /\ l.page \in Nat

VARIABLES
  pc,               \* "lines", "loading", "running", "stopped" or "finished"
  lines,            \* the number of lines run
  mem,              \* what every page holds
  used,             \* the pages of the chunks given out
  entry_addr,       \* 0 when there is none
  binary_load_addr,
  mbinfo,
  mods,             \* the list first_mod
  default,          \* the device of names without one
  job,              \* the ELF file being loaded and what is left of it
  loaded,           \* history: the images loaded completely
  origin,           \* history: what set entry_addr
  r0                \* history: what the kernel found in r0

config == <<pc, lines, default>>
memory == <<mem, used>>
kernel == <<entry_addr, binary_load_addr, mbinfo, mods>>
history == <<loaded, origin, r0>>
vars == <<config, memory, kernel, job, history>>

NoInfo == [flags |-> {}]
NoJob == [how |-> "none"]
Loader == <<"loader">>
Free == <<"free">>
Zero == <<"zero">>
Junk == <<"junk">>

Untouched == [p \in Memory |-> IF p = 0 THEN Loader ELSE Free]

Init ==
  /\ pc = "lines" /\ lines = 0 /\ default = First
  /\ mem = Untouched /\ used = {}
  /\ entry_addr = 0 /\ binary_load_addr = 0 /\ mbinfo = NoInfo /\ mods = <<>>
  /\ job = NoJob
  /\ loaded = {} /\ origin = "none" /\ r0 = "none"

(***************************************************************************)
(* Chunks and memory.                                                      *)
(***************************************************************************)
Region(i) == Regions[i].first .. Regions[i].last

\* mem_cb of main.c keeps page 0 for the loader.
Available == {Region(i) \ {0} : i \in 1 .. Len(Regions)}

CanAllocate(pages) ==
  /\ \E region \in Available : pages \subseteq region
  /\ pages \cap used = {}

\* Where chunk_get_any_chunk finds n pages; 0 when it does not.
AnyChunk(n) ==
  LET can == {p \in Memory : CanAllocate(Pages(p, n))}
  IN IF can = {} THEN 0 ELSE CHOOSE p \in can : \A q \in can : p <= q

\* fread into memory, or memset.
Write(m, at, content) ==
  [p \in Memory |-> IF p \in Pages(at, Len(content)) THEN content[p - at + 1] ELSE m[p]]

\* fread counts the bytes of the file's last block as read, if it is not a whole
\* block, when the device could not read it: a read that is torn like this leaves
\* what was in malloc's memory in the last page.
Torn == IF MayFail THEN BOOLEAN ELSE {FALSE}

\* Page j of n of a part of a file.
Delivered(k, part, j, n, torn) == IF torn /\ j = n THEN Junk ELSE <<k, part, j>>

Data(k, part, n, torn) == [j \in 1 .. n |-> Delivered(k, part, j, n, torn)]
Zeros(n) == [j \in 1 .. n |-> Zero]

\* elf32_load_segment and elf32_load_section.
Load(m, k, piece, at, torn) ==
  Write(Write(m, at, Data(k, piece.part, piece.pages, torn)),
        at + piece.pages, Zeros(piece.bss))

\* What the pages of a piece hold once it is loaded.
Declared(k, piece, at, torn) ==
  [p \in Pages(at, piece.pages + piece.bss) |->
     IF p < at + piece.pages THEN Delivered(k, piece.part, p - at + 1, piece.pages, torn)
                             ELSE Zero]

WholeFile(k) == [part |-> "file", pages |-> Files[k].pages, bss |-> 0]

(***************************************************************************)
(* Lines: config_parse runs one after the other until one fails.           *)
(***************************************************************************)
Running(line, cmd) == pc = "lines" /\ lines < MaxLines /\ line.cmd = cmd

\* The device a name is looked for on, and the file found there.
On(line) == <<IF line.device = "" THEN default ELSE line.device, line.name>>
Exists(line) == On(line) \in DOMAIN Files

NextLine == pc' = "lines" /\ lines' = lines + 1

\* A method that returns anything but 0 ends the configuration.
Stop == pc' = "stopped" /\ lines' = lines + 1

FinishConfig ==
  /\ pc = "lines"
  /\ pc' = "finished"
  /\ UNCHANGED <<lines, default, memory, kernel, job, history>>

\* A method cannot open its file, or reads less of it than it needs before it
\* has changed anything; an argument that is not a number.
LineFails(line) ==
  /\ pc = "lines" /\ lines < MaxLines
  /\ \/ line.cmd \in {"multiboot", "kernel", "module"} /\ (MayFail \/ ~Exists(line))
     \/ line.cmd \in {"entry_addr", "binary_load_addr"} /\ MayFail
  /\ Stop
  /\ UNCHANGED <<default, memory, kernel, job, history>>

(***************************************************************************)
(* The multiboot command.                                                  *)
(***************************************************************************)

\* A structure full of zeros, with the memory map if it is asked for: what
\* parse_atag_or_dtb reports, which is nothing on the default machine.
NewInfo(k) ==
  [flags |-> IF Files[k].memory THEN {0, 6} ELSE {},
   mmap |-> IF Files[k].memory THEN Reported ELSE <<>>,
   cmdline |-> "", boot_device |-> "", mods |-> <<>>]

\* split_string cuts the options off the file name in place, and it is the file
\* name's pointer that is passed on.
CommandLine(line) == line.name

\* The bits of flags for the device, the command line, the loader and the screen.
Told == {1, 2, 9, 11}

Described(info, k, line) ==
  [info EXCEPT !.cmdline = CommandLine(line), !.boot_device = k[1],
               !.flags = info.flags \cup Told]

\* The kernel is loaded: describe it, and look for names without a device on
\* the kernel's from now on.
FinishMultiboot(info, k, line, image) ==
  /\ mbinfo' = Described(info, k, line)
  /\ default' = k[1]
  /\ loaded' = loaded \cup {[file |-> k, how |-> "multiboot", image |-> image]}
  /\ origin' = "multiboot"
  /\ NextLine

NotMultiboot(line) ==
  /\ Running(line, "multiboot") /\ Exists(line)
  /\ Files[On(line)].header = "none"
  /\ Stop
  /\ UNCHANGED <<default, memory, kernel, job, history>>

\* An a.out header without load_end_addr loads the file to its end, and its bss
\* then has the length bss_end_addr - 0 and the address 0.
BssStart(f) == IF f.toEnd THEN 0 ELSE f.load + f.pages
BssLen(f) == IF f.toEnd /\ f.bss > 0 THEN f.load + f.pages + f.bss ELSE f.bss

\* Mutant: the chunk has no room for the bss.
AoutChunkOfFile(f) == Pages(f.load, f.pages)

AoutChunk(f) == Pages(f.load, f.pages + BssLen(f))

AoutDeclared(k, torn) ==
  Declared(k, [part |-> "file", pages |-> Files[k].pages, bss |-> Files[k].bss], Files[k].load,
           torn)

\* Below 1 MiB, no chunk, or the file is too short: entry_addr is set by then
\* in the last two cases.
AoutFails(line, k) ==
  /\ \/ Files[k].load = 0 /\ UNCHANGED <<used, entry_addr, origin>>
     \/ /\ Files[k].load > 0
        /\ entry_addr' = Files[k].entry /\ origin' = "loading"
        /\ \/ ~CanAllocate(AoutChunk(Files[k])) /\ UNCHANGED used
           \/ /\ CanAllocate(AoutChunk(Files[k])) /\ MayFail
              /\ used' = used \cup AoutChunk(Files[k])
  /\ mbinfo' = NewInfo(k)
  /\ Stop
  /\ UNCHANGED <<default, mem, binary_load_addr, mods, job, loaded, r0>>

AoutLoads(line, k, torn) ==
  LET f == Files[k]
  IN /\ f.load > 0 /\ CanAllocate(AoutChunk(f))
     /\ used' = used \cup AoutChunk(f)
     /\ mem' = Write(Write(mem, f.load, Data(k, "file", f.pages, torn)),
                     BssStart(f), Zeros(BssLen(f)))
     /\ entry_addr' = f.entry
     /\ FinishMultiboot(NewInfo(k), k, line, AoutDeclared(k, torn))
     /\ UNCHANGED <<binary_load_addr, mods, job, r0>>

Aout(line) ==
  /\ Running(line, "multiboot") /\ Exists(line)
  /\ Files[On(line)].header = "aout"
  /\ AoutFails(line, On(line)) \/ \E torn \in Torn : AoutLoads(line, On(line), torn)

\* What a multiboot ELF file has loaded, in order.
Pieces(k) == Files[k].segments \o Files[k].sections

StartJob(how, line, todo) ==
  /\ job' = [how |-> how, line |-> line, file |-> On(line), todo |-> todo, image |-> <<>>]
  /\ pc' = "loading"

\* The header asks for an ELF load and the file is one with a section table, or
\* it is not.
MultibootElf(line) ==
  LET k == On(line)
  IN /\ Running(line, "multiboot") /\ Exists(line) /\ Files[k].header = "elf"
     /\ mbinfo' = NewInfo(k)
     /\ \/ /\ Files[k].kind = "elf"
           /\ entry_addr' = Files[k].entry /\ origin' = "loading"
           /\ StartJob("multiboot", line, Pieces(k))
           /\ UNCHANGED lines
        \/ /\ Files[k].kind # "elf" \/ MayFail
           /\ Stop /\ UNCHANGED <<entry_addr, origin, job>>
     /\ UNCHANGED <<default, memory, binary_load_addr, mods, loaded, r0>>

(***************************************************************************)
(* Loading an ELF file, piece by piece.                                    *)
(***************************************************************************)
Piece == Head(job.todo)
Loading(part) == pc = "loading" /\ job.todo # <<>> /\ Piece.kind = part
Need(piece, at) == Pages(at, piece.pages + piece.bss)

\* Mutant: the entry point stays a virtual address.
Unmoved(entry, s) == entry

\* An entry point inside a segment, from its virtual to its physical address.
Physical(entry, s) == s.phys + (entry - s.virt)
Moved(entry, s) == IF entry \in Need(s, s.virt) THEN Physical(entry, s) ELSE entry

PlacePiece(at, torn) ==
  /\ used' = used \cup Need(Piece, at)
  /\ mem' = Load(mem, job.file, Piece, at, torn)
  /\ job' = [job EXCEPT !.todo = Tail(@),
       !.image = LET d == Declared(job.file, Piece, at, torn)
                 IN [p \in DOMAIN d \cup DOMAIN @ |-> IF p \in DOMAIN d THEN d[p] ELSE @[p]]]

\* The file ends inside the piece: the chunk stays allocated.
PieceIsShort(at) ==
  /\ MayFail
  /\ used' = used \cup Need(Piece, at)
  /\ Stop
  /\ UNCHANGED <<default, mem, entry_addr, binary_load_addr, mbinfo, mods, job, history>>

\* The return value of the refusal is still that of reading the headers, ELF_OK.
RefuseSegment ==
  /\ Loading("segment") /\ ~CanAllocate(Need(Piece, Piece.phys))
  /\ job' = NoJob
  /\ NextLine
  /\ UNCHANGED <<default, memory, kernel, loaded, origin, r0>>

\* Only a multiboot kernel's entry point is converted.
LoadSegment ==
  /\ Loading("segment") /\ CanAllocate(Need(Piece, Piece.phys))
  /\ \/ /\ \E torn \in Torn : PlacePiece(Piece.phys, torn)
        /\ entry_addr' = IF job.how = "multiboot" THEN Moved(entry_addr, Piece) ELSE entry_addr
        /\ UNCHANGED <<pc, lines, default, binary_load_addr, mbinfo, mods, history>>
     \/ PieceIsShort(Piece.phys)

LoadSection ==
  LET at == AnyChunk(Piece.pages + Piece.bss)
  IN /\ Loading("section")
     /\ \/ /\ at > 0
           /\ \E torn \in Torn : PlacePiece(at, torn)
           /\ UNCHANGED <<pc, lines, default, kernel, history>>
        \/ at > 0 /\ PieceIsShort(at)
        \/ at = 0 /\ Stop /\ UNCHANGED <<default, memory, kernel, job, history>>

FinishElf ==
  /\ pc = "loading" /\ job.todo = <<>>
  /\ job' = NoJob
  /\ \/ /\ job.how = "multiboot"
        /\ FinishMultiboot([mbinfo EXCEPT !.flags = @ \cup {6}], job.file, job.line, job.image)
        /\ UNCHANGED entry_addr
     \/ /\ job.how = "kernel"
        /\ entry_addr' = Files[job.file].entry /\ origin' = "kernel"
        /\ loaded' = loaded \cup {[file |-> job.file, how |-> "kernel", image |-> job.image]}
        /\ NextLine
        /\ UNCHANGED <<default, mbinfo>>
  /\ UNCHANGED <<memory, binary_load_addr, mods, r0>>

(***************************************************************************)
(* The kernel and module commands.                                         *)
(***************************************************************************)
KernelElf(line) ==
  /\ Running(line, "kernel") /\ Exists(line)
  /\ Files[On(line)].kind = "elf"
  /\ StartJob("kernel", line, Files[On(line)].segments)
  /\ UNCHANGED <<lines, default, memory, kernel, history>>

KernelLinux(line) ==
  /\ Running(line, "kernel") /\ Exists(line)
  /\ Files[On(line)].kind = "linux"
  /\ Stop
  /\ UNCHANGED <<default, memory, kernel, job, history>>

\* A file that is read whole into a chunk.
PlaceFile(k, how, at, torn) ==
  /\ used' = used \cup Pages(at, Files[k].pages)
  /\ mem' = Write(mem, at, Data(k, "file", Files[k].pages, torn))
  /\ loaded' = loaded \cup {[file |-> k, how |-> how, 
                             image |-> Declared(k, WholeFile(k), at, torn)]}

\* Fewer bytes come than the file has: it ends early, or a whole block of it could
\* not be read.
FileIsShort(k, at) ==
  /\ MayFail
  /\ used' = used \cup Pages(at, Files[k].pages)
  /\ Stop
  /\ UNCHANGED <<default, mem, mods, loaded>>

\* Mutant: a load address that was set is taken as it is.
LoadAddressUnchecked(n) == IF binary_load_addr > 0 THEN binary_load_addr ELSE AnyChunk(n)

\* Where a flat binary goes; 0 when there is no room.
LoadAddress(n) ==
  IF binary_load_addr = 0 THEN AnyChunk(n)
  ELSE IF CanAllocate(Pages(binary_load_addr, n)) THEN binary_load_addr
  ELSE 0

KernelFlat(line) ==
  LET k == On(line)
      at == LoadAddress(Files[k].pages)
  IN /\ Running(line, "kernel") /\ Exists(line) /\ Files[k].kind = "flat"
     /\ binary_load_addr' = IF binary_load_addr = 0 THEN at ELSE binary_load_addr
     /\ \/ /\ at > 0 /\ (\E torn \in Torn : PlaceFile(k, "kernel", at, torn)) /\ NextLine
           /\ entry_addr' = IF entry_addr = 0 THEN at ELSE entry_addr
           /\ origin' = IF entry_addr = 0 THEN "kernel" ELSE origin
           /\ UNCHANGED <<default, mods>>
        \/ /\ at > 0 /\ FileIsShort(k, at) /\ UNCHANGED <<entry_addr, origin>>
        \/ at = 0 /\ Stop /\ UNCHANGED <<default, memory, entry_addr, mods, loaded, origin>>
     /\ UNCHANGED <<mbinfo, job, r0>>

ModuleAt(k, at) == [file |-> k, start |-> at, end |-> at + Files[k].pages]

Module(line) ==
  LET k == On(line)
      at == AnyChunk(Files[k].pages)
  IN /\ Running(line, "module") /\ Exists(line)
     /\ \/ /\ at > 0 /\ (\E torn \in Torn : PlaceFile(k, "module", at, torn)) /\ NextLine
           /\ mods' = <<ModuleAt(k, at)>> \o mods
           /\ UNCHANGED default
        \/ at > 0 /\ FileIsShort(k, at)
        \/ at = 0 /\ Stop /\ UNCHANGED <<default, memory, mods, loaded>>
     /\ UNCHANGED <<entry_addr, binary_load_addr, mbinfo, job, origin, r0>>

(***************************************************************************)
(* The remaining commands, and the kernel.                                 *)
(***************************************************************************)
EntryAddr(line) ==
  /\ Running(line, "entry_addr")
  /\ entry_addr' = line.page
  /\ origin' = IF line.page = 0 THEN "none" ELSE "user"
  /\ NextLine
  /\ UNCHANGED <<default, memory, binary_load_addr, mbinfo, mods, job, loaded, r0>>

BinaryLoadAddr(line) ==
  /\ Running(line, "binary_load_addr")
  /\ binary_load_addr' = line.page
  /\ NextLine
  /\ UNCHANGED <<default, memory, entry_addr, mbinfo, mods, job, history>>

NoKernel(line) ==
  /\ Running(line, "boot") /\ entry_addr = 0
  /\ Stop
  /\ UNCHANGED <<default, memory, kernel, job, history>>

\* Mutant: the newest module is left out.
AllButFirst(info) == [info EXCEPT !.mods = IF mods = <<>> THEN <<>> ELSE Tail(mods), !.flags = @ \cup {3}]

WithModules(info) ==
  [info EXCEPT !.mods = mods, !.flags = info.flags \cup IF mods = <<>> THEN {} ELSE {3}]

Boot(line) ==
  /\ Running(line, "boot") /\ entry_addr > 0
  /\ \/ mbinfo # NoInfo /\ mbinfo' = WithModules(mbinfo) /\ r0' = "magic"
     \/ mbinfo = NoInfo /\ r0' = "zero" /\ UNCHANGED mbinfo
  /\ pc' = "running"
  /\ UNCHANGED <<lines, default, memory, entry_addr, binary_load_addr, mods, job,
                 loaded, origin>>

\* A kernel that returns, having kept what is in memory.
KernelReturns ==
  /\ pc = "running"
  /\ NextLine
  /\ UNCHANGED <<default, memory, kernel, job, history>>

RunLine(line) ==
  \/ LineFails(line) \/ NotMultiboot(line) \/ Aout(line) \/ MultibootElf(line)
  \/ KernelElf(line) \/ KernelLinux(line) \/ KernelFlat(line) \/ Module(line)
  \/ EntryAddr(line) \/ BinaryLoadAddr(line) \/ NoKernel(line) \/ Boot(line)

Next ==
  \/ \E line \in Lines : RunLine(line)
  \/ RefuseSegment \/ LoadSegment \/ LoadSection \/ FinishElf
  \/ KernelReturns \/ FinishConfig

Spec == Init /\ [][Next]_vars

(***************************************************************************)
(* Properties.                                                             *)
(***************************************************************************)

\* An image that was loaded completely is in memory as its file describes it, but
\* for what the device never delivered, whatever is loaded after it
\* (multiboot.c:267-308, 370-380, 417-431, 549-560, 666-683; libfs.c:234-253).
ImagesIntact ==
  \A l \in loaded : \A p \in DOMAIN l.image : mem[p] = l.image[p]

\* The loader writes the chunks it allocated and no other memory: neither its
\* own first MiB nor a page that was not reported (multiboot.c:288-308).
OnlyOwnChunks == \A p \in Memory \ used : mem[p] = Untouched[p]

\* A list of every module that was loaded, each once, with the pages its file is in.
\* The last page may be junk.
Extent(m) == m.start .. m.end - 1
Lists(list) ==
  /\ {Extent(list[i]) : i \in DOMAIN list}
       = {DOMAIN l.image : l \in {x \in loaded : x.how = "module"}}
  /\ \A i, j \in DOMAIN list :
       i # j => list[i].end <= list[j].start \/ list[j].end <= list[i].start
  /\ \A i \in DOMAIN list : \A p \in Extent(list[i]) :
       \/ mem[p] = <<list[i].file, "file", p - list[i].start + 1>>
       \/ p + 1 = list[i].end /\ mem[p] = Junk

\* A multiboot kernel is handed the list of its modules, and told whether there
\* is one (multiboot.c:503-532, 594).
ListsModules ==
  pc = "running" /\ r0 = "magic" =>
    Lists(mbinfo.mods) /\ (3 \in mbinfo.flags <=> mbinfo.mods # <<>>)

\* The segment of an ELF file that its entry point is in.
EntrySegment(f) ==
  CHOOSE i \in DOMAIN f.segments : f.entry \in Need(f.segments[i], f.segments[i].virt)

\* Where the entry point of an image is in memory, by its file.
EntryOf(l) ==
  LET f == Files[l.file]
  IN IF l.how = "multiboot" /\ f.header = "aout" THEN f.entry
     ELSE IF f.kind = "elf" THEN Physical(f.entry, f.segments[EntrySegment(f)])
     ELSE CHOOSE p \in DOMAIN l.image : \A q \in DOMAIN l.image : p <= q

\* The image that the kernel's entry point is of.
Entered(l) == l.how = origin /\ entry_addr = EntryOf(l)

\* Unless the configuration gave an address itself or a kernel was refused, boot
\* jumps to the entry point of a kernel that is completely in memory
\* (multiboot.c:285, 342, 395-399, 690-692, 747).
BootsKernel ==
  pc = "running" /\ origin \in {"multiboot", "kernel"} =>
    \E l \in loaded : Entered(l) /\ mem[entry_addr] = l.image[entry_addr]

Describes(info, l) ==
  /\ info.boot_device = l.file[1]
  /\ {1, 2, 9, 11} \subseteq info.flags
  /\ Files[l.file].memory => info.mmap = Reported /\ {0, 6} \subseteq info.flags

\* What the information says of the kernel is said of the one that is booted, and
\* it has the memory map that kernel asks for, as far as the firmware reports one
\* (multiboot.c:241, 452-477).
DescribesKernel ==
  pc = "running" /\ origin = "multiboot" =>
    \E l \in loaded : Entered(l) /\ Describes(mbinfo, l)

\* Boot hands a multiboot kernel an information that is its own and whole: of no
\* other kernel that an earlier line loaded, and with the modules of the lines
\* before and after (multiboot.c:482-532, 592-600).
InfoHandedOver == DescribesKernel /\ ListsModules

(***************************************************************************)
(* What the properties need of the files, and the inductive invariant that *)
(* they follow from.                                                       *)
(***************************************************************************)

\* A header without load_end_addr gives no bss.
BssIsPlaced == \A k \in DOMAIN Files : Files[k].toEnd => Files[k].bss = 0

\* The ELF files that a kernel line may name.
PlainElf ==
  {k \in DOMAIN Files : Files[k].kind = "elf" /\ \E line \in Lines :
     line.cmd = "kernel" /\ line.name = k[2] /\ (line.device = "" \/ line.device = k[1])}
MultibootElfs == {k \in DOMAIN Files : Files[k].header = "elf" /\ Files[k].kind = "elf"}

\* The entry point is an address in one segment, and what it is converted to is
\* in the virtual range of no later one; the kernel command converts none.
EntriesInside ==
  \A k \in DOMAIN Files :
    LET f == Files[k]
        e == EntrySegment(f)
    IN /\ f.header = "aout" => f.entry \in Pages(f.load, f.pages + f.bss)
       /\ k \in PlainElf \cup MultibootElfs =>
            /\ e \in DOMAIN f.segments
            /\ \A j \in DOMAIN f.segments :
                 f.entry \in Need(f.segments[j], f.segments[j].virt) <=> j = e
       /\ k \in PlainElf => f.segments[e].virt = f.segments[e].phys
       /\ k \in MultibootElfs => \A j \in DOMAIN f.segments : j > e =>
            Physical(f.entry, f.segments[e]) \notin Need(f.segments[j], f.segments[j].virt)

\* The pieces of the file being loaded, and how many of them are in memory.
Whole(j) == IF j.how = "multiboot" THEN Pieces(j.file) ELSE Files[j.file].segments
Placed(j) == Len(Whole(j)) - Len(j.todo)

InfoOK == mbinfo = NoInfo \/
  mbinfo = [flags |-> mbinfo.flags, mmap |-> mbinfo.mmap, cmdline |-> mbinfo.cmdline,
            boot_device |-> mbinfo.boot_device, mods |-> mbinfo.mods]

JobOK ==
  /\ job = [how |-> job.how, line |-> job.line, file |-> job.file, todo |-> job.todo,
            image |-> job.image]
  /\ \/ job.how = "multiboot" /\ job.file \in MultibootElfs
     \/ job.how = "kernel" /\ job.file \in PlainElf
  /\ job.line.name = job.file[2]
  /\ job.todo \in Seq(PiecesOf("segment") \cup PiecesOf("section"))
  /\ Placed(job) \in 0 .. Len(Whole(job))
  /\ \A i \in DOMAIN job.todo : job.todo[i] = Whole(job)[Placed(job) + i]

\* It is the information of the file being loaded that is being filled in.
InfoComing ==
  job.how = "multiboot" => origin = "loading" /\ mbinfo = NewInfo(job.file)

TypeOK ==
  /\ pc \in {"lines", "loading", "running", "stopped", "finished"} /\ lines \in Nat
  /\ default \in Devices
  /\ mem = [p \in Memory |-> mem[p]] /\ used \subseteq Memory \ {0}
  /\ entry_addr \in Nat /\ binary_load_addr \in Nat
  /\ InfoOK /\ mods \in Seq([file : DOMAIN Files, start : Nat, end : Nat])
  /\ pc = "loading" => JobOK /\ InfoComing

\* An image is in chunks of its own, and it is there.
InMemory(image) ==
  /\ image = [p \in DOMAIN image |-> image[p]] /\ DOMAIN image \subseteq used
  /\ \A p \in DOMAIN image : mem[p] = image[p]

ImagesKept ==
  /\ \A l \in loaded : InMemory(l.image)
  /\ pc = "loading" => InMemory(job.image)
  /\ OnlyOwnChunks

\* The list of modules is right at any time, not only when it is handed over.
ModulesKept ==
  /\ Lists(mods)
  /\ \A i \in DOMAIN mods : mods[i].start < mods[i].end /\ Extent(mods[i]) \subseteq used
  /\ mbinfo # NoInfo /\ 3 \in mbinfo.flags => mods # <<>>
  /\ pc = "running" /\ r0 = "magic" =>
       mbinfo.mods = mods /\ (3 \in mbinfo.flags <=> mods # <<>>)

\* The entry point of the file being loaded is converted once its segment is in
\* memory.
EntryComing ==
  pc = "loading" =>
    LET f == Files[job.file]
        s == f.segments[EntrySegment(f)]
        there == Placed(job) >= EntrySegment(f)
    IN /\ there => Need(s, s.phys) \subseteq DOMAIN job.image
       /\ job.how = "multiboot" =>
            entry_addr = IF there THEN Physical(f.entry, s) ELSE f.entry

\* The kernel that is entered is loaded, and described unless a line failed.
KernelKept ==
  origin \in {"multiboot", "kernel"} =>
    \E l \in loaded : /\ Entered(l) /\ entry_addr \in DOMAIN l.image
                      /\ origin = "multiboot" /\ pc # "stopped" => Describes(mbinfo, l)

IInv == TypeOK /\ ImagesKept /\ ModulesKept /\ EntryComing /\ KernelKept
================================================================================
