# A model of rpi-boot

rpi-boot is a boot loader for the Raspberry Pi. It initialises the SD card,
finds file systems on its partitions, runs a configuration file that loads a
kernel and its modules into memory, jumps to the kernel, and stays in the first
MiB of memory to serve the kernel through a table of functions.

The program is single-threaded and takes no interrupts. What interleaves with it is the
outside: a card that is taken out, is slow, or fails a command; a clock that runs on and
wraps; a firmware that answers when it likes; a serial line with a server at its other
end; a memory map it did not choose; and a guest, which calls the function table in any
order. Nothing is recovered from a crash (the loader keeps no state between two starts),
so no module has one.

Line numbers are those of the files under `src/`.

## 1. Inventory

| Part | State | Operations | Talks to |
|---|---|---|---|
| Block layer (`block.c`) | none of its own | `block_read`, `block_write`: loops over blocks | the device below |
| Block cache (`block_cache.c`) | tags, slots in a buffer of `alloc_buf` | `cache_init`, `cache_read`, `cache_write` | SD driver; block layer above |
| SD driver (`emmc.c`) | the device structure: card address, version, switch, error, removal | `sd_card_init`, `sd_read`, `sd_write` with data-mode check and retries | controller, card, timer, mailbox |
| Partitions (`mbr.c`) | start and size of each | `read_mbr`, offset reads and writes | cache; file systems above |
| File streams (`libfs.c`) | position, length and flags of a `FILE` | `fs_fread`, `fs_fwrite`, `register_fs`, `libfs_init` | a file system's block lookup; block layer |
| FAT, ext2, raw (`fat.c`, `ext2.c`, `nofs.c`) | geometry; position in a chain or inode | read directories, open, next block; the raw one also writes | file streams |
| Virtual file system (`vfs.c`) | list of devices, the default one | `fopen` … `fclose`, directories, `vfs_set_default` | file systems; everything above |
| RAM disks (`ramdisk.c`) | address and size | `ramdisk_init`, reads, writes | file streams; the guest |
| Memory chunks (`memchunk.c`) | lists of free and used regions | `chunk_register_free`, `chunk_get_chunk`, `chunk_get_any_chunk` | `mem_cb`; kernel loading |
| Heap (`heap.c`) | `cur_brk`, `cur_buf` | `sbrk`, `alloc_buf` | malloc; the cache |
| Configuration (`config_parse.c`) | the rest of the text | `config_parse`, `split_string` | kernel loading |
| Kernel loading (`multiboot.c`, `elf.c`) | entry and load address, multiboot information, modules | the seven commands | streams, chunks, log, guest |
| Log (`log.c`) | file, buffer, fill | `log_putc`, `log_fflush`, `register_log_file` | streams; output; guest |
| Output (`output.c`) | set of outputs | enable, disable, `split_putc` | serial port, console, log, guest |
| Console (`console.c`), framebuffer (`fb.c`) | cursor; geometry | `console_putc`, `fb_init` | mailbox |
| Timer (`timer.c`, `timer.h`) | none: a `timer_wait` is its caller's | `register_timer`, `compare_timer`, `usleep`, `TIMEOUT_WAIT` | everything that waits |
| Network boot (`raspbootin.c`, `-server.c`) | one request at a time | messages with checksum and retry | serial port |
| Start-up (`main.c`, `boot.s`, `atag.c`, `rpifdt.c`) | where the memory map comes from | `kernel_main`, `find_and_run_config` | all |

What is hard, and what makes each part correct:

* **Block layer and cache.** Requests of one block are served from the cache and
  longer ones are not; writes go through. After any mixture, and any failure of
  the card, a read must deliver what the card holds, and an unfinished write must
  have changed a prefix.
* **SD driver.** A call may find the card sending, programming, standing by,
  idle, exchanged or gone, because an earlier call, a failure or a user left it
  so. Data commands must find it in the transfer state, a removal must stop all
  data until a new initialisation, and good conditions must be enough to recover.
* **Memory.** Addresses wrap at 4 GiB. Chunks must be memory that exists, above
  the first MiB, apart from each other; heap and buffers share a fixed space.
* **Configuration and kernels.** Lines come in any order, any one may fail half
  way, and the globals they set outlive them. What was loaded must stay as it is,
  and what is booted must have been loaded and be described to itself.
* **Log.** The file system prints while the log is being written, files and
  buffers are exchanged with characters pending. Nothing may be lost, doubled,
  reordered or written behind the buffer.
* **Timer.** The clock wraps and is only polled. A wait must last its time, and end.
* **File streams and file systems.** Ranges meet block boundaries, chains end or
  loop, reads fail in the middle. A read must deliver the bytes of the file from
  the position, advance by what it delivered, and terminate.
* **Network boot.** Bytes are lost or damaged, answers come late; an answer must
  belong to its request, and an old or absent server must not stop the start.
* **Start-up.** Three ways to describe a machine, addresses translated bus by bus,
  a card with blocks of any size, a screen of any size, a text of any shape: each
  boundary is one that no two machines share. What is found must be what is there,
  and a failure on the way must not end the start.

`PROJECT.json` lists every part with its status, and the main hazards at their lines,
with the properties that watch it or the reason why none does.

## 2. Modules

| Module | Models | Instances |
|---|---|---|
| `BlockCache` | `block.c`, `block_cache.c`, `cache_init` in front of the card | `MCBlockCache` |
| `BlockStore` | abstract: a device that reads and writes blocks, one at a time, and may stop early | refined by `BlockCache` |
| `BlockCacheProofs` | theorems about `BlockCache`, that it implements `BlockStore`, and about `Memory` | |
| `SdDriver`, `SdClock` | `emmc.c` with card, slot and bus; the clock divider | `MCSdDriver` |
| `SdDriverProofs` | theorems about `SdDriver`, and about `Timer` | |
| `Memory` | `memchunk.c`, `heap.c`, `mem_cb` of `main.c` | `MCMemory` |
| `Multiboot` | `multiboot.c`, `elf.c`, the loop of `config_parse.c` | `MCMultiboot` |
| `MultibootProofs` | theorems about `Multiboot` | |
| `Log` | `log.c`, the log output of `output.c`, `fflush` of `vfs.c` | `MCLog` |
| `LogProofs` | theorems about `Log` | |
| `Timer` | `timer.c`, `TIMEOUT_WAIT` | `MCTimer` |
| `FileStream` | `libfs.c`'s `fs_fread` and `fs_fwrite`, `fread`, `fwrite`, `fseek` of `vfs.c`: an open file and its call | through `Nofs` and `FileSystems` |
| `Nofs` | `nofs.c` over `FileStream`, on a card with a second partition | `MCNofs` |
| `NofsProofs` | theorems about `Nofs` | |
| `Volume` | what `fat.c` and `ext2.c` share: reads that fail, the walk down a path, the open file | through `FileSystems` |
| `Fat`, `Ext2` | `fat.c`; `ext2.c`: geometry, chains or block index, directories | through `FileSystems` |
| `FileSystems` | `register_fs` of `libfs.c`, and a mounted volume with its callers | `MCFileSystems` |
| `FileSystemsProofs` | theorems about `FileSystems`, and with it `Volume`, `Fat` and `Ext2` | |
| `Raspbootin` | `raspbootin.c`, `raspbootin-server.c`, `crc32.c` and the line between them | `MCRaspbootin` |
| `RaspbootinProofs` | theorems about `Raspbootin` | |
| `DeviceTree` | `atag.c`, `rpifdt.c` | through `Startup` |
| `Display` | `mbox.c`, `fb.c`, `console.c` and the firmware behind the mailbox | through `Startup` |
| `Vfs` | devices and paths of `vfs.c` | through `Startup` |
| `ConfigText` | the text of a configuration in `config_parse.c` | through `Startup` |
| `Startup` | `kernel_main`, `libfs_init`, `read_mbr`, `find_and_run_config`, over the four before it | `MCStartup` |
| `StartupProofs` | theorems about `Startup`, and with it `Display`, `Vfs` and `ConfigText` | |

Variables have the names of the globals and structure members they stand for.
A variable marked *history* is not in the program: it remembers what a property
needs. A definition that a comment calls *Mutant* is a wrong version of the
definition that follows it; the specification does not use it, and each checked
property is violated when one of them takes its definition's place.

### BlockCache and BlockStore

A caller has one request at a time. One action is one pass of the loop of
`block_read` or `block_write`: a hit, a miss with eviction, a request handed to
the card whole, a failure. Contents of blocks are model values; memory nobody
filled holds `Junk`, an empty slot the tag `Empty`. The cache has a power of two
of slots (`cache_entries`), block numbers map to slots by the mask.

Two failures make the program leave its model. A failed single-block read is
copied with length (size_t)-1: `overrun` is set, and nothing is required of the
program after that. A failed write makes `cache_write` refill the later slots
from whatever is in memory: coherence is stated up to the first failed write
(`failedWrite`).

`BlockStore` promises that a read delivers the store, that a write changes its
range from the front, and that a call ends as done or failed. The refinement
mapping, in `BlockCache`, forgets tags and slots; up to the first failed write it
is checked and proved.

### SdDriver

One action per command that is issued, because between two of them the card may be taken
out, put in, finish powering up or programming. The card answers as the state diagram of
the SD physical layer says; a command its state does not admit gets no answer. Every
command and the reset may also fail in transmission, at any time, until `FaultsEnd`.
`pc` names the command that is issued next, `caller` who called `sd_card_init`: the
start, the data-mode check of a call, or its second attempt. Registers are reduced to
what is decided by them. The last step of `sd_card_init` writes 0xffffffff to the
interrupt register (`emmc.c:1911`, `ResetInterrupt`), which also clears a removal that
was signalled since ACMD6 began: then no mark of it is left, and what stops the data is
that the card now in the slot has no address and does not answer SEND_STATUS. The power
cycle and the base clock are asked of the firmware, which may refuse: the card is then
as it was or without power, and the base clock is assumed. `SdClock` computes the
divider as the code does; `host` keeps it, and a command that is issued while the SD
clock is off (a re-initialisation stopped after it was switched off) times out. DMA is
compiled out.

### Memory

Addresses are `0 .. Size - 1` and sums wrap, as in the code. The memory map is a
set of regions reported one by one and shortened by `mem_cb`; then chunks, heap
and buffers are asked for in any order. `Wrapping` says whether a caller may ask
for a chunk that passes the last address; runs and theorems take callers that do
not.

### Multiboot

Memory is counted in pages of 1 MiB and page 0 is the loader's; a page holds
page *j* of part *p* of a file, zeros, or nothing. Files have the headers that
the code looks at. The lines of the configuration are picked one by one from a
set, so a run covers every configuration over that set. `kernel`, `module` and
a.out loads are one action each, with their failures; an ELF file is loaded
piece by piece, since a refusal or a short file in the middle leaves entry point,
information and chunks behind. A line that fails ends the configuration, as in
`config_parse`. Names without a device are looked for on the default device,
which a multiboot kernel moves. Left out are the text of lines (see `ConfigText`),
unknown commands, `console_log` (see `Log`), and the framebuffer's and section
table's addresses.

The chunks are those of `Memory` at the granularity of pages, with the property
that module establishes: a chunk lies in one region and overlaps no other.

Files are any that `FileAssumption` admits. Two divergences of section 5 break
the properties for some of them, which `BssIsPlaced` and `EntriesInside` except;
`MCMultiboot` asserts that the run's files are not of that kind.

The memory map handed over is `Reported`: the regions, or nothing, because the default
machine and tags at address 0 have `parse_atag_or_dtb` call nobody back. The run has the
first; the theorem `InfoIsWhole` is about both. A device that fails reads (`MayFail`)
may tear a file: `fs_fread` counts the last block, if it is not a whole one, as read
when it was not, so an image is taken for complete whose last page is `Junk` (`Torn`,
`Delivered`). The headers are read whole or not at all: what the code makes of a header
of junk, in a file smaller than a block, is not in the model.

### Log

Characters are numbered as they are printed, so that order and loss show. A
write to a file is two actions, `BeginWrite` and `EndWrite`, and whatever is
printed between them is a message of the file system. `last_update` is left out:
it is written and never read.

### Timer

The clock is a counter that wraps at `Clock`; a wait polls it with at most
`Delay` ticks between two polls. The caller keeps its `timer_wait`, because
`compare_timer` is given a copy. Waits of any time begin at any value of the clock, and
the properties say what becomes of each: those that are over `AtOnce` (negative ones,
those that begin at clock 0, those whose sum is the size of the clock), those whose
trigger value is `Ahead`, of which those that end too close to the wrap may be missed
(`Seen` are the others), and the rest, wrapping sums and waits of 0, which never time out.

### FileStream and Nofs

A call is begun by one action and goes on in passes, one per turn of the loop of
`fs_fread` or `fs_fwrite`: look up the block, read it, copy a segment or write it
back. `FileStream` has what the loop does with the device's answer, -1 included:
`bytes_read += -1` is in the model. `Nofs` gives it the raw file system: the
search for the end mark on `fopen`, the mark that follows a write that made the
file grow, blocks of a partition whose end the device does not know. The search
that runs past its buffer reads memory that may hold anything (`wild`).

### Volume, Fat, Ext2, FileSystems

A volume says, in the terms of `mkfs`, which files it holds (`truth`, and `root` for the
directory they are in), and on the other hand the fields, tables and entries that the
code reads. A file of `truth` has its path and size, the sectors of its blocks, where
the code finds it (`at`: the clusters of its chain, or the number of its inode), and
which `part` of its directory lists it, a directory being read cluster by cluster or
block by block. A byte of the volume is its address, so that what a read delivers tells
where it came from. The code is followed block by block through boot sector, allocation
table or block index, and directory entries; a device that is not reliable may fail any
read. What the code then does is in the model: a failed read of the allocation table is
a cluster number that is looked up in its turn, a null inode is dereferenced (`wild`), a
list may end in an entry that was freed (`walk.freed`), and so on. Once a read of the
table has failed (`lost`), anything may be delivered: on a card large enough to have a
table entry of that number, which ordinary ones are, the code delivers another file's
data. The failing volumes of `MCFileSystems` are that large, so that this happens in the
run, and `DeliversFile` speaks of a chain that is known (`ChainKnown`).

### Raspbootin

Two programs and two directions of a line. A request is a sequence of bytes, as
the server reads it byte by byte; an answer is a sequence of words. A checksum is
a pair of the kind "crc" and what it was made of: it fits nothing else, which
abstracts from collisions. Bytes and words are lost or damaged up to `MaxFaults`
times, and arrive when they like; a client's read may time out at any point where
nothing has arrived. For a directory the server reads two bytes of length, the name and
the checksum of a request that has no length in it: each read takes what there is, so
together they may take less than the request or bytes of the one behind it. The client is
compiled out by default (`config.h:56` has `#undef ENABLE_RASPBOOTIN`); the module models
the code that the switch adds. The console shares the line and is switched off during a
message (`uart`).

### DeviceTree, Display, Vfs, ConfigText, Startup

`Startup` is `kernel_main`: find the description of the machine, set bases and
memory, initialise the screen, register the card's partitions, search for a
configuration, read its lines. The other four modules are what it calls. Of these
`Display` has variables and actions of its own, because the firmware's answers and
messages of other channels come between; `DeviceTree`, `Vfs` and `ConfigText` are
operators. A machine is a record of what the firmware, the display and the card
are. What a machine is, is said twice, like a volume: as what the code reads, and
as `truth`. Nothing clears the framebuffer (`fb_init` and `console_init` do not, and
nobody calls `clear`), so a pixel that no character was drawn on is `Old`, what it was
before, until a scroll makes it black (`Ground`). A message of another channel that is
taken for the firmware's answer is read as a refusal, since the buffer then still has the
code of the request (`Refused`); `Starts` therefore asks for the screen as well as for the
end, of a machine that has one. Words and lines are checked against `Means`, a description of a
line's meaning that says nothing about how it is taken apart.

## 3. Runs

| Run | Shows | Bounds |
|---|---|---|
| `block_cache` | the cached device implements `BlockStore`; the cache equals the card, reads deliver the card, writes change a prefix | 4 blocks, 2 slots, requests of up to 3 blocks, reads and writes may fail |
| `block_cache_write_error` | finding: one failed write breaks the cache | 3 blocks |
| `sd_driver` | data commands in the transfer state, a noticed removal stops data, the clock fits, recovery | three kinds of card, any number of calls, removals and failures; a base clock of 250 MHz, or 100 MHz assumed |
| `memory` | chunks exist, are apart, are refused only when nothing fits; heap and buffers stay in place | 14 addresses, 4 possible regions, 3 requests |
| `multiboot` | images stay intact, nothing else is written, boot jumps to a loaded kernel with its modules and information | 15 different lines, up to 6 of them, 11 files on two devices, 8 free pages in two regions |
| `log` | nothing lost, doubled or reordered, no write behind the buffer, only the log file grows | buffers of 0, 2 and 3, two files, 5 characters, 4 calls |
| `timer` | a timeout comes in its time, and only to waits that can time out; a wait that can ends | clock of 12, waits of -1 to 5, polls every 2 ticks |
| `raw_file` | reads deliver the file, writes stay in their range, the end stays marked, the neighbour is not touched | 4 blocks of 4 bytes and one of the neighbour, a mark of 2, 4 calls, any transfer may fail |
| `raw_file_search` | finding: the search for the end mark never ends | the same |
| `file_systems` | files and directories are what the volume's maker put there, nothing foreign is delivered by FAT while the table can be read, every call returns | FAT12, FAT16, FAT32 and ext2, each reliable and not, the failing FAT16 and FAT32 on a card of 300000000 sectors, 3 calls |
| `network_boot` | no damaged, torn or late answer is believed, a server is found, the client returns | a directory of up to 2 buffers, one fault, one directory asked for |
| `startup` | memory, devices, screen, partitions, configuration and lines are those of the machine; the start ends | nine machines, texts of up to 6 characters, paths of up to 6 tokens, 7 characters printed (`MaxText`) |

Why the bounds are enough. Four blocks over two slots give each slot two blocks to
exchange, and a request of three blocks passes both slots and returns to the first. The
card's state has no counters but the three retries, so that run is not bounded at all.
Fourteen addresses hold regions that start in, end below and lie above the low memory,
one that ends at the last address, and chunks that touch, nest and wrap. Six lines load
a refused kernel, an accepted one, modules on both sides of it and boot twice. Buffers
of three and two characters with five printed fill, wrap and are exchanged half full. In
the clock of 12 every wait begins at every value, 0 included, so that sums stay below
the wrap, reach it and pass it. A mark of two bytes falls into one block or over the
boundary of two of four bytes, and four calls open, write, seek and write again. The
volumes have files that end within, at and behind a block boundary, one that needs
direct, indirect and doubly indirect blocks, FAT chains that leave and return to an
area, deleted entries, labels and long names, directories of more than one sector. One
fault is enough to lose or damage every byte or word of every exchange in turn, and a
directory of no, one and more buffers is answered with and without a rest. The machines
differ in what describes them (tags, a tree with one and with two levels of buses,
nothing), in the size of the card's blocks, in the screen's size and padding, and in
which of their configurations are there, fail to open, or are on a second partition.

Deadlock is not checked where the program stops for good: after an overrun, when
no card was found, at the end of a configuration; and where only the bounds on
calls, lines, characters and faults end a behaviour (`memory`, `multiboot`, `log`,
`raw_file`, `network_boot`). It is checked in `timer` and `file_systems`.

**Fairness.** In every module it is the one thread of the loader that is fair, and
what it talks to where the code waits without a limit. `SdDriver`: the program runs
(`WF` of its command steps), the guest and the loader go on calling, and a card
that is powering up gets there; `Recovers` is conditional on transmission errors
having ended and a card staying in the slot. `Timer`: the clock ticks and the loop
polls. `Nofs` and `FileSystems`: a call that has begun takes its next step; nobody
has to begin one. `Raspbootin`: the client goes on, where a read that nothing
answers ends by its timeout, and the server handles what has arrived.
`Startup`: `kernel_main` goes on and the firmware answers a request, because
`mbox_read` waits for it without a limit. Nothing is assumed of users, cards, the
line or conditions of the hardware.

A loop of `TIMEOUT_WAIT` is one step of `SdDriver` that succeeds or fails, so the fairness
of that module takes for granted that these waits end. The `timer` run says which do: a
wait whose sum wraps does not, so `Recovers` speaks of commands that begin no wait across
the wrap of the clock (once in 71 minutes).

**What `Recovers` excepts**, because the code cannot leave it: no device after
the start, a freed device, and a high-capacity card whose answer to CMD8 was lost,
for which ACMD41 is repeated for ever.

## 4. Theorems

Every safety property that a run checks is a theorem but one (`MachineKnown`), for
every value of the constants that the module's assumptions admit; a theorem that needs
a hypothesis has it in its statement, and it is named below. Each follows from an
inductive invariant, `IInv` of its module (`MemoryIInv`, `TimerIInv`; those of `Startup`
are in `StartupProofs`); TLC confirms it on the module's run, when it is added to the
INVARIANTS of the `.cfg` (for `Startup`, of a module that extends both `MCStartup` and
`StartupProofs`). Eight modules hold the proofs; those of `Memory` and
of `Timer` are the last parts of `BlockCacheProofs` and of `SdDriverProofs`, with which
they share no variable.

`BlockCacheProofs`, for every number of blocks and slots, every length of
requests, and every choice of what may fail: `TypeCorrect`, `CacheCoherent`,
`ReadsCorrect`, `WritesCorrect`. The inductive invariant `IInv` joins the types,
`TagsInPlace` (a tagged slot is the slot of its block: without it a refill could
leave the same block in two slots), `WriteBufferFilled` (a writer's buffer holds
data), and the three properties themselves: a read is correct because the cache
is coherent, and the cache stays coherent because a write updates exactly the
slots of the blocks it wrote. One lemma per pass of the two loops; filling and
updating slots have lemmas of their own. Assumed: sizes are positive, `Junk` is
no data, `Empty` no block. `CacheImplementsStore`: initial states are initial
states of `BlockStore`, and every pass is one of its steps, or none. A hit is a
step of the store because of coherence.

`SdDriverProofs`, for every set of kinds of card and every number of retries:
`DataModeEnsured`, `RemovalIsFinal`, `ClockNeverTooFast`. `DataCommandInTran` is
inductive together with the types, since the check that precedes a data command leaves
the card selected or ends the call. `RemovalKnown` is what makes a removal final: from
the interrupt to the `memset` of `sd_card_init` one of two marks of it is there, and a
command finds either; or the end of `sd_card_init` has wiped the interrupt, and then a
card that was put in since has not been addressed (`Unaddressed`) and the driver is
where it asks for the status before anything else (`Unsent`). `Clocked` says which of
two rates the divider was made for, at each place of the initialisation. That the
divider is right is arithmetic, and not true of every base clock (`emmc.c:652`, section
5): `ClockNeverTooFast` has the hypothesis `Divides` for both rates, and that ten bits
suffice.

`Memory` (in `BlockCacheProofs`), for every size of memory, pages and alignment, every
memory map and any number of requests, with `~Wrapping`: `MemoryTypeCorrect`, `ChunksAreMemory`,
`ChunksAreDisjoint`, `LowMemoryIsApart`, `SearchComplete`. The invariant speaks of
byte ranges: every free region is the usable part of a reported one
(`UsableIsSound` treats the region that ends in the first MiB, whose length
wraps), every chunk is inside one (`ContainedIsInside`) and does not overlap an
earlier one; that the interval test means disjoint bytes is `NoOverlapIsApart` and
`ApartIsDisjoint`. For the completeness of the search the same lemmas are needed
the other way round: ranges that fail the test share a byte (`OverlapIsTouch`), so
that a page that was refused is taken (`RefusedIsFull`). Assumed is what
`ConstantsAssumption` says: reported memory exists, the loader's image fits, the
top of the buffers is aligned.

`MultibootProofs`, for all files, lines and memories: `TypeCorrect`, `ImagesStay`,
`ChunksOnly`, `ModulesListed`, `KernelBoots`, `InfoIsWhole`. The invariant has three
layers. `ImagesKept`: an image, complete or being loaded, lies in granted pages and
is there; a new chunk is none of them, so whatever is loaded next leaves it.
`ModulesKept`: the list of modules is right at every moment, so it does not matter
when `boot` comes. `EntryComing` and `KernelKept`: an entry point is converted in the
pass that loads its segment, and stays converted to the end of the file, so what
`boot` jumps to is in an image that is loaded, and what it hands over is the
information of that file. The memory map is compared with what the firmware reports, and
the command line with nothing, because the code cuts it (section 5). A file that a failing
device tears is loaded all the same: an image is what was delivered, and the last page of
a module may be `Junk`. The first two assume `BssIsPlaced` and the third
`EntriesInside`; without them the code itself is wrong (`multiboot.c:281, 308, 395`).

`LogProofs`, for buffers of any sizes, any number of files, characters and calls:
`BufferBounded`, `LogIsWhole`, `LogFileAlone`. `Held` accounts for every character
that is owed: it is in a file, in the buffer or on its way to the file. `Ordered`
compares the files with what is to follow them. `Bounded` says who may see a full
buffer: only `log_putc`, which empties it before it is left.

`Timer` (in `SdDriverProofs`), for every width of the clock, every wait and every pause between
two polls, whatever the clock stands at when a wait begins: `TimeoutsInTime`. `Registered`
says what `register_timer` has made of each kind of wait, and `Waiting` where the clock is
while one lasts: until the time of a wait that is `Ahead` has passed the clock has not
wrapped, and it cannot pass the trigger value of one that is `Seen` without a poll.

`NofsProofs`, for blocks, partitions, cards and marks of any size, all calls with
members and offsets of any size, and a card that may fail any transfer:
`FileInvariant`, `FileIsFramed`, `ReadsAreRight`, `WritesInRange`, `AppendsBehind`.
The invariant follows the passes of one call: `Passing` ties the block of the next
pass to the bytes counted (`Reached`), across every block boundary and where the
range wraps; `Reading` and `Writing` tie the bytes counted to the buffer and to the
card; `Stands` says where the position may be, which a failed transfer of a whole
block moves back by one byte; `Marked` says that a mark is behind the file except
while it is being written. The lemmas on a single pass (`PassFacts`, `PassCounted`,
`PassReads`, `PassWrites`, `CardAfterPass`) serve `fread`, `fwrite` and the mark
alike. Two candidates were not inductive: one did not say that the stream stays
open during a call, without which a file may be longer than its blocks, and one did
not say that a mark is behind bytes that begin in the file. `WritesInRange` has the
hypothesis `BlockSize <= NumBlocks`, as the code bounds a file by the size of a
block (`nofs.c:243`). Assumed are the marks to be different and to fit in a block,
and that blocks divide the numbers.

`RaspbootinProofs`, for directories and a buffer of any size, any number of calls
and of faults: `CapabilitiesBelieved`, `AnswerIsOwn`. On a line without faults the
server answers the command that was asked (`OnTheLine`). A request of the first command
is taken whole, so every pair of breaks is the beginning of one, whatever arrives in
pieces; of the requests for a directory the server's reads may leave pieces, and there it
is enough that behind every pair of breaks comes that command and that no break is last
(`Commands`, kept by `CommandsTaken` and `CommandAdded`). `Accepted`:
what a call returns a length of is one answer word for word, because a checksum
fits nothing else, whatever was lost or damaged on the way. `Contacting` follows the
first exchange through its retries: after an error only the error's checksum may be
left on the line, which begins no answer.

`StartupProofs`, for all machines, texts, paths, tables, fonts and screens:
`LinesAreRead`, `PartitionsAreInPlace`, `PathsAreResolved`, `FirstConfigIsRun`,
`ScreenIsRight`. Nothing here is an induction over data: where the code goes through a
text, a path or a list, the operators say what it finds (the first position of a kind,
the k-th end of a component), and the lemmas reason about the least and the greatest
number with a property, which `WFMin` of the library provides (`Least`, `Greatest`).
`LineInv` is `LinesRead` with the type of the text. `FilesInv` says that the registered
devices are those of whole partitions in the order of the table, the default one first.
`PathInv` and `SearchInv` are about what a path was resolved to and about the names
tried: each that was passed over is missing, or among those that could not be read.
`ScreenInv` compares the framebuffer with `rows`, the history of the text as a terminal
of that width would break it (`CursorIs`, `Shows`); a scroll is a shift of all pixels
by a row of glyphs, and that two places of the screen never are one byte of the
framebuffer (`OnePlace`) is arithmetic on quotients and remainders. Assumed is what
`StartupAssumption` says of a machine (four partitions with names of their own, a display
that has room for a character or none, paths without empty components),
`DisplayAssumption`, and `TokensAssumption`, which says of string literals that they are
strings, because the provers are not told.

`FileSystemsProofs`, for volumes, directories and files of any size, block and sector
sizes, paths of any depth and any number of calls with any sizes, counts and offsets:
`FilesAreFound`, `DirectoriesAreListed`, `FilesAreDelivered`, `NothingIsTouched`. Each is
`Spec /\ []Consistent => []P`. `Consistent` is what a volume must be like for its maker to
have put there what `truth` says: paths lead through directories (`PathsLead`), each part
of a directory, when it is read, gives entries of that part's files, all of them and each
once if the device is reliable (`PartsList`); the chains of FAT are linked in the table
and their clusters are where the file's blocks are (`HeldByFat`); inodes have the size
and the block numbers of their file (`HeldByExt2`). Only the volume and its geometry
occur in it, and `Mount` sets both once, so that it says nothing of what a call does.
Without it there is nothing to prove: a volume whose table contradicts its maker has no
right contents. It also keeps out what the code gets wrong on any device (section 5):
a FAT12 chain of more than one cluster, and an ext2 directory one of whose blocks ends in a
special entry (an empty directory is one). Of the size of a device it says nothing, and of
the rest of the table no more than that it holds numbers. TLC confirms it on all volumes
of the run, reliable and not: it passes with `Consistent` added to the INVARIANTS of
`MCFileSystems.cfg`. That is no run of its own, because it checks the volumes of
`MCFileSystems` and not the code.

The invariant `IInv` speaks of the files the volume holds, and not of what the code
reads. `Walks`: a walk is in the directory that the names passed so far lead to
(`WalksIn`), and its list has the files of the parts already read, all of them if the
device is reliable; so a list grows by the files of the next part (`ListGrows`) and,
behind the last part, is the directory (`ListEnds`). The entry that the loop over the
list stops at is the first with the name, which is the file since names are unique
(`FoundEntry`). `Passes` ties the passes of `fs_fread` to the range of the call, as in
`Nofs`. `Chained`: a read has followed the chain to a cluster of the file, or a read of
the table has failed (`lost`) and it may be at any number. `Delivers`: while the chain
is known, what has been counted is in the buffer, byte for byte, or belongs to a segment
whose own read failed. `WalkStays` and `Static` are the frame: what a call leaves alone
keeps its part of the invariant.

The theorems on types (`TypeCorrect`, `MemoryTypeCorrect`) are not repeated by a run: they
are conjuncts of the inductive invariants, and what they say of ranges is implied by the
properties that are.

Only model-checked: `MachineKnown`, which compares addresses translated bus by bus with
what each machine of `MCStartup` is said to be. For every machine it would need a
description of trees that is not the code's own recursion, and induction over the
depth of a tree; on the run's machines it is a computation, which TLC does.
Liveness (`Recovers`, `Returns`, `CallReturns`, `Starts`) is out of the prover's
reach and stays with TLC.

## 5. Divergences

Two runs end in a violation; `findings` in `PROJECT.json` quotes what the code
contradicts. Others were met while modelling and have no run of their own. Where
the model contains them is said in brackets.

Blocks and the card:

* `block_cache.c:198`: a failed single-block read copies 4 GiB [`overrun`].
* `block_cache.c:160`: nothing empties the cache when another card is initialised.
* `emmc.c:652`: a quotient with a remainder is decremented before it is rounded up to a
  power of two, so a base clock just above a power of two (or that plus one) times the
  rate, such as 62.5 MHz for 25 MHz, drives the card too fast, and one between the rate
  and its double gets the slowest divider [`SdClock`; the run's base clocks are not of
  that kind, and `Divides` excepts them]. A base clock the firmware does not tell is
  assumed to be 100 MHz [`BaseClocks`].
* `emmc.c:801`: the waits for the inhibit bits have no timeout.
* `emmc.c:1637`: `failed_voltage_switch` is set just before the `memset` that
  clears it, so 1.8 V is asked for again [`failedSwitch`]; at 1639 the start's
  pointer is not assigned when the second attempt succeeds [`gaveUp18`].
* `emmc.c:1911`: a removal that is signalled while the last command of `sd_card_init` is
  on its way is cleared with the other interrupts; the driver learns of it only because the
  next card does not answer [`ResetInterrupt`].
* `emmc.c:1734`: a failed re-initialisation frees the device that is registered.
* `mbr.c:219`: the end of a partition is not checked; `mbr.c:171`: a misaligned
  partition ends `read_mbr` as failed with the earlier ones registered
  [`Misaligned`].
* `ramdisk.c:46-75`: address and size of a RAM disk are never stored, although
  `MULTIBOOT-ARM:100-107` gives them a meaning.

File systems:

* `nofs.c:168`: the search for the end mark stays in the first block
  [`SearchPass`, run `raw_file_search`]; when its read fails it looks at memory
  nobody filled [`wild`]. A file that is opened without "a" looks empty, and after
  `fseek` an appending write goes where the position is. `nofs.c:243`: a file
  may have as many blocks as a block has bytes, so that a partition with fewer lets
  the neighbour be overrun [`Limit`; excepted by `WritesInRange`].
* `libfs.c:234`: `fs_fread` adds the result of a read to the bytes read only for a whole
  block: a segment of a block whose read failed is counted in full, and the caller gets what
  was in the memory [`BlockReads`; `Torn` in `Multiboot`].
* `libfs.c:321`: `fs_fwrite` loses its buffer when the block cannot be read.
  `vfs.c:389`: `fseek` does not clear the end-of-file flag.
* `fat.c:554`: the root directory's length is rounded down to clusters, and one
  cluster is always read: a small one is read into the data behind it, and the end
  of one that is no multiple of a cluster is missed.
* `fat.c:329`: the next cluster in a FAT12 is always answered as 0: files of more
  than one cluster are wrong, and a subdirectory is read for ever. The run's FAT12
  has a root directory and small files.
* `fat.c:340`: a failed read of the table answers 0x0ffffff7, which is followed as
  a cluster in a file and ends a directory [`Bad`]: the number is looked up in the table,
  where its entry is about 512 MiB (FAT16) or 1 GiB (FAT32) behind the table's beginning. No
  bound of the table or the partition is checked, so an ordinary card has that sector, and
  what stands there leads to another file's data, which is delivered [excepted by
  `ChainKnown`]; a cyclic chain is followed for ever.
  `fat.c:148`: a read of an empty file answers -1 [`FatFreadNothing`].
* `fat.c:207`: a boot sector that begins with the jump 0xe9 is refused.
* `ext2.c:576`: `type_permissions & 0x2000` tests a bit that other types have too.
* `ext2.c:136`: a hole, or an indirect block that cannot be read, is block 0, whose
  contents are delivered [`BlocksOf`]. `ext2.c:492`: a null inode is dereferenced
  [`wild`]; the descriptors are used whether or not they could be read.
* `ext2.c:558`: special entries are freed after they were linked, so that the list
  of a directory whose last entry is a special one ends in freed memory, which
  `fopen` frees again: an empty directory is one, with "." and ".." only [`walk.freed`,
  `EndsFreed`, `FreesAgain`; the directories of the run end in ordinary entries, which
  `DirectoryInExt2` asks for in the theorems].

Kernels, log and timer:

* `memchunk.c:74`: the end of a chunk may wrap, and such a chunk is granted
  although no region has it [`Wrapping`]. `memchunk.c:111`: with memory up to the
  last page the address that is stepped wraps too.
* `multiboot.c:376`: a refused segment returns with the new entry point and
  information set, and success: the next `boot` jumps to a kernel that was not
  loaded [`RefuseSegment`; excepted by `BootsKernel`].
* `multiboot.c:592`: a plain kernel after a multiboot one finds the magic number
  in r0, where the README has "r0 will be 0" [`Boot`].
* `multiboot.c:445`: bit 6, the flag of the memory map, is set for every ELF
  kernel; the section table's own flag never is [`FinishElf`].
* `multiboot.c:866`: `mem_upper` is the end of memory, not the kiB beyond 1 MiB.
* `multiboot.c:452`: the command line ends after the kernel's name, because
  `split_string` has cut the line there, although the README has `multiboot <kernel>
  [cmdline]` [`CommandLine`; no property asks for either].
* `main.c:214`, `atag.c:61`: for the default machine and for tags at address 0 no memory is
  reported, so the map has no entries; its flag, and that of the memory's size, are set all
  the same [`Reported`].
* `multiboot.c:281, 308`: without `load_end_addr` the bss is zeroed from address 0
  [`BssStart`; the run has no such file with a bss, by `BssIsPlaced`].
* `multiboot.c:395`: an entry point that was converted is compared with the virtual
  addresses of later segments, and may be converted twice [`Moved`; the run has no such
  file, by `EntriesInside`]. The `kernel` command converts none, so its ELF files in the
  run are linked where they are loaded.
* `config_parse.c`: a tab does not end a word [`split_string`]. `vfs.c:150`: two
  slashes in the middle of a path make an empty component [`split_dir`].
* `log.c:60`: the flush after five seconds that the header promises never happens.
* `log.c:102`: a flush leaves what it has written in the buffer, so that a guest's
  `fflush`, which the README recommends, has the characters written again when the
  buffer fills [`kept`, excepted by `LogWhole`].
* `timer.c:56, 75`: a wait that begins at clock 0, or whose sum is the size of the clock,
  ends at once [`AtOnce`].
* `timer.c:71`: `compare_timer` notes that the clock has wrapped in its own copy of the
  `timer_wait`, so a wait whose sum wraps never times out, and `usleep(0)` never returns;
  one that ends just below the wrap may be missed between two polls and then lasts for
  another turn [`Returns` and `TimedOutInTime` tell these from the others].

Network boot and start-up:

* `raspbootin.c:286`: the error code is believed before the checksum, so a damaged
  word can be returned as an answer of the server's, which `raspbootin_init` takes
  for a success [`ReadError`, `misread`]. `raspbootin.c:305`: `data_to_discard` is
  always 0, because it is computed after what it is computed from was cut [`Room`].
  `raspbootin.c:458`: `strcmp` is used the wrong way round, so that every directory
  but the root becomes the empty string; no name is preceded by the length the
  server reads, and what is answered is dropped. A lost byte makes the server take
  a request for another one.
* `raspbootin-server.c:489`: the length of the requested name is used as the length
  of each entry's name; at 498 an error is sent and the answer after it; a short
  read leaves what it should have filled as it was. `raspbootin-server.c:399`: the three
  reads of a request for a directory ask for two bytes more than it has, and take those of
  the next one [`ServerReadsDirectory`]. `raspbootin.c:45` has the
  checksum with its most significant byte first, both programs the other way.
* `atag.c:43`, `main.c:191`: tags at address 0 are found and then not read
  [`FindSource`, `Source`].
* `rpifdt.c:69`: of a number of more than one cell the last one is taken, which is
  not the "most significant 4 bytes" of the comment [`Cell`]; `rpifdt.c:220`: the
  parent's address in a bus's range is taken to have as many cells as the bus's
  own [`RangeCells`]; a range that ends at the top of the addresses holds nothing
  [`InRange`]; of the names in "compatible" only the first is looked at
  [`NodesWhere`], and a node without them gives `strstr` a null pointer; no cells
  at all make the loop endless.
* `fb.c:142`, `console.c:69`: nothing clears the framebuffer; what was in it stays
  between and below the characters until it is scrolled away [`Old`].
* `main.c:247`: the screen is used even when `fb_init` fails: it draws from address
  0 [`EnableOutputs`]. `main.c:157`: a failed read of the configuration is not
  noticed [`ReadConfig`].

## 6. Plan

Modelled and checked: the modules above. In this order, next:

1. `MachineKnown` as a theorem, from a description of device trees (buses, ranges and
   the addresses of devices at the root) that is independent of the code's recursion.
2. `CachedCard`: `BlockCache` over `SdDriver`'s exchange of cards, for the cache
   that is not emptied when a card is changed. Nothing holds of it as the code is.
3. RAM disks, once they keep their address and size.

Runs stay few: one per module and question, and a finding has a run only where
no other module shows it.

## 7. Not modelled

RAM disks, because no property holds of an address that is never stored; malloc,
printf and the string functions (vendored, or without state); libdtc (vendored,
taken for a sequence of nodes); the registers of the serial port, which is there
as the line of `Raspbootin`; USB, which is initialised and left; the QEMU loader,
a program of its own; the build. `PROJECT.json` names the files.
