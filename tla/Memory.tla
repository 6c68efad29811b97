-------------------------------- MODULE Memory --------------------------------
(***************************************************************************)
(* The memory of the loader: the heap and the static buffers below the     *)
(* first MiB (heap.c), and the chunks above it that kernels, modules and   *)
(* RAM disks are put in (memchunk.c, fed by mem_cb of main.c).             *)
(*                                                                         *)
(* Addresses and lengths are unsigned and wrap at Size.  The list of free  *)
(* regions is only searched, so a set stands for it; the list of used      *)
(* chunks is a sequence, since a chunk handed out twice must show.         *)
(***************************************************************************)
EXTENDS Naturals, Sequences

CONSTANTS
  Size,     \* the number of addresses, 2^32
  Page,     \* 0x1000, the step of chunk_get_any_chunk and of the first brk
  Align,    \* 512, the alignment of the buffers
  Low,      \* 0x100000: MAX_BUF, and the start of the memory for chunks
  ImageEnd, \* _end
  MaxBrk,   \* MAX_BRK
  Regions,  \* the memory the firmware reports (see ConstantsAssumption)
  Wrapping, \* whether a caller may ask for a chunk beyond the last address
  MaxCalls  \* bound: buffers and chunks handed out together

Addresses == 0 .. Size - 1
Chunk == [start : Addresses, length : Addresses]

RoundUp(n, a) == IF n % a = 0 THEN n ELSE n - (n % a) + a

HeapStart == RoundUp(ImageEnd, Page)

\* What the firmware reports is memory that exists; the loader fits below
\* MAX_BRK, and MAX_BUF is aligned.
ASSUME ConstantsAssumption ==
  /\ Size \in Nat /\ Page \in Nat \ {0} /\ Align \in Nat \ {0}
  /\ Low \in Nat \ {0} /\ Low < Size
  /\ ImageEnd \in Nat /\ HeapStart \in Nat \ {0} /\ ImageEnd <= HeapStart
  /\ MaxBrk \in Nat /\ HeapStart < MaxBrk /\ MaxBrk <= Low
  /\ \A n \in 0 .. Low : RoundUp(n, Align) \in n .. Low
  /\ Regions \subseteq Chunk
  /\ \A r \in Regions : r.start + r.length <= Size
  /\ Wrapping \in BOOLEAN
  /\ MaxCalls \in Nat

VARIABLES
  reported, \* history: the regions mem_cb was called with
  free,     \* free_list
  max_free,
  used,     \* the chunks handed out
  cur_brk,
  cur_buf,
  bufs,     \* history: the buffers handed out
  booted,   \* the firmware's report has been read
  last      \* history: the last call for a chunk and its answer

memoryVars == <<reported, free, max_free, used, cur_brk, cur_buf, bufs, booted, last>>

MemoryInit ==
  /\ reported = {} /\ free = {} /\ max_free = 0
  /\ used = <<>> /\ bufs = <<>>
  /\ cur_brk = 0 /\ cur_buf = MaxBrk
  /\ booted = FALSE
  /\ last = [call |-> "none", length |-> 0, got |-> 0]

Plus(a, b) == IF a + b < Size THEN a + b ELSE a + b - Size
Minus(a, b) == IF b <= a THEN a - b ELSE Size + a - b

End(c) == Plus(c.start, c.length)

(***************************************************************************)
(* The free regions.                                                       *)
(***************************************************************************)

\* mem_cb: the first MiB is the loader's.
Usable(r) ==
  IF r.start < Low THEN [start |-> Low, length |-> Minus(r.length, Low)] ELSE r

RegisterFree(c) ==
  /\ free' = free \cup {c}
  /\ max_free' = IF End(c) > max_free THEN End(c) ELSE max_free

MemCb(r) ==
  /\ ~booted
  /\ RegisterFree(Usable(r))
  /\ reported' = reported \cup {r}
  /\ UNCHANGED <<used, cur_brk, cur_buf, bufs, booted, last>>

Boot ==
  /\ ~booted
  /\ booted' = TRUE
  /\ UNCHANGED <<reported, free, max_free, used, cur_brk, cur_buf, bufs, last>>

(***************************************************************************)
(* The chunks.                                                             *)
(***************************************************************************)
\* Mutant: only a chunk that begins inside a used one overlaps it.
OverlapsAtStart(c, d) == c.start >= d.start /\ c.start < End(d)

Overlaps(c, d) == c.start < End(d) /\ End(c) > d.start

\* Mutant: only the end is compared.
EndsWithin(c, d) == End(c) <= End(d)

Contains(c, d) == c.start >= d.start /\ End(c) <= End(d)

CanAllocate(c) ==
  /\ \E f \in free : Contains(c, f)
  /\ \A i \in 1 .. Len(used) : ~Overlaps(c, used[i])

\* The lengths of files, sections and segments; a caller that stays within the
\* address space does not wrap.
Fits(c) == Wrapping \/ c.start + c.length < Size

Grant(call, c) ==
  /\ used' = Append(used, c)
  /\ last' = [call |-> call, length |-> c.length, got |-> c.start]

Refuse(call, length) ==
  /\ last' = [call |-> call, length |-> length, got |-> 0]
  /\ UNCHANGED used

Requesting == booted /\ Len(used) + Len(bufs) < MaxCalls

ChunkFrame == UNCHANGED <<reported, free, max_free, cur_brk, cur_buf, bufs, booted>>

ChunkGetChunk(c) ==
  /\ Requesting /\ Fits(c)
  /\ IF CanAllocate(c) THEN Grant("at", c) ELSE Refuse("at", c.length)
  /\ ChunkFrame

\* Mutant: one page too few is tried.
PagesBeforeLast == {a \in Addresses : a % Page = 0 /\ a + Page < max_free}

\* The addresses chunk_get_any_chunk tries, from 0 upwards.
Pages == {a \in Addresses : a % Page = 0 /\ a < max_free}

ChunkGetAnyChunk(length) ==
  LET At(a) == [start |-> a, length |-> length]
      can == {a \in Pages : CanAllocate(At(a))}
  IN /\ Requesting
     /\ \A a \in Pages : Fits(At(a))
     /\ \/ \E a \in can :
             /\ \A b \in can : a <= b
             /\ Grant("any", At(a))
        \/ can = {} /\ Refuse("any", length)
     /\ ChunkFrame

(***************************************************************************)
(* The heap and the buffers.                                               *)
(***************************************************************************)
HeapFrame == UNCHANGED <<reported, free, max_free, used, booted, last>>

Sbrk(increment) ==
  LET old == IF cur_brk = 0 THEN HeapStart ELSE cur_brk
  IN /\ cur_brk' = IF old + increment >= MaxBrk THEN old ELSE old + increment
     /\ HeapFrame /\ UNCHANGED <<cur_buf, bufs>>

\* Mutant: only the buffers handed out so far are looked at.
RoomBefore(size) == cur_buf < Low

Room(size) == cur_buf + size <= Low

AllocBuf(size) ==
  /\ Len(used) + Len(bufs) < MaxCalls
  /\ Room(size)
  /\ cur_buf' = RoundUp(cur_buf + size, Align)
  /\ bufs' = Append(bufs, [start |-> cur_buf, length |-> size])
  /\ HeapFrame /\ UNCHANGED cur_brk

MemoryNext ==
  \/ \E r \in Regions : MemCb(r)
  \/ Boot
  \/ \E c \in Chunk : ChunkGetChunk(c)
  \/ \E n \in Addresses : ChunkGetAnyChunk(n)
  \/ \E n \in 0 .. Low : Sbrk(n)
  \/ \E n \in 0 .. Low : AllocBuf(n)

MemorySpec == MemoryInit /\ [][MemoryNext]_memoryVars

-------------------------------------------------------------------------------
(***************************************************************************)
(* Properties, stated over the bytes of regions, chunks and buffers.       *)
(***************************************************************************)
Bytes(c) == c.start .. c.start + c.length - 1

\* Every variable has its type.
MemoryTypeOK ==
  /\ reported \subseteq Regions
  /\ free \subseteq Chunk
  /\ max_free \in Addresses
  /\ used \in Seq(Chunk)
  /\ cur_brk \in Nat /\ cur_buf \in Nat
  /\ bufs \in Seq(Chunk)
  /\ Len(used) + Len(bufs) <= MaxCalls
  /\ booted \in BOOLEAN
  /\ last \in [call : {"none", "at", "any"}, length : Addresses, got : Addresses]

\* What chunk_get_chunk and chunk_get_any_chunk hand out is memory the firmware
\* reported, above the first MiB (an empty chunk, too, begins there: the address 0
\* tells the caller that there is none), whatever regions were reported: also one
\* that ends below the first MiB, whose length mem_cb makes wrap.
ChunksInMemory ==
  \A i \in 1 .. Len(used) :
    /\ used[i].start >= Low
    /\ \E r \in reported : Bytes(used[i]) \subseteq Bytes(r)

\* No byte is handed out twice: kernels, modules and RAM disks do not overlap.
ChunksDisjoint ==
  \A i, j \in 1 .. Len(used) :
    i # j => Bytes(used[i]) \cap Bytes(used[j]) = {}

\* The heap stays between the loader's image and the buffers, the buffers are
\* apart from each other and below the first MiB.
LowMemory ==
  /\ cur_brk # 0 => cur_brk \in HeapStart .. MaxBrk - 1
  /\ cur_buf \in MaxBrk .. Low
  /\ \A i \in 1 .. Len(bufs) : Bytes(bufs[i]) \subseteq MaxBrk .. cur_buf - 1
  /\ \A i, j \in 1 .. Len(bufs) :
       i # j => Bytes(bufs[i]) \cap Bytes(bufs[j]) = {}

\* chunk_get_any_chunk refuses only when no page-aligned place is left in any of
\* the free regions (its search ends at max_free, which is kept apart from the
\* list, and its test works on wrapping ends).  An empty chunk keeps its place, too.
RefusedOnlyWhenFull ==
  last.call = "any" /\ last.got = 0 /\ last.length > 0 =>
    \A a \in Low .. Size - 1, f \in free :
      LET place == a .. a + last.length - 1
      IN a % Page = 0 /\ f.start + f.length < Size /\ place \subseteq Bytes(f) =>
           \E i \in 1 .. Len(used) :
             used[i].start \in place \/ place \cap Bytes(used[i]) # {}

-------------------------------------------------------------------------------
(***************************************************************************)
(* The inductive invariant, in terms of bounds.                            *)
(***************************************************************************)
\* c lies within d, both taken without wrapping.
Inside(c, d) == d.start <= c.start /\ c.start + c.length <= d.start + d.length

Apart(c, d) ==
  c.start + c.length <= d.start \/ d.start + d.length <= c.start

\* A free region is part of a reported one, or its end has wrapped below the
\* first MiB, where it contains no chunk at all.
FreeSound ==
  \A f \in free :
    /\ f.start >= Low
    /\ \/ End(f) < Low
       \/ f.start + f.length < Size /\ \E r \in reported : Inside(f, r)

UsedSound ==
  \A i \in 1 .. Len(used) :
    /\ used[i].start >= Low
    /\ used[i].start + used[i].length < Size
    /\ \E r \in reported : Inside(used[i], r)

UsedApart ==
  \A i, j \in 1 .. Len(used) : i # j => Apart(used[i], used[j])

BufsSound ==
  /\ cur_buf \in MaxBrk .. Low
  /\ \A i \in 1 .. Len(bufs) :
       /\ MaxBrk <= bufs[i].start
       /\ bufs[i].start + bufs[i].length <= cur_buf
  /\ \A i, j \in 1 .. Len(bufs) : i # j => Apart(bufs[i], bufs[j])

HeapSound == cur_brk \in Nat /\ (cur_brk # 0 => cur_brk \in HeapStart .. MaxBrk - 1)

MemoryIInv ==
  /\ MemoryTypeOK
  /\ FreeSound /\ UsedSound /\ UsedApart
  /\ BufsSound /\ HeapSound

===============================================================================
