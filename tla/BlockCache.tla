------------------------------ MODULE BlockCache ------------------------------
(***************************************************************************)
(* The block layer (block.c) over the direct-mapped, write-through block   *)
(* cache (block_cache.c) over the SD card's driver.                        *)
(*                                                                         *)
(* A caller (a file-system driver, or read_mbr) holds one call at a time.  *)
(* block_read hands a request of more than one block to the device in one  *)
(* go when the device takes such requests, and otherwise, like             *)
(* block_write, loops over the blocks.  Each pass of the loop is one       *)
(* action, because each pass may find the card failing.  Every caller      *)
(* passes a whole number of blocks, so sizes are counted in blocks.        *)
(***************************************************************************)
EXTENDS Integers

CONSTANTS
  NumBlocks,     \* blocks of the card
  CacheEntries,  \* slots of the cache (see cache_entries)
  MaxCount,      \* the longest request of a caller, in blocks
  Data,          \* what a block may hold
  Junk,          \* what memory nobody filled holds
  Empty,         \* the tag of an empty slot, 0xffffffff in the code
  MayFail,       \* the card's operations that may fail: "read", "write"
  MultiRead      \* supports_multiple_block_read

Block  == 0 .. NumBlocks - 1
Slot   == 0 .. CacheEntries - 1
BufIdx == 0 .. MaxCount - 1
Memory == Data \cup {Junk}

ASSUME SizesAssumption ==
  /\ NumBlocks \in Nat \ {0}
  /\ CacheEntries \in Nat \ {0}
  /\ MaxCount \in Nat \ {0}
ASSUME ValuesAssumption ==
  /\ Junk \notin Data
  /\ Empty \notin Block
  /\ MayFail \subseteq {"read", "write"}
  /\ MultiRead \in BOOLEAN

VARIABLES
  cached,      \* whether libfs_init put a cache in front of the card
  disk,        \* the card: block -> contents
  tag,         \* cached_blocks: slot -> block held, or Empty
  line,        \* the memory at cache_start: slot -> contents
  call,        \* the caller's current or last request
  buf,         \* the caller's buffer
  overrun,     \* a copy of (size_t)-1 bytes has overwritten memory
  failedWrite, \* history: the card has failed a write
  before       \* history: the card when the current request was made

vars == <<cached, disk, tag, line, call, buf, overrun, failedWrite, before>>

(***************************************************************************)
(* cache_init: the number of slots is the number of blocks that fit,       *)
(* rounded down to a power of two so that a mask selects the slot.         *)
(***************************************************************************)
lg2[n \in Nat] == IF n <= 1 THEN 0 ELSE 1 + lg2[n \div 2]

cache_entries(blocks) == IF blocks = 0 THEN 0 ELSE 2 ^ lg2[blocks]

cache_idx(b) == b % CacheEntries

Init ==
  /\ cached \in BOOLEAN
  /\ disk \in [Block -> Data]
  /\ tag = [i \in Slot |-> Empty]
  /\ line = [i \in Slot |-> Junk]
  /\ call = [op |-> "none", start |-> 0, count |-> 0, done |-> 0,
             status |-> "idle"]
  /\ buf = [i \in BufIdx |-> Junk]
  /\ overrun = FALSE
  /\ failedWrite = FALSE
  /\ before = disk

(***************************************************************************)
(* The caller.                                                             *)
(***************************************************************************)
Busy(op) == ~overrun /\ call.status = "busy" /\ call.op = op

Request(op, start, count) ==
  /\ ~overrun
  /\ call.status # "busy"
  /\ start + count <= NumBlocks
  /\ call' = [op |-> op, start |-> start, count |-> count, done |-> 0,
              status |-> "busy"]
  /\ before' = disk
  /\ UNCHANGED <<cached, disk, tag, line, overrun, failedWrite>>

RequestRead ==
  /\ \E start \in Block, count \in 1 .. MaxCount : Request("read", start, count)
  /\ buf' = [i \in BufIdx |-> Junk]

RequestWrite ==
  \E start \in Block, count \in 1 .. MaxCount :
    /\ Request("write", start, count)
    /\ \E data \in [0 .. count - 1 -> Data] :
         buf' = [i \in BufIdx |-> IF i < count THEN data[i] ELSE Junk]

(***************************************************************************)
(* The end of one pass of the do loops of block_read and block_write, and  *)
(* their early return when the device reports an error (MAX_TRIES is 1).   *)
(***************************************************************************)
PassDone ==
  call' = [call EXCEPT !.done = @ + 1,
                       !.status = IF call.done + 1 = call.count THEN "ok"
                                                                ELSE "busy"]

PassFailed == call' = [call EXCEPT !.status = "error"]

\* Mutant: block_offset is left out of the block's number.
CurrentIgnoresOffset == call.start

Current == call.start + call.done

(***************************************************************************)
(* block_read.                                                             *)
(***************************************************************************)
WholeRequest == MultiRead /\ call.count > 1

\* The request goes to the card in one piece; cache_read lets it through
\* and neither looks at nor fills a slot.  A failing card may have
\* transferred some of the blocks.
ReadMulti ==
  /\ Busy("read") /\ WholeRequest
  /\ \/ /\ call' = [call EXCEPT !.done = call.count, !.status = "ok"]
        /\ buf' = [i \in BufIdx |-> IF i < call.count THEN disk[call.start + i]
                                                      ELSE buf[i]]
     \/ /\ "read" \in MayFail
        /\ PassFailed
        /\ \E k \in 0 .. call.count - 1 :
             buf' = [i \in BufIdx |-> IF i < k THEN disk[call.start + i]
                                               ELSE buf[i]]
  /\ UNCHANGED <<cached, disk, tag, line, overrun, failedWrite, before>>

ReadPass == Busy("read") /\ ~WholeRequest

\* Mutant: any occupied slot counts as a hit.
HitAnyTag(i) == tag[i] # Empty

Hit(i) == tag[i] = Current

\* cache_read of a block that is in its slot.
CacheReadHit ==
  LET i == cache_idx(Current) IN
  /\ ReadPass /\ cached
  /\ Hit(i)
  /\ buf' = [buf EXCEPT ![call.done] = line[i]]
  /\ PassDone
  /\ UNCHANGED <<cached, disk, tag, line, overrun, failedWrite, before>>

Fill(i) ==
  /\ line' = [line EXCEPT ![i] = disk[Current]]
  /\ tag' = [tag EXCEPT ![i] = Current]

\* cache_read of a block that is not: the card fills the slot's memory.
CacheReadMiss ==
  LET i == cache_idx(Current) IN
  /\ ReadPass /\ cached
  /\ ~Hit(i)
  /\ Fill(i)
  /\ buf' = [buf EXCEPT ![call.done] = line'[i]]
  /\ PassDone
  /\ UNCHANGED <<cached, disk, overrun, failedWrite, before>>

\* The same when the card fails.  The slot is emptied, but its -1 becomes the
\* length of the copy to the caller: 4 GiB of memory are overwritten, and
\* nothing after that is the program's doing.
CacheReadMissFails ==
  LET i == cache_idx(Current) IN
  /\ ReadPass /\ cached
  /\ ~Hit(i)
  /\ "read" \in MayFail
  /\ tag' = [tag EXCEPT ![i] = Empty]
  /\ \E part \in {line[i], disk[Current], Junk} :
       line' = [line EXCEPT ![i] = part]
  /\ overrun' = TRUE
  /\ PassFailed
  /\ UNCHANGED <<cached, disk, buf, failedWrite, before>>

\* The device is the card itself when libfs_init could not set a cache up.
RawRead ==
  /\ ReadPass /\ ~cached
  /\ \/ /\ buf' = [buf EXCEPT ![call.done] = disk[Current]]
        /\ PassDone
     \/ /\ "read" \in MayFail
        /\ PassFailed
        /\ UNCHANGED buf
  /\ UNCHANGED <<cached, disk, tag, line, overrun, failedWrite, before>>

(***************************************************************************)
(* block_write.                                                            *)
(***************************************************************************)

\* cache_write looks each of its blocks up in the one slot the block may be in.
Updates(i, blocks) ==
  /\ tag[i] # Empty
  /\ cache_idx(tag[i]) = i
  /\ tag[i] - Current \in 0 .. blocks - 1

\* Mutant: every slot is updated from the start of the buffer.
UpdateLinesFirst(blocks) ==
  line' = [i \in Slot |-> IF Updates(i, blocks) THEN buf[0] ELSE line[i]]

\* Mutant: the slots are not updated.
UpdateNoLine(blocks) == UNCHANGED line

\* cache_write's loop over as many blocks from Current: the cached ones are copied
\* from the caller's buffer, or from whatever follows the buffer in memory.
UpdateLines(blocks) ==
  line' = [i \in Slot |->
    LET k == call.done + (tag[i] - Current) IN
    IF ~Updates(i, blocks) THEN line[i]
    ELSE IF k < call.count THEN buf[k] ELSE Junk]

\* The parent's -1, stored in the unsigned buf_size, over the block size.
FailedBlockCount == 8388607

CacheWrite ==
  /\ Busy("write") /\ cached
  /\ disk' = [disk EXCEPT ![Current] = buf[call.done]]
  /\ UpdateLines(1)
  /\ PassDone
  /\ UNCHANGED <<cached, tag, buf, overrun, failedWrite, before>>

\* A write the card fails may or may not have reached the medium.
CacheWriteFails ==
  /\ Busy("write") /\ cached
  /\ "write" \in MayFail
  /\ disk' \in {disk, [disk EXCEPT ![Current] = buf[call.done]]}
  /\ UpdateLines(FailedBlockCount)
  /\ PassFailed
  /\ failedWrite' = TRUE
  /\ UNCHANGED <<cached, tag, buf, overrun, before>>

RawWrite ==
  /\ Busy("write") /\ ~cached
  /\ \/ /\ disk' = [disk EXCEPT ![Current] = buf[call.done]]
        /\ PassDone
        /\ UNCHANGED failedWrite
     \/ /\ "write" \in MayFail
        /\ disk' \in {disk, [disk EXCEPT ![Current] = buf[call.done]]}
        /\ PassFailed
        /\ failedWrite' = TRUE
  /\ UNCHANGED <<cached, tag, line, buf, overrun, before>>

Device ==
  \/ ReadMulti
  \/ CacheReadHit \/ CacheReadMiss \/ CacheReadMissFails \/ RawRead
  \/ CacheWrite \/ CacheWriteFails \/ RawWrite

Next == RequestRead \/ RequestWrite \/ Device

Spec == Init /\ [][Next]_vars

-------------------------------------------------------------------------------
(***************************************************************************)
(* Properties.                                                             *)
(***************************************************************************)

\* A call lies on the card and its progress within the call.
CallOK ==
  /\ call \in [op : {"none", "read", "write"}, start : Nat, count : 0 .. MaxCount,
               done : 0 .. MaxCount, status : {"idle", "busy", "ok", "error"}]
  /\ call.start + call.count <= NumBlocks
  /\ call.done <= call.count
  /\ call.status = "busy" => call.done < call.count

\* Every variable has its type, and a call its place within the card.
TypeOK ==
  /\ cached \in BOOLEAN
  /\ disk \in [Block -> Data]
  /\ tag \in [Slot -> Block \cup {Empty}]
  /\ line \in [Slot -> Memory]
  /\ CallOK
  /\ buf \in [BufIdx -> Memory]
  /\ overrun \in BOOLEAN
  /\ failedWrite \in BOOLEAN
  /\ before \in [Block -> Data]

\* A block is only ever in the slot cache_idx gives it, so that cache_write,
\* which looks in that slot alone, finds every copy.
TagsInPlace ==
  \A i \in Slot : tag[i] # Empty => cached /\ cache_idx(tag[i]) = i

\* A tagged slot holds what the card holds ("implemented as write through",
\* block_cache.c:24).
WriteThrough == \A i \in Slot : tag[i] # Empty => line[i] = disk[tag[i]]

\* The cache is write-through until the card fails a write (cache_read's
\* tagging of a slot it refills, cache_write's update of every slot that holds
\* a block it writes).
Coherent == ~failedWrite => WriteThrough

\* What block_read has delivered of a request is what the card holds, slot by
\* slot and however hits, misses, refills and whole requests alternate.
ReadsSeeDisk ==
  call.op = "read" /\ ~failedWrite =>
    \A i \in 0 .. call.done - 1 : buf[i] = disk[call.start + i]

\* block_write changes a prefix of its range, in order: the blocks it has
\* counted hold the caller's data; past them only the block whose write the
\* card failed may differ from what it was, and no other block of the card has
\* changed.
WritesAPrefix ==
  call.op = "write" =>
    /\ \A i \in 0 .. call.done - 1 : disk[call.start + i] = buf[i]
    /\ \A b \in Block :
         \/ b \in call.start .. Current - 1
         \/ disk[b] = before[b]
         \/ b = Current /\ call.status = "error" /\ disk[b] = buf[call.done]

\* The inductive invariant.  The caller's write buffer holds data throughout.
WriteBufferFilled ==
  call.op = "write" => \A i \in 0 .. call.count - 1 : buf[i] \in Data

IInv ==
  /\ TypeOK
  /\ TagsInPlace
  /\ WriteBufferFilled
  /\ Coherent
  /\ ReadsSeeDisk
  /\ WritesAPrefix

(***************************************************************************)
(* The store a caller sees: BlockStore.  A read's answer is the buffer     *)
(* once the call has returned; a write's data is the buffer throughout.    *)
(***************************************************************************)
Prefix(n) == [i \in 0 .. n - 1 |-> buf[i]]

Requested ==
  [op |-> call.op, start |-> call.start, count |-> call.count,
   data |-> IF call.op = "write" THEN Prefix(call.count) ELSE <<>>]

Written == IF call.op = "write" THEN call.done ELSE 0

Answered == IF call.op = "read" /\ call.status = "ok" THEN Prefix(call.count)
                                                     ELSE <<>>

Store == INSTANCE BlockStore WITH
  store <- disk, request <- Requested, written <- Written,
  status <- call.status, answer <- Answered, distrust <- failedWrite

\* Until the card fails a write, a caller cannot tell the cached device from a store
\* of blocks, and after that not by what is written (block_read and block_write
\* over cache_read and cache_write).
ImplementsBlockStore == Store!Spec

===============================================================================
