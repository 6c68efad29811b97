--------------------------------- MODULE Nofs ---------------------------------
(***************************************************************************)
(* The raw file system of nofs.c: a whole partition as one file, between a *)
(* byte order mark and an end mark, written through fs_fwrite on a device  *)
(* that may fail, with another partition behind it.                        *)
(***************************************************************************)
EXTENDS FileStream

CONSTANTS
  NumBlocks,   \* blocks of the partition, num_blocks of its device
  DiskBlocks,  \* blocks of the card from the start of the partition
  BomLen,      \* bytes of the byte order mark: 3
  MarkLen,     \* bytes of the end mark: 9
  Bom, Eof, Tilde,
  Data,        \* bytes a caller writes
  Payloads,    \* what a caller passes to fwrite
  Disks,       \* what the card may hold at first
  Junk,        \* what memory nobody filled holds
  NoBlock,     \* 0xffffffff
  UsedModes,   \* modes files are opened in
  Sizes,       \* of a member, for fread and fwrite
  Counts,      \* of members, for fread
  Offsets,     \* of fseek
  WildPositions, \* bound: where a search behind the buffer may end
  MayFail,     \* the operations of the card that may fail: "read", "write"
  MaxCalls     \* bound: calls made

\* The bytes of a block have an offset; what a byte can be, and a card.
Offset == 0 .. BlockSize - 1
Bytes == Data \cup {Bom, Eof, Tilde, Junk}
Cards == [0 .. DiskBlocks - 1 -> [Offset -> Bytes]]

\* What nofs_get_next_bdev_block_num lets a file have.
Limit == BlockSize * BlockSize

ASSUME NofsAssumption ==
  /\ NumBlocks \in Nat \ {0} /\ DiskBlocks \in Nat /\ NumBlocks <= DiskBlocks
  /\ BomLen \in Nat \ {0} /\ MarkLen \in Nat \ {0}
  /\ BomLen + MarkLen <= BlockSize
  /\ Bom # Eof /\ Data \cap {Bom, Eof, Tilde, Junk} = {} /\ Payloads \subseteq Seq(Data)
  /\ Disks \subseteq Cards /\ Limit < Word
  /\ Sizes \subseteq Nat \ {0} /\ Counts \subseteq Nat /\ Offsets \subseteq Int
  /\ WildPositions \subseteq 0 .. Word - 1
  /\ UsedModes \subseteq Modes /\ MayFail \subseteq {"read", "write"}
  /\ NoBlock \notin Nat /\ MaxCalls \in Nat

VARIABLES
  disk,     \* the card: block -> offset -> byte
  wild,     \* the search of this fopen has read past its buffer
  calls,    \* the number of calls made
  before,   \* history: the card when the current call was made
  payload,  \* history: what the last fwrite was given
  failed    \* history: the card has failed since the file was opened

history == <<before, payload, failed>>
vars == <<stream, call, pass, disk, wild, calls, history>>

eof_mark == [i \in 1 .. MarkLen |-> IF i = 1 THEN Eof ELSE Tilde]
JunkBlock == [i \in Offset |-> Junk]

Init ==
  /\ stream = Closed /\ call = NoCall /\ pass = NoPass
  /\ disk \in Disks /\ wild = FALSE /\ calls = 0
  /\ before = disk /\ payload = <<>> /\ failed = FALSE

Begins ==
  /\ ~call.busy /\ calls < MaxCalls
  /\ calls' = calls + 1 /\ before' = disk

Running(op) == call.busy /\ call.op = op

(***************************************************************************)
(* The device: block_read and block_write of the partition, which looks at *)
(* where the card ends and not at where the partition does.                *)
(***************************************************************************)
Reads(b) ==
  (IF b < DiskBlocks THEN {[ret |-> BlockSize, data |-> disk[b]]} ELSE {})
    \cup
  (IF b >= DiskBlocks \/ "read" \in MayFail THEN {[ret |-> -1, data |-> JunkBlock]}
                                            ELSE {})

\* A write the card fails may have reached the medium or not.
Writes(b, block, ret) ==
  \/ /\ b < DiskBlocks /\ ret = BlockSize
     /\ disk' = [disk EXCEPT ![b] = block]
  \/ /\ b < DiskBlocks /\ "write" \in MayFail /\ ret = -1
     /\ disk' \in {disk, [disk EXCEPT ![b] = block]}
  \/ b >= DiskBlocks /\ ret = -1 /\ UNCHANGED disk

(***************************************************************************)
(* nofs_fopen: the first block is read, and given a mark if it has none.   *)
(***************************************************************************)
HasBom(block) == \A i \in 0 .. BomLen - 1 : block[i] = Bom

NewFile(block) ==
  [i \in Offset |->
    IF i < BomLen THEN Bom
    ELSE IF i < BomLen + MarkLen THEN eof_mark[i - BomLen + 1] ELSE block[i]]

Opens ==
  /\ ~stream.open /\ Begins
  /\ failed' = FALSE /\ wild' = FALSE
  /\ UNCHANGED <<pass, payload>>

FopenResult(fails) == [NewCall("fopen", 0, 1, 0) EXCEPT !.busy = FALSE, !.failed = fails]

Fopen(mode) ==
  /\ Opens
  /\ HasBom(disk[0]) /\ ~VFS_MODE_APPEND(mode)
  /\ stream' = Opened(mode, BomLen, BomLen)
  /\ call' = FopenResult(FALSE)
  /\ UNCHANGED disk

FopenNew(mode) ==
  /\ Opens
  /\ ~HasBom(disk[0])
  /\ Writes(0, NewFile(disk[0]), BlockSize)
  /\ stream' = Opened(mode, BomLen, BomLen)
  /\ call' = FopenResult(FALSE)

FopenAppend(mode) ==
  /\ Opens
  /\ HasBom(disk[0]) /\ VFS_MODE_APPEND(mode)
  /\ stream' = [Closed EXCEPT !.mode = mode]
  /\ call' = NewCall("search", 0, 1, 0)
  /\ UNCHANGED disk

\* NULL, when the first block cannot be read or written.
FopenFails ==
  /\ Opens
  /\ \/ "read" \in MayFail /\ UNCHANGED disk
     \/ ~HasBom(disk[0]) /\ Writes(0, NewFile(disk[0]), -1)
  /\ call' = FopenResult(TRUE)
  /\ UNCHANGED stream

Marks(block) == {i \in Offset : block[i] = Eof}
First(S) == CHOOSE i \in S : \A j \in S : i <= j

\* Mutant: the position behind the mark.
FoundBehind(pos) ==
  /\ stream' = Opened(stream.mode, pos + 1, pos + 1)
  /\ call' = [call EXCEPT !.busy = FALSE]

Found(pos) ==
  /\ stream' = Opened(stream.mode, pos, pos)
  /\ call' = [call EXCEPT !.busy = FALSE]

\* One pass of the search for the end mark. block_no is never increased: a first
\* block without a mark is read again for ever. A failed read counts as 4 GiB
\* read, so that the first byte of memory that looks like a mark ends the search.
SearchPass ==
  /\ Running("search")
  /\ \E r \in Reads(0) :
       IF r.ret = BlockSize
       THEN /\ UNCHANGED <<wild, failed>>
            /\ IF Marks(r.data) # {} THEN Found(First(Marks(r.data)))
                                     ELSE UNCHANGED <<stream, call>>
       ELSE /\ wild' = TRUE /\ failed' = TRUE
            /\ \E pos \in WildPositions : Found(pos)
  /\ UNCHANGED <<pass, disk, calls, before, payload>>

(***************************************************************************)
(* Reading and writing.                                                    *)
(***************************************************************************)

nofs_get_next_bdev_block_num(f_block_idx, add_blocks) ==
  IF f_block_idx >= BlockSize THEN NoBlock
  ELSE IF f_block_idx > stream.len \div BlockSize /\ ~add_blocks THEN NoBlock
  ELSE f_block_idx

Fread(size, nmemb) ==
  /\ Begins /\ BeginFread(size, nmemb)
  /\ UNCHANGED <<stream, disk, wild, payload, failed>>

FreadStep ==
  LET b == nofs_get_next_bdev_block_num(pass.cur, FALSE) IN
  /\ Running("fread") /\ ~pass.over
  /\ \/ b = NoBlock /\ NoMoreBlocks /\ UNCHANGED <<stream, failed>>
     \/ /\ b # NoBlock
        /\ \E r \in Reads(b) : FreadPass(r) /\ failed' = (failed \/ r.ret = -1)
  /\ UNCHANGED <<call, disk, wild, calls, before, payload>>

FreadReturns ==
  /\ Running("fread") /\ pass.over
  /\ call' = Result
  /\ UNCHANGED <<stream, pass, disk, wild, calls, history>>

\* Mutant: only the mode "a" writes at the end.
WritePosNotRead ==
  IF VFS_MODE_APPEND(stream.mode) /\ ~VFS_MODE_R(stream.mode) THEN stream.len
                                                             ELSE stream.pos

\* fs_fwrite, before its loop: with "a+" it writes at the end.
WritePos ==
  IF VFS_MODE_APPEND(stream.mode) /\ VFS_MODE_R(stream.mode) THEN stream.len
                                                            ELSE stream.pos

BeginFwrite(bytes) ==
  /\ stream' = [stream EXCEPT !.pos = WritePos]
  /\ BeginPasses(WritePos, Len(bytes), bytes)

Fwrite(data, size) ==
  LET bytes == SubSeq(data, 1, Whole(size, Len(data))) IN
  /\ stream.open /\ Begins
  /\ call' = NewCall("fwrite", WritePos, size, Len(bytes))
  /\ BeginFwrite(bytes)
  /\ payload' = bytes
  /\ UNCHANGED <<disk, wild, failed>>

\* One pass of fs_fwrite, for the caller's bytes and for the mark. What a block
\* is only written a part of must be read first.
WriteTo(b) ==
  \/ /\ ~WholeBlock
     /\ \E r \in Reads(b) : r.ret = -1
     /\ pass' = [pass EXCEPT !.over = TRUE, !.failed = TRUE]
     /\ failed' = TRUE
     /\ UNCHANGED <<stream, disk>>
  \/ /\ WholeBlock \/ b < DiskBlocks
     /\ \E ret \in {-1, BlockSize} :
          /\ Writes(b, Edited(IF WholeBlock THEN JunkBlock ELSE disk[b]), ret)
          /\ FwritePass(ret)
          /\ failed' = (failed \/ ret = -1)

FwriteStep ==
  LET b == nofs_get_next_bdev_block_num(pass.cur, TRUE) IN
  /\ Running("fwrite") \/ Running("mark")
  /\ ~pass.over
  /\ IF b = NoBlock THEN NoMoreBlocks /\ UNCHANGED <<stream, disk, failed>>
                    ELSE WriteTo(b)
  /\ UNCHANGED <<call, wild, calls, before, payload>>

Grown == stream.len > call.len

FwriteReturns ==
  /\ Running("fwrite") /\ pass.over /\ ~Grown
  /\ call' = Result
  /\ UNCHANGED <<stream, pass, disk, wild, calls, history>>

\* nofs_fwrite: when the file has grown, the mark is written behind it, and then
\* the file ends at new_pos again. From here on call.len stands for new_pos.
BeginMark ==
  /\ Running("fwrite") /\ pass.over /\ Grown
  /\ call' = [Result EXCEPT !.busy = TRUE, !.op = "mark", !.len = stream.len]
  /\ BeginFwrite(eof_mark)
  /\ UNCHANGED <<disk, wild, calls, history>>

MarkReturns ==
  /\ Running("mark") /\ pass.over
  /\ stream' = [stream EXCEPT !.pos = call.len, !.len = call.len]
  /\ call' = [call EXCEPT !.busy = FALSE]
  /\ UNCHANGED <<pass, disk, wild, calls, history>>

Fseek(offset, whence) ==
  /\ stream.open /\ Begins
  /\ SeekTo(offset, whence, BomLen)
  /\ call' = [NewCall("fseek", 0, 1, 0) EXCEPT !.busy = FALSE]
  /\ UNCHANGED <<pass, disk, wild, payload, failed>>

\* fflush and nofs_fclose do nothing to the file: all is on the card.
Fclose ==
  /\ stream.open /\ ~call.busy
  /\ stream' = Closed /\ call' = NoCall /\ pass' = NoPass
  /\ before' = disk /\ payload' = <<>> /\ failed' = FALSE /\ wild' = FALSE
  /\ UNCHANGED <<disk, calls>>

Calls ==
  \/ \E mode \in UsedModes : Fopen(mode) \/ FopenNew(mode) \/ FopenAppend(mode)
  \/ FopenFails \/ Fclose
  \/ \E n \in Counts, size \in Sizes : Fread(size, n)
  \/ \E data \in Payloads, size \in Sizes : Fwrite(data, size)
  \/ \E offset \in Offsets, whence \in {"SEEK_SET", "SEEK_END", "SEEK_CUR"} :
       Fseek(offset, whence)

Step ==
  \/ SearchPass
  \/ FreadStep \/ FreadReturns
  \/ FwriteStep \/ FwriteReturns \/ BeginMark \/ MarkReturns

Next == Calls \/ Step

Spec == Init /\ [][Next]_vars

\* The one thread of the loader runs the call it is in.
FairSpec == Spec /\ WF_vars(Step)

-------------------------------------------------------------------------------
(***************************************************************************)
(* Properties.                                                             *)
(***************************************************************************)
Address == 0 .. DiskBlocks * BlockSize - 1
Byte(d, p) == d[p \div BlockSize][p % BlockSize]

\* fs_fwrite edits the first block in place, whatever its passes move: once the
\* file has been opened the byte order mark stays (nofs.c:29: "The first three
\* bytes of the filesystem are the UTF-8 byte order mark").
HeaderIntact == stream.open /\ ~wild => HasBom(disk[0])

\* fread of vfs.c over the passes of fs_fread: the bytes of the file from the
\* position, as many as were asked for and are left, in order across block
\* boundaries; also after a failure the position has moved by what was counted.
ReadsFile ==
  call.op = "fread" =>
    /\ stream.pos = call.start + pass.total
    /\ ~call.busy /\ ~call.failed /\ ~wild =>
         /\ call.total = call.bytes
         /\ pass.buf = [i \in 1 .. call.bytes |-> Byte(disk, call.start + i - 1)]

\* fs_fwrite: what has been counted of a write is on the card, in its place, and
\* no byte outside the range and the mark behind it has changed, nor any of the
\* next partition, however the passes split the range and whichever of them the
\* card fails (nofs_get_next_bdev_block_num).
WritesWithin(room) ==
  call.op \in {"fwrite", "mark"} =>
    LET counted == IF Running("fwrite") THEN pass.total ELSE call.total IN
    /\ ~failed => \A i \in 1 .. counted : Byte(disk, call.start + i - 1) = payload[i]
    /\ \A p \in Address :
         \/ Byte(disk, p) = Byte(before, p)
         \/ /\ p < room
            /\ \/ p \in call.start .. call.start + call.bytes - 1
               \/ call.op = "mark" /\ p \in PassesFrom .. PassesFrom + MarkLen - 1

WritesRange == WritesWithin(NumBlocks * BlockSize)

\* A file ends with the mark, as far as there is room: whole behind a write that
\* made the file grow, and with its first byte otherwise, as an earlier failure
\* may have cut it (nofs.c:27: "ensures the last bytes of the file are either EOF followed by
\* ~~~~~~~~ (8 ~s) or just EOF regardless of fseeking backward/forwards").
EndMarked ==
  stream.open /\ ~call.busy /\ ~failed /\ call.op # "fopen" /\ stream.len > BomLen =>
    \A i \in 1 .. MarkLen :
      stream.len + i - 1 < Limit /\ (i = 1 \/ call.op = "mark") =>
        Byte(disk, stream.len + i - 1) = eof_mark[i]

\* The file stays between its two marks.
Framed == HeaderIntact /\ EndMarked

\* In the mode "a+" nothing in front of the end is ever written over, also after
\* fseek (libfs.c:268: "always set the stream position to the end of the file").
AppendsAtEnd ==
  stream.open /\ stream.mode = "a+" /\ call.op = "fwrite" =>
    \A p \in Address : p < call.len => Byte(disk, p) = Byte(before, p)

\* nofs.c:32: "If we read this on fopen, we search for an EOF marker to set the
\* current position". The search of nofs_fopen ends.
SearchEnds == Running("search") ~> ~Running("search")

\* The inductive invariant.
StreamTypes == [open : BOOLEAN, pos : Int, len : Nat, mode : Modes]

CallTypes ==
  [op : {"none", "fopen", "search", "fread", "fwrite", "mark", "fseek"}, busy : BOOLEAN,
   start : Int, size : Nat \ {0}, bytes : Nat, len : Int, total : Int, ret : Int,
   failed : BOOLEAN]

PassTypes ==
  [cur : Nat, first : Nat, from : Offset, last : Nat, upto : Offset, buf : Seq(Bytes),
   total : Int, over : BOOLEAN, failed : BOOLEAN]

TypeOK ==
  /\ stream \in StreamTypes /\ call \in CallTypes /\ pass \in PassTypes
  /\ disk \in Cards /\ before \in Cards
  /\ wild \in BOOLEAN /\ failed \in BOOLEAN /\ calls \in Nat /\ payload \in Seq(Data)
  /\ wild => failed

\* The position is in the file, which is in the blocks a file may have.  A position
\* behind the buffer, or a failed transfer at one, may be anywhere.
Stands ==
  /\ Running("search") => ~stream.open /\ HasBom(disk[0])
  /\ ~Running("mark") =>
       /\ stream.pos \in -1 .. stream.len /\ stream.len < Word
       /\ stream.open /\ ~wild => BomLen <= stream.pos /\ stream.len <= Limit
  /\ Running("mark") =>
       /\ call.len \in 0 .. Word - 1
       /\ ~wild => call.len \in BomLen .. Limit

\* The bytes the passes are to move.
Asked == IF Running("fread") THEN call.bytes ELSE Len(pass.buf)

\* The passes go over the range of the call, and the next one begins where the
\* last one ended.
Passing ==
  /\ ~pass.over =>
       /\ Running("fread") \/ Running("fwrite") \/ Running("mark")
       /\ ~pass.failed
       /\ pass.cur \in pass.first .. pass.last
       /\ pass.total = Reached - PassesFrom
       /\ PassesUpto = (PassesFrom + Asked) % Word
  /\ call.op \in {"fread", "fwrite"} =>
       /\ call.start \in -1 .. Word - 1 /\ PassesFrom = call.start % Word
       /\ stream.pos = call.start + pass.total
       /\ call.busy => stream.open /\ (wild \/ call.start >= BomLen)

\* What has been counted of a read is in the buffer.
Reading ==
  /\ Running("fread") => call.start + call.bytes <= stream.len /\ ~call.failed
  /\ Running("fread") /\ ~pass.failed /\ ~wild =>
       /\ pass.buf = [i \in 1 .. pass.total |-> Byte(disk, call.start + i - 1)]
       /\ pass.over => pass.total = call.bytes

\* What is being written, and how far a file that did not fail has grown.
Writing ==
  /\ Running("fwrite") => pass.buf = payload /\ call.bytes = Len(payload)
  /\ call.op = "fwrite" /\ ~failed =>
       stream.len = IF stream.pos > call.len THEN stream.pos ELSE call.len
  /\ call.op = "fwrite" /\ stream.open /\ stream.mode = "a+" => call.start = call.len
  /\ Running("mark") => pass.buf = eof_mark /\ (wild \/ PassesFrom >= BomLen)
  /\ call.op = "mark" /\ ~failed =>
       /\ call.start \in Nat
       /\ PassesFrom = call.len /\ PassesFrom = call.start + call.total
       /\ ~call.busy => stream.len = call.len

\* Behind the file is a mark, or it is being written.
Marked ==
  /\ stream.open /\ ~failed /\ BomLen < stream.len /\ stream.len < Limit /\
     ~Running("mark") /\ ~(Running("fwrite") /\ Grown) =>
       stream.len \in Address /\ Byte(disk, stream.len) = Eof
  /\ call.op = "mark" /\ ~failed =>
       /\ \A i \in 1 .. pass.total : /\ PassesFrom + i - 1 \in Address
                                     /\ Byte(disk, PassesFrom + i - 1) = eof_mark[i]
       /\ pass.over => pass.total = MarkLen \/ PassesFrom + pass.total >= Limit

IInv ==
  /\ TypeOK /\ Stands /\ Passing /\ Reading /\ Writing /\ Marked
  /\ HeaderIntact /\ ReadsFile /\ WritesWithin(Limit)
================================================================================
