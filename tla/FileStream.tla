------------------------------ MODULE FileStream ------------------------------
(***************************************************************************)
(* An open file and the call that is using it: the loops of fs_fread and   *)
(* fs_fwrite in libfs.c, which every file system shares, below fread,      *)
(* fwrite and fseek of vfs.c.                                              *)
(*                                                                         *)
(* One pass of a loop moves one segment of one block, and is one action of *)
(* the module that knows the file system: it looks the block up, asks the  *)
(* device, and hands the device's answer to FreadPass or FwritePass.       *)
(***************************************************************************)
EXTENDS Integers, Sequences, FiniteSets

CONSTANTS
  BlockSize,  \* bytes in a block of the file system
  Word        \* unsigned numbers wrap here: 2^32

ASSUME StreamAssumption ==
  /\ BlockSize \in Nat \ {0}
  /\ Word \in Nat \ {0} /\ Word % BlockSize = 0

VARIABLES
  stream,  \* the open file: pos, len and mode of struct vfs_file
  call,    \* the call being served, or the last one
  pass     \* the locals of fs_fread or fs_fwrite

Modes == {"r", "r+", "w", "w+", "a", "a+"}

\* fs_interpret_mode, as far as it is looked at later.
VFS_MODE_R(mode) == mode \in {"r", "r+", "w+", "a+"}
VFS_MODE_APPEND(mode) == mode \in {"a", "a+"}

Closed == [open |-> FALSE, pos |-> 0, len |-> 0, mode |-> "r"]
Opened(mode, pos, len) == [open |-> TRUE, pos |-> pos, len |-> len, mode |-> mode]

NoPass == [cur |-> 0, first |-> 0, from |-> 0, last |-> 0, upto |-> 0,
           buf |-> <<>>, total |-> 0, over |-> TRUE, failed |-> FALSE]
NoCall == [op |-> "none", busy |-> FALSE, start |-> 0, size |-> 1, bytes |-> 0,
           len |-> 0, total |-> 0, ret |-> 0, failed |-> FALSE]

\* The blocks and offsets of a range of bytes. A range that ends on a block
\* boundary ends with no byte of the block behind it.
ByteRange(pos, n) ==
  [first |-> (pos % Word) \div BlockSize, from |-> pos % BlockSize,
   last |-> ((pos + n) % Word) \div BlockSize, upto |-> (pos + n) % BlockSize]

\* The loop before its first pass; buf is what is to be written, or was read.
\* The condition of the loop fails at once when the range wraps.
BeginPasses(pos, n, buf) ==
  LET r == ByteRange(pos, n) IN
  pass' = [cur |-> r.first, first |-> r.first, from |-> r.from, last |-> r.last,
           upto |-> r.upto, buf |-> buf, total |-> 0, over |-> r.first > r.last,
           failed |-> FALSE]

\* What is left of the file: the unsigned difference of two longs.
Left == (stream.len - stream.pos) % Word

Smaller(m, n) == IF m < n THEN m ELSE n

Whole(size, bytes) == (bytes \div size) * size

NewCall(op, start, size, bytes) ==
  [op |-> op, busy |-> TRUE, start |-> start, size |-> size, bytes |-> bytes,
   len |-> stream.len, total |-> 0, ret |-> 0, failed |-> FALSE]

\* fread of vfs.c: no more than the file has left, in whole members.
BeginFread(size, nmemb) ==
  LET bytes == Whole(size, Smaller(size * nmemb, Left)) IN
  /\ stream.open
  /\ call' = NewCall("fread", stream.pos, size, bytes)
  /\ BeginPasses(stream.pos, bytes, <<>>)

\* What the caller of fread and fwrite gets: members, of an unsigned count.
ResultOf(total) == (total % Word) \div call.size

Result ==
  [call EXCEPT !.busy = FALSE, !.total = pass.total, !.ret = ResultOf(pass.total),
               !.failed = @ \/ pass.failed]

(***************************************************************************)
(* One pass over the current block.                                        *)
(***************************************************************************)
Segment ==
  [from |-> IF pass.cur = pass.first THEN pass.from ELSE 0,
   upto |-> IF pass.cur = pass.last THEN pass.upto ELSE BlockSize]

WholeBlock == Segment.from = 0 /\ Segment.upto = BlockSize

\* The range that the passes go over, and where the next one begins.
PassesFrom == pass.first * BlockSize + pass.from
PassesUpto == pass.last * BlockSize + pass.upto
Reached == IF pass.cur = pass.first THEN PassesFrom ELSE pass.cur * BlockSize

\* Bytes a pass counts when the device answers ret. A failed transfer of a whole
\* block counts as -1; of a part, as all of it, as -1 is a large unsigned number.
Transferred(ret) ==
  LET upto == IF ret < 0 THEN Segment.upto ELSE Smaller(ret, Segment.upto) IN
  IF WholeBlock THEN ret
  ELSE IF upto < Segment.from THEN 0 ELSE upto - Segment.from

\* The loop ends when there is no block, when the device has not moved a whole
\* one, and with the last block.
NoMoreBlocks == pass' = [pass EXCEPT !.over = TRUE]

CountPass(n, ret, buf) ==
  pass' = [pass EXCEPT !.cur = @ + 1, !.total = @ + n, !.buf = buf,
                       !.over = ret # BlockSize \/ pass.cur = pass.last,
                       !.failed = ret < 0]

\* Mutant: every segment is copied from the start of its block.
ReceivedFromBlock(r) == pass.buf \o [i \in 1 .. Transferred(r.ret) |-> r.data[i - 1]]

Received(r) ==
  pass.buf \o [i \in 1 .. Transferred(r.ret) |-> r.data[Segment.from + i - 1]]

\* fs_fread: the segment of what the device answered is appended to the buffer.
FreadPass(r) ==
  /\ CountPass(Transferred(r.ret), r.ret, Received(r))
  /\ stream' = [stream EXCEPT !.pos = @ + Transferred(r.ret)]

\* Mutant: the buffer is copied from its start in every pass.
EditedFromStart(block) ==
  [i \in 0 .. BlockSize - 1 |->
    IF i \in Segment.from .. Segment.upto - 1
    THEN pass.buf[1 + i - Segment.from] ELSE block[i]]

\* The block with the current segment of what is to be written.
Edited(block) ==
  [i \in 0 .. BlockSize - 1 |->
    IF i \in Segment.from .. Segment.upto - 1
    THEN pass.buf[pass.total + 1 + i - Segment.from] ELSE block[i]]

\* fs_fwrite, when the device has answered the write of the edited block with ret.
FwritePass(ret) ==
  LET pos == stream.pos + Transferred(ret) IN
  /\ CountPass(Transferred(ret), ret, pass.buf)
  /\ stream' = [stream EXCEPT !.pos = pos, !.len = IF pos > @ THEN pos ELSE @]

(***************************************************************************)
(* fseek of vfs.c, and of nofs.c where the file begins at low.             *)
(***************************************************************************)
Target(offset, whence, low) ==
  CASE whence = "SEEK_SET" -> offset + low
    [] whence = "SEEK_END" -> stream.len - offset
    [] whence = "SEEK_CUR" -> stream.pos + offset

\* The second comparison has the last word.
Clamped(pos, low) ==
  Smaller(IF pos < low THEN low ELSE pos, stream.len)

SeekTo(offset, whence, low) ==
  stream' = [stream EXCEPT !.pos = Clamped(Target(offset, whence, low), low)]
===============================================================================
