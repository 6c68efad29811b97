--------------------------- MODULE BlockCacheProofs ---------------------------
(***************************************************************************)
(* The safety theorems of BlockCache, for any card, cache and caller, and  *)
(* at the end those of Memory, whose alloc_buf gives the cache its buffer. *)
(***************************************************************************)
EXTENDS BlockCache, Memory, TLAPS

\* cache_idx always selects a slot.
LEMMA SlotOfBlock == ASSUME NEW b \in Block PROVE cache_idx(b) \in Slot
  BY SizesAssumption DEF cache_idx, Slot, Block

\* The block of the current pass of a loop lies on the card, and its place in
\* the caller's buffer.
LEMMA CurrentOnCard ==
  ASSUME TypeOK, call.status = "busy"
  PROVE  Current \in Block /\ call.done \in BufIdx
  BY SizesAssumption DEF TypeOK, CallOK, Current, Block, BufIdx

\* The initial states satisfy the inductive invariant.
LEMMA InitIInv == Init => IInv
<1> SUFFICES ASSUME Init PROVE IInv
  OBVIOUS
<1>1. TypeOK
  <2>1. /\ cached \in BOOLEAN /\ overrun \in BOOLEAN /\ failedWrite \in BOOLEAN
        /\ disk \in [Block -> Data] /\ before \in [Block -> Data]
    BY DEF Init
  <2>2. /\ tag \in [Slot -> Block \cup {Empty}]
        /\ line \in [Slot -> Memory]
        /\ buf \in [BufIdx -> Memory]
    BY DEF Init, Memory
  <2>3. CallOK
    BY SizesAssumption DEF Init, CallOK
  <2>4. QED
    BY <2>1, <2>2, <2>3 DEF TypeOK
<1>2. TagsInPlace /\ Coherent
  BY DEF Init, TagsInPlace, Coherent, WriteThrough
<1>3. WriteBufferFilled /\ ReadsSeeDisk /\ WritesAPrefix
  BY DEF Init, WriteBufferFilled, ReadsSeeDisk, WritesAPrefix
<1>4. QED
  BY <1>1, <1>2, <1>3 DEF IInv

\* A caller's new request.
LEMMA RequestStep ==
  ASSUME IInv, RequestRead \/ RequestWrite
  PROVE  IInv'
<1> USE DEF IInv
<1>1. CASE RequestRead
  <2>1. PICK start \in Block, count \in 1 .. MaxCount :
          Request("read", start, count)
    BY <1>1 DEF RequestRead
  <2>2. TypeOK'
    BY <1>1, <2>1, SizesAssumption
       DEF RequestRead, Request, TypeOK, CallOK, Memory, Block
  <2>3. TagsInPlace' /\ Coherent'
    BY <2>1 DEF Request, TagsInPlace, Coherent, WriteThrough, cache_idx
  <2>4. WriteBufferFilled' /\ ReadsSeeDisk' /\ WritesAPrefix'
    BY <2>1 DEF Request, WriteBufferFilled, ReadsSeeDisk, WritesAPrefix
  <2>5. QED
    BY <2>2, <2>3, <2>4
<1>2. CASE RequestWrite
  <2>1. PICK start \in Block, count \in 1 .. MaxCount :
          /\ Request("write", start, count)
          /\ \E data \in [0 .. count - 1 -> Data] :
               buf' = [i \in BufIdx |-> IF i < count THEN data[i] ELSE Junk]
    BY <1>2 DEF RequestWrite
  <2>2. PICK data \in [0 .. count - 1 -> Data] :
          buf' = [i \in BufIdx |-> IF i < count THEN data[i] ELSE Junk]
    BY <2>1
  <2>3. TypeOK'
    BY <2>1, <2>2, SizesAssumption
       DEF Request, TypeOK, CallOK, Memory, Block, BufIdx
  <2>4. TagsInPlace' /\ Coherent'
    BY <2>1 DEF Request, TagsInPlace, Coherent, WriteThrough, cache_idx
  <2>5. WriteBufferFilled' /\ ReadsSeeDisk' /\ WritesAPrefix'
    BY <2>1, <2>2, SizesAssumption
       DEF Request, WriteBufferFilled, ReadsSeeDisk, WritesAPrefix, BufIdx,
           TypeOK, CallOK, Block, Current
  <2>6. QED
    BY <2>3, <2>4, <2>5
<1>3. QED
  BY <1>1, <1>2

\* What a pass of a loop leaves of the call record.
SameRequest ==
  /\ call'.op = call.op
  /\ call'.start = call.start
  /\ call'.count = call.count

LEMMA PassDoneCall ==
  ASSUME CallOK, call.status = "busy", PassDone
  PROVE  CallOK' /\ SameRequest /\ call'.done = call.done + 1
<1>1. call.done + 1 \in 0 .. MaxCount /\ call.done + 1 <= call.count
  BY SizesAssumption DEF CallOK
<1>2. call' = [op |-> call.op, start |-> call.start, count |-> call.count,
               done |-> call.done + 1,
               status |-> IF call.done + 1 = call.count THEN "ok" ELSE "busy"]
  BY DEF CallOK, PassDone
<1>3. QED
  BY <1>1, <1>2 DEF CallOK, SameRequest

LEMMA PassFailedCall ==
  ASSUME CallOK, call.status = "busy", PassFailed
  PROVE  CallOK' /\ SameRequest /\ call'.done = call.done /\ call'.status = "error"
  BY SizesAssumption DEF CallOK, SameRequest, PassFailed

\* A pass that reads one block: it leaves the card alone, puts into the buffer
\* what the card holds unless a write has failed, and keeps the slots in order.
LEMMA ReadPassStep ==
  ASSUME IInv, Busy("read"), PassDone,
         UNCHANGED <<cached, disk, overrun, failedWrite, before>>,
         NEW v \in Memory, buf' = [buf EXCEPT ![call.done] = v],
         ~failedWrite => v = disk[Current],
         tag' \in [Slot -> Block \cup {Empty}], line' \in [Slot -> Memory],
         TagsInPlace', Coherent'
  PROVE  IInv'
<1>1. CallOK /\ call.status = "busy" /\ call.op = "read"
  BY DEF IInv, TypeOK, CallOK, Busy
<1>2. CallOK' /\ SameRequest /\ call'.done = call.done + 1
  BY <1>1, PassDoneCall
<1>3. Current \in Block /\ call.done \in BufIdx
  BY <1>1, CurrentOnCard DEF IInv
<1>4. TypeOK'
  BY <1>2, <1>3 DEF IInv, TypeOK, CallOK
<1>5. WriteBufferFilled' /\ WritesAPrefix'
  BY <1>1, <1>2 DEF SameRequest, WriteBufferFilled, WritesAPrefix
<1>6. ReadsSeeDisk'
  <2>1. SUFFICES ASSUME ~failedWrite, NEW i \in 0 .. call.done
                 PROVE  buf'[i] = disk[call.start + i]
    BY <1>1, <1>2 DEF ReadsSeeDisk, SameRequest, CallOK
  <2>2. CASE i = call.done
    BY <2>1, <2>2, <1>3 DEF Current, IInv, TypeOK
  <2>3. CASE i # call.done
    <3>1. i \in 0 .. call.done - 1 /\ i \in BufIdx
      BY <2>3, <1>1, <1>3, SizesAssumption DEF CallOK, BufIdx
    <3>2. buf'[i] = buf[i]
      BY <2>3, <3>1 DEF IInv, TypeOK
    <3>3. QED
      BY <2>1, <3>1, <3>2, <1>1 DEF IInv, ReadsSeeDisk
  <2>4. QED
    BY <2>2, <2>3
<1>7. QED
  BY <1>4, <1>5, <1>6 DEF IInv

\* Filling a slot with the card's contents of a block keeps the slots in order.
LEMMA FillStep ==
  ASSUME TypeOK, TagsInPlace, Coherent, NEW b \in Block, cached,
         UNCHANGED <<cached, disk, failedWrite>>,
         line' = [line EXCEPT ![cache_idx(b)] = disk[b]],
         tag' = [tag EXCEPT ![cache_idx(b)] = b]
  PROVE  /\ tag' \in [Slot -> Block \cup {Empty}]
         /\ line' \in [Slot -> Memory]
         /\ line'[cache_idx(b)] = disk[b]
         /\ TagsInPlace' /\ Coherent'
<1>1. cache_idx(b) \in Slot
  BY SlotOfBlock
<1>2. disk[b] \in Data
  BY DEF TypeOK
<1>3. /\ tag' \in [Slot -> Block \cup {Empty}]
      /\ line' \in [Slot -> Memory]
      /\ line'[cache_idx(b)] = disk[b]
  BY <1>1, <1>2 DEF TypeOK, Memory
<1>4. \A i \in Slot :
        IF i = cache_idx(b) THEN tag'[i] = b /\ line'[i] = disk[b]
                            ELSE tag'[i] = tag[i] /\ line'[i] = line[i]
  BY <1>1 DEF TypeOK
<1>5. TagsInPlace'
  BY <1>4 DEF TagsInPlace, cache_idx
<1>6. Coherent'
  BY <1>4 DEF Coherent, WriteThrough
<1>7. QED
  BY <1>3, <1>5, <1>6

\* Every read of the device, with or without the cache.
LEMMA ReadStep ==
  ASSUME IInv,
         \/ ReadMulti \/ CacheReadHit \/ CacheReadMiss \/ CacheReadMissFails
         \/ RawRead
  PROVE  IInv'
<1> USE DEF IInv
<1>0. TypeOK /\ CallOK
  BY DEF TypeOK
<1>1. CASE ReadMulti
  <2>1. /\ call.status = "busy" /\ call.op = "read"
        /\ UNCHANGED <<cached, disk, tag, line, overrun, failedWrite, before>>
    BY <1>1 DEF ReadMulti, Busy
  <2>2. TagsInPlace' /\ Coherent'
    BY <2>1 DEF TagsInPlace, Coherent, WriteThrough, cache_idx
  <2>3. ASSUME call' = [call EXCEPT !.done = call.count, !.status = "ok"],
               buf' = [i \in BufIdx |-> IF i < call.count
                                          THEN disk[call.start + i] ELSE buf[i]]
        PROVE  IInv'
    <3>1. CallOK' /\ SameRequest /\ call'.done = call.count
      <4>1. call' = [op |-> call.op, start |-> call.start, count |-> call.count,
                     done |-> call.count, status |-> "ok"]
        BY <1>0, <2>3 DEF CallOK
      <4>2. QED
        BY <1>0, <4>1, SizesAssumption DEF CallOK, SameRequest
    <3>2. \A i \in 0 .. call.count - 1 :
            i \in BufIdx /\ call.start + i \in Block
      BY <1>0, SizesAssumption DEF CallOK, BufIdx, Block
    <3>3. buf' \in [BufIdx -> Memory]
      BY <1>0, <2>3, <3>2 DEF TypeOK, CallOK, BufIdx, Memory, Block
    <3>4. TypeOK'
      BY <1>0, <2>1, <3>1, <3>3 DEF TypeOK
    <3>5. ReadsSeeDisk'
      BY <1>0, <2>1, <2>3, <3>1, <3>2 DEF ReadsSeeDisk, SameRequest, CallOK
    <3>6. WriteBufferFilled' /\ WritesAPrefix'
      BY <2>1, <3>1 DEF SameRequest, WriteBufferFilled, WritesAPrefix
    <3>7. QED
      BY <2>2, <3>4, <3>5, <3>6
  <2>4. ASSUME PassFailed, NEW k \in 0 .. call.count - 1,
               buf' = [i \in BufIdx |-> IF i < k THEN disk[call.start + i]
                                                 ELSE buf[i]]
        PROVE  IInv'
    <3>1. CallOK' /\ SameRequest /\ call'.done = call.done
      BY <1>0, <2>1, <2>4, PassFailedCall
    <3>2. \A i \in BufIdx : i < k => call.start + i \in Block
      BY <1>0, SizesAssumption DEF CallOK, BufIdx, Block
    <3>3. buf' \in [BufIdx -> Memory]
      BY <1>0, <2>4, <3>2 DEF TypeOK, Memory
    <3>4. TypeOK'
      BY <1>0, <2>1, <3>1, <3>3 DEF TypeOK
    <3>5. ReadsSeeDisk'
      <4>1. \A i \in 0 .. call.done - 1 : i \in BufIdx
        BY <1>0, SizesAssumption DEF CallOK, BufIdx
      <4>2. QED
        BY <1>0, <2>1, <2>4, <3>1, <4>1 DEF ReadsSeeDisk, SameRequest, CallOK
    <3>6. WriteBufferFilled' /\ WritesAPrefix'
      BY <2>1, <3>1 DEF SameRequest, WriteBufferFilled, WritesAPrefix
    <3>7. QED
      BY <2>2, <3>4, <3>5, <3>6
  <2>5. QED
    BY <1>1, <2>3, <2>4 DEF ReadMulti
<1>2. CASE CacheReadHit
  <2> DEFINE i == cache_idx(Current)
  <2>1. /\ Busy("read") /\ tag[i] = Current /\ PassDone
        /\ buf' = [buf EXCEPT ![call.done] = line[i]]
        /\ UNCHANGED <<cached, disk, tag, line, overrun, failedWrite, before>>
    BY <1>2 DEF CacheReadHit, ReadPass, Hit
  <2>2. Current \in Block
    BY <1>0, <2>1, CurrentOnCard DEF Busy
  <2>3. i \in Slot
    BY <2>2, SlotOfBlock
  <2>4. line[i] \in Memory /\ (~failedWrite => line[i] = disk[Current])
    BY <2>1, <2>2, <2>3, ValuesAssumption DEF TypeOK, Coherent, WriteThrough
  <2>5. TagsInPlace' /\ Coherent'
    BY <2>1 DEF TagsInPlace, Coherent, WriteThrough, cache_idx
  <2>6. tag' \in [Slot -> Block \cup {Empty}] /\ line' \in [Slot -> Memory]
    BY <2>1 DEF TypeOK
  <2>7. QED
    BY <2>1, <2>4, <2>5, <2>6, ReadPassStep
<1>3. CASE CacheReadMiss
  <2> DEFINE i == cache_idx(Current)
  <2>1. /\ Busy("read") /\ PassDone /\ cached
        /\ line' = [line EXCEPT ![i] = disk[Current]]
        /\ tag' = [tag EXCEPT ![i] = Current]
        /\ buf' = [buf EXCEPT ![call.done] = line'[i]]
        /\ UNCHANGED <<cached, disk, overrun, failedWrite, before>>
    BY <1>3 DEF CacheReadMiss, ReadPass, Fill
  <2>2. Current \in Block
    BY <1>0, <2>1, CurrentOnCard DEF Busy
  <2>3. /\ tag' \in [Slot -> Block \cup {Empty}]
        /\ line' \in [Slot -> Memory]
        /\ line'[i] = disk[Current]
        /\ TagsInPlace' /\ Coherent'
    BY <2>1, <2>2, FillStep
  <2>4. disk[Current] \in Memory
    BY <2>2 DEF TypeOK, Memory
  <2>5. QED
    BY <2>1, <2>3, <2>4, ReadPassStep
<1>4. CASE CacheReadMissFails
  <2> DEFINE i == cache_idx(Current)
  <2>1. /\ call.status = "busy" /\ call.op = "read" /\ PassFailed /\ overrun' = TRUE
        /\ tag' = [tag EXCEPT ![i] = Empty]
        /\ \E part \in {line[i], disk[Current], Junk} :
             line' = [line EXCEPT ![i] = part]
        /\ UNCHANGED <<cached, disk, buf, failedWrite, before>>
    BY <1>4 DEF CacheReadMissFails, ReadPass, Busy
  <2>2. CallOK' /\ SameRequest /\ call'.done = call.done
    BY <1>0, <2>1, PassFailedCall
  <2>3. Current \in Block /\ i \in Slot
    BY <1>0, <2>1, CurrentOnCard, SlotOfBlock
  <2>4. line' \in [Slot -> Memory] /\ tag' \in [Slot -> Block \cup {Empty}]
    BY <2>1, <2>3 DEF TypeOK, Memory
  <2>5. TypeOK'
    BY <1>0, <2>1, <2>2, <2>4 DEF TypeOK
  <2>6. \A j \in Slot : \/ tag'[j] = Empty
                        \/ tag'[j] = tag[j] /\ line'[j] = line[j]
    BY <2>1, <2>3 DEF TypeOK
  <2>7. TagsInPlace' /\ Coherent'
    BY <2>1, <2>6 DEF TagsInPlace, Coherent, WriteThrough, cache_idx
  <2>8. WriteBufferFilled' /\ WritesAPrefix' /\ ReadsSeeDisk'
    BY <2>1, <2>2 DEF SameRequest, WriteBufferFilled, WritesAPrefix, ReadsSeeDisk
  <2>9. QED
    BY <2>5, <2>7, <2>8
<1>5. CASE RawRead
  <2>1. /\ Busy("read")
        /\ UNCHANGED <<cached, disk, tag, line, overrun, failedWrite, before>>
    BY <1>5 DEF RawRead, ReadPass
  <2>2. TagsInPlace' /\ Coherent'
    BY <2>1 DEF TagsInPlace, Coherent, WriteThrough, cache_idx
  <2>3. CASE PassDone /\ buf' = [buf EXCEPT ![call.done] = disk[Current]]
    <3>1. Current \in Block
      BY <1>0, <2>1, CurrentOnCard DEF Busy
    <3>2. disk[Current] \in Memory
      BY <3>1 DEF TypeOK, Memory
    <3>3. tag' \in [Slot -> Block \cup {Empty}] /\ line' \in [Slot -> Memory]
      BY <2>1 DEF TypeOK
    <3>4. QED
      BY <2>1, <2>2, <2>3, <3>2, <3>3, ReadPassStep
  <2>4. CASE PassFailed /\ UNCHANGED buf
    <3>1. CallOK' /\ SameRequest /\ call'.done = call.done
      BY <1>0, <2>1, <2>4, PassFailedCall DEF Busy
    <3>2. TypeOK'
      BY <1>0, <2>1, <2>4, <3>1 DEF TypeOK
    <3>3. WriteBufferFilled' /\ WritesAPrefix' /\ ReadsSeeDisk'
      BY <2>1, <2>4, <3>1
         DEF Busy, SameRequest, WriteBufferFilled, WritesAPrefix, ReadsSeeDisk
    <3>4. QED
      BY <2>2, <3>2, <3>3
  <2>5. QED
    BY <1>5, <2>3, <2>4 DEF RawRead
<1>6. QED
  BY <1>1, <1>2, <1>3, <1>4, <1>5

\* What a write of the block of the current pass does to the slots, when the
\* loop of cache_write covers that block alone.
LEMMA UpdateOneLine ==
  ASSUME IInv, Busy("write"), UpdateLines(1), UNCHANGED tag
  PROVE  /\ line' \in [Slot -> Memory]
         /\ \A i \in Slot : tag[i] # Empty =>
              line'[i] = IF tag[i] = Current THEN buf[call.done] ELSE line[i]
<1>1. /\ CallOK /\ TypeOK /\ call.done < call.count
      /\ Current \in Block /\ call.done \in BufIdx
  BY CurrentOnCard DEF IInv, TypeOK, CallOK, Busy
<1>2. ASSUME NEW i \in Slot, tag[i] # Empty
      PROVE  /\ tag[i] \in Block
             /\ Updates(i, 1) <=> tag[i] = Current
             /\ tag[i] = Current => call.done + (tag[i] - Current) = call.done
  <2>1. tag[i] \in Block /\ cache_idx(tag[i]) = i
    BY <1>2 DEF IInv, TypeOK, TagsInPlace
  <2>2. tag[i] - Current \in 0 .. 1 - 1 <=> tag[i] = Current
    BY <1>1, <2>1, SizesAssumption DEF Block
  <2>3. tag[i] = Current => call.done + (tag[i] - Current) = call.done
    BY <1>1, <2>1, SizesAssumption DEF Block, CallOK
  <2>4. QED
    BY <1>2, <2>1, <2>2, <2>3 DEF Updates
<1>3. \A i \in Slot : tag[i] # Empty =>
        line'[i] = IF tag[i] = Current THEN buf[call.done] ELSE line[i]
  BY <1>1, <1>2 DEF UpdateLines, CallOK
<1>4. \A i \in Slot : tag[i] = Empty => line'[i] = line[i]
  BY DEF UpdateLines, Updates
<1>5. line' \in [Slot -> Memory]
  BY <1>1, <1>3, <1>4 DEF TypeOK, UpdateLines
<1>6. QED
  BY <1>3, <1>5

\* A failed write: the slots may hold anything.
LEMMA UpdateLinesTyped ==
  ASSUME TypeOK, Busy("write"), NEW n \in Nat, UpdateLines(n)
  PROVE  line' \in [Slot -> Memory]
<1>1. CallOK /\ Current \in Block
  BY CurrentOnCard DEF TypeOK, Busy
<1>2. ASSUME NEW i \in Slot, Updates(i, n),
             call.done + (tag[i] - Current) < call.count
      PROVE  call.done + (tag[i] - Current) \in BufIdx
  BY <1>1, <1>2, SizesAssumption DEF TypeOK, CallOK, Updates, Block, BufIdx
<1>3. QED
  BY <1>2 DEF UpdateLines, TypeOK, Memory

\* The card after the write of the current block, done or failed.
LEMMA WritePassStep ==
  ASSUME IInv, Busy("write"),
         line' \in [Slot -> Memory], TagsInPlace', Coherent',
         failedWrite' \in BOOLEAN,
         UNCHANGED <<cached, tag, buf, overrun, before>>,
         \/ PassDone /\ disk' = [disk EXCEPT ![Current] = buf[call.done]]
         \/ /\ PassFailed
            /\ disk' \in {disk, [disk EXCEPT ![Current] = buf[call.done]]}
  PROVE  IInv'
<1> USE DEF IInv
<1>1. /\ CallOK /\ TypeOK /\ call.status = "busy" /\ call.op = "write"
      /\ call.done < call.count /\ Current \in Block /\ call.done \in BufIdx
  BY CurrentOnCard DEF TypeOK, CallOK, Busy
<1>2. buf[call.done] \in Data
  BY <1>1 DEF WriteBufferFilled, CallOK
<1>3. disk' \in [Block -> Data]
  BY <1>1, <1>2 DEF TypeOK
<1>4. \A b \in Block : b # Current => disk'[b] = disk[b]
  BY <1>1 DEF TypeOK
<1>5. \A i \in 0 .. call.done - 1 :
        call.start + i \in Block /\ call.start + i # Current
  BY <1>1, SizesAssumption DEF CallOK, Block, Current
<1>6. \A i \in 0 .. call.done - 1 : disk'[call.start + i] = buf[i]
  BY <1>1, <1>4, <1>5 DEF WritesAPrefix
<1>7. CASE PassDone /\ disk' = [disk EXCEPT ![Current] = buf[call.done]]
  <2>1. CallOK' /\ SameRequest /\ call'.done = call.done + 1
    BY <1>1, <1>7, PassDoneCall
  <2>2. TypeOK'
    BY <1>1, <1>3, <2>1 DEF TypeOK
  <2>3. WriteBufferFilled' /\ ReadsSeeDisk'
    BY <1>1, <2>1 DEF SameRequest, WriteBufferFilled, ReadsSeeDisk
  <2>4. disk'[Current] = buf[call.done]
    BY <1>1, <1>7 DEF TypeOK
  <2>5. Current' = Current + 1
    BY <1>1, <2>1 DEF Current, SameRequest, CallOK
  <2>6. \A i \in 0 .. call'.done - 1 : disk'[call'.start + i] = buf'[i]
    <3>1. SUFFICES ASSUME NEW i \in 0 .. call.done
                   PROVE  disk'[call.start + i] = buf[i]
      BY <1>1, <2>1 DEF SameRequest, CallOK
    <3>2. CASE i = call.done
      BY <2>4, <3>2 DEF Current
    <3>3. CASE i # call.done
      BY <1>1, <1>6, <3>3 DEF CallOK
    <3>4. QED
      BY <3>2, <3>3
  <2>7. \A b \in Block : b \in call'.start .. Current' - 1 \/ disk'[b] = before'[b]
    <3>1. SUFFICES ASSUME NEW b \in Block, b \notin call.start .. Current
                   PROVE  disk'[b] = before[b]
      BY <1>1, <2>1, <2>5 DEF SameRequest, CallOK, Block, Current
    <3>2. b # Current /\ b \notin call.start .. Current - 1
      BY <1>1, <3>1 DEF CallOK, Block, Current
    <3>3. disk[b] = before[b]
      BY <1>1, <3>1, <3>2 DEF WritesAPrefix
    <3>4. QED
      BY <1>4, <3>2, <3>3
  <2>8. WritesAPrefix'
    BY <2>6, <2>7 DEF WritesAPrefix
  <2>9. QED
    BY <2>2, <2>3, <2>8
<1>8. CASE PassFailed /\ disk' \in {disk, [disk EXCEPT ![Current] = buf[call.done]]}
  <2>1. CallOK' /\ SameRequest /\ call'.done = call.done /\ call'.status = "error"
    BY <1>1, <1>8, PassFailedCall
  <2>2. TypeOK'
    BY <1>1, <1>3, <2>1 DEF TypeOK
  <2>3. WriteBufferFilled' /\ ReadsSeeDisk'
    BY <1>1, <2>1 DEF SameRequest, WriteBufferFilled, ReadsSeeDisk
  <2>4. Current' = Current
    BY <2>1 DEF Current, SameRequest
  <2>5. disk'[Current] = disk[Current] \/ disk'[Current] = buf[call.done]
    BY <1>1, <1>8 DEF TypeOK
  <2>6. ASSUME NEW b \in Block
        PROVE  \/ b \in call.start .. Current - 1
               \/ disk'[b] = before[b]
               \/ b = Current /\ disk'[b] = buf[call.done]
    BY <1>1, <1>4, <2>5 DEF WritesAPrefix
  <2>7. WritesAPrefix'
    BY <1>6, <2>1, <2>4, <2>6 DEF WritesAPrefix, SameRequest
  <2>8. QED
    BY <2>2, <2>3, <2>7
<1>9. QED
  BY <1>7, <1>8

\* Every write of the device, with or without the cache.
LEMMA WriteStep ==
  ASSUME IInv, CacheWrite \/ CacheWriteFails \/ RawWrite
  PROVE  IInv'
<1>1. CASE CacheWrite
  <2>1. /\ Busy("write") /\ PassDone /\ UpdateLines(1)
        /\ disk' = [disk EXCEPT ![Current] = buf[call.done]]
        /\ UNCHANGED <<cached, tag, buf, overrun, failedWrite, before>>
    BY <1>1 DEF CacheWrite
  <2>2. /\ line' \in [Slot -> Memory]
        /\ \A i \in Slot : tag[i] # Empty =>
             line'[i] = IF tag[i] = Current THEN buf[call.done] ELSE line[i]
    BY <2>1, UpdateOneLine
  <2>3. TagsInPlace'
    BY <2>1 DEF IInv, TagsInPlace, cache_idx
  <2>4. Current \in Block
    BY <2>1, CurrentOnCard DEF IInv, Busy
  <2>5. Coherent'
    <3>1. SUFFICES ASSUME ~failedWrite, NEW i \in Slot, tag[i] # Empty
                   PROVE  line'[i] = disk'[tag[i]]
      BY <2>1 DEF Coherent, WriteThrough
    <3>2. tag[i] \in Block /\ line[i] = disk[tag[i]]
      BY <3>1 DEF IInv, TypeOK, Coherent, WriteThrough
    <3>3. QED
      BY <2>1, <2>2, <2>4, <3>1, <3>2 DEF IInv, TypeOK
  <2>6. failedWrite' \in BOOLEAN
    BY <2>1 DEF IInv, TypeOK
  <2>7. QED
    BY <2>1, <2>2, <2>3, <2>5, <2>6, WritePassStep
<1>2. CASE CacheWriteFails
  <2>1. /\ Busy("write") /\ PassFailed /\ UpdateLines(FailedBlockCount)
        /\ disk' \in {disk, [disk EXCEPT ![Current] = buf[call.done]]}
        /\ failedWrite' = TRUE
        /\ UNCHANGED <<cached, tag, buf, overrun, before>>
    BY <1>2 DEF CacheWriteFails
  <2>2. line' \in [Slot -> Memory]
    BY <2>1, UpdateLinesTyped DEF IInv, FailedBlockCount
  <2>3. TagsInPlace' /\ Coherent'
    BY <2>1 DEF IInv, TagsInPlace, cache_idx, Coherent
  <2>4. QED
    BY <2>1, <2>2, <2>3, WritePassStep
<1>3. CASE RawWrite
  <2>1. /\ Busy("write") /\ ~cached
        /\ UNCHANGED <<cached, tag, line, buf, overrun, before>>
    BY <1>3 DEF RawWrite
  <2>2. /\ line' \in [Slot -> Memory] /\ failedWrite' \in BOOLEAN
    BY <1>3, <2>1 DEF IInv, TypeOK, RawWrite
  <2>3. \A i \in Slot : tag[i] = Empty
    BY <2>1 DEF IInv, TagsInPlace
  <2>4. TagsInPlace' /\ Coherent'
    BY <2>1, <2>3 DEF TagsInPlace, Coherent, WriteThrough
  <2>5. \/ PassDone /\ disk' = [disk EXCEPT ![Current] = buf[call.done]]
        \/ /\ PassFailed
           /\ disk' \in {disk, [disk EXCEPT ![Current] = buf[call.done]]}
    BY <1>3 DEF RawWrite
  <2>6. QED
    BY <2>1, <2>2, <2>4, <2>5, WritePassStep
<1>4. QED
  BY <1>1, <1>2, <1>3

-------------------------------------------------------------------------------

\* The inductive invariant: every step of the block layer, the cache and their
\* caller preserves it.
LEMMA NextIInv == IInv /\ [Next]_vars => IInv'
<1> SUFFICES ASSUME IInv, [Next]_vars PROVE IInv'
  OBVIOUS
<1>1. CASE RequestRead \/ RequestWrite
  BY <1>1, RequestStep
<1>2. CASE ReadMulti \/ CacheReadHit \/ CacheReadMiss \/ CacheReadMissFails \/ RawRead
  BY <1>2, ReadStep
<1>3. CASE CacheWrite \/ CacheWriteFails \/ RawWrite
  BY <1>3, WriteStep
<1>4. CASE UNCHANGED vars
  BY <1>4 DEF vars, IInv, TypeOK, CallOK, TagsInPlace, WriteBufferFilled,
     Coherent, WriteThrough, ReadsSeeDisk, WritesAPrefix, Current, cache_idx
<1>5. QED
  BY <1>1, <1>2, <1>3, <1>4 DEF Next, Device

LEMMA InvariantIInv == Spec => []IInv
<1>1. Init => IInv
  BY InitIInv
<1>2. IInv /\ [Next]_vars => IInv'
  BY NextIInv
<1>3. QED
  BY <1>1, <1>2, PTL DEF Spec

\* Type correctness: every call stays on the card and within its buffer.
THEOREM TypeCorrect == Spec => []TypeOK
<1>1. IInv => TypeOK
  BY DEF IInv
<1>2. QED
  BY <1>1, InvariantIInv, PTL

\* cache_read and cache_write keep every cached block equal to the card's, for
\* any number of slots, until the card fails a write.
THEOREM CacheCoherent == Spec => []Coherent
<1>1. IInv => Coherent
  BY DEF IInv
<1>2. QED
  BY <1>1, InvariantIInv, PTL

\* block_read delivers what the card holds, whatever the cache has done.
THEOREM ReadsCorrect == Spec => []ReadsSeeDisk
<1>1. IInv => ReadsSeeDisk
  BY DEF IInv
<1>2. QED
  BY <1>1, InvariantIInv, PTL

\* block_write, finished or failed, has changed a prefix of its range and
\* nothing else.
THEOREM WritesCorrect == Spec => []WritesAPrefix
<1>1. IInv => WritesAPrefix
  BY DEF IInv
<1>2. QED
  BY <1>1, InvariantIInv, PTL

(***************************************************************************)
(* BlockCache implements BlockStore.                                       *)
(***************************************************************************)

\* The store starts as BlockStore says.
LEMMA InitRefines == Init => Store!Init
  BY DEF Init, Store!Init, Store!Block, Store!NoAnswer, Block, Requested, Written, Answered

\* A caller's request is one that BlockStore takes.
LEMMA RequestRefines ==
  ASSUME IInv, RequestRead \/ RequestWrite
  PROVE  \E r \in Store!Requests : Store!Ask(r)
<1>1. CallOK
  BY DEF IInv, TypeOK
<1>2. ASSUME NEW op \in {"read", "write"}, NEW start \in Block, NEW count \in 1 .. MaxCount,
             Request(op, start, count), Requested' \in Store!Requests
      PROVE  Store!Ask(Requested')
  <2>1. /\ call.status # "busy" /\ start + count <= NumBlocks
        /\ call' = [op |-> op, start |-> start, count |-> count, done |-> 0,
                    status |-> "busy"]
        /\ disk' = disk /\ failedWrite' = failedWrite
    BY <1>2 DEF Request
  <2>2. Requested'.start = start /\ Requested'.count = count
    BY <2>1 DEF Requested
  <2>3. Written' = 0 /\ Answered' = <<>>
    BY <2>1 DEF Written, Answered
  <2>4. QED
    BY <2>1, <2>2, <2>3 DEF Store!Ask, Store!NoAnswer
<1>3. CASE RequestRead
  <2>1. PICK start \in Block, count \in 1 .. MaxCount : Request("read", start, count)
    BY <1>3 DEF RequestRead
  <2>2. Requested' = [op |-> "read", start |-> start, count |-> count, data |-> <<>>]
    BY <2>1 DEF Request, Requested
  <2>3. Requested' \in Store!Requests
    BY <2>2 DEF Store!Requests, Store!Block, Store!NoAnswer, Block
  <2>4. QED
    BY <1>2, <2>1, <2>3
<1>4. CASE RequestWrite
  <2>1. PICK start \in Block, count \in 1 .. MaxCount :
          /\ Request("write", start, count)
          /\ \E data \in [0 .. count - 1 -> Data] :
               buf' = [i \in BufIdx |-> IF i < count THEN data[i] ELSE Junk]
    BY <1>4 DEF RequestWrite
  <2>2. PICK data \in [0 .. count - 1 -> Data] :
          buf' = [i \in BufIdx |-> IF i < count THEN data[i] ELSE Junk]
    BY <2>1
  <2>3. call' = [op |-> "write", start |-> start, count |-> count, done |-> 0,
                 status |-> "busy"]
    BY <2>1 DEF Request
  <2>4. Prefix(call.count)' = data
    BY <2>2, <2>3, SizesAssumption DEF Prefix, BufIdx
  <2>5. Requested' = [op |-> "write", start |-> start, count |-> count, data |-> data]
    BY <2>3, <2>4 DEF Requested
  <2>6. Requested' \in Store!Requests
    BY <2>5 DEF Store!Requests, Store!Block, Block
  <2>7. QED
    BY <1>2, <2>1, <2>6
<1>5. QED
  BY <1>3, <1>4

\* A call that goes on keeps its request: the data of a write stays in the buffer.
LEMMA SameRequested ==
  ASSUME IInv, SameRequest, call.op = "write" => buf' = buf
  PROVE  Requested' = Requested
  BY DEF SameRequest, Requested, Prefix

\* A pass of a read that delivers its blocks is no step of the store, or the answer.
LEMMA ReadRefines ==
  ASSUME IInv, IInv', Busy("read"), SameRequest,
         \/ call'.status = "busy"
         \/ call'.status = "ok" /\ call'.done = call.count,
         UNCHANGED <<disk, failedWrite>>
  PROVE  Store!AnswerRead \/ UNCHANGED Store!vars
<1>1. CallOK /\ call.status = "busy" /\ call.op = "read" /\ call'.op = "read"
  BY DEF IInv, TypeOK, Busy, SameRequest
<1>2. Requested' = Requested /\ Written' = Written /\ Written = 0
  BY <1>1, SameRequested DEF Written
<1>3. CASE call'.status = "busy"
  <2>1. Answered' = <<>> /\ Answered = <<>>
    BY <1>1, <1>3 DEF Answered
  <2>2. QED
    BY <1>1, <1>2, <1>3, <2>1 DEF Store!vars
<1>4. CASE call'.status = "ok" /\ call'.done = call.count
  <2>1. Answered' = [i \in 0 .. call.count - 1 |-> buf'[i]]
    BY <1>1, <1>4 DEF Answered, Prefix, SameRequest
  <2>2. ~failedWrite => \A i \in 0 .. call.count - 1 : buf'[i] = disk[call.start + i]
    BY <1>1, <1>4 DEF IInv, ReadsSeeDisk, SameRequest
  <2>3. Requested.op = "read" /\ Requested.start = call.start /\ Requested.count = call.count
    BY <1>1 DEF Requested
  <2>4. DOMAIN Answered' = 0 .. Requested.count - 1
    BY <2>1, <2>3
  <2>5. failedWrite \/ \A i \in 0 .. Requested.count - 1 :
                          Answered'[i] = disk[Requested.start + i]
    BY <2>1, <2>2, <2>3
  <2>6. QED
    BY <1>1, <1>2, <1>4, <2>3, <2>4, <2>5 DEF Store!AnswerRead
<1>5. QED
  BY <1>3, <1>4

\* A call that fails is refused.
LEMMA FailureRefines ==
  ASSUME IInv, call.status = "busy", PassFailed,
         \/ /\ call.op = "read" /\ UNCHANGED <<disk, failedWrite>>
         \/ /\ call.op = "write" /\ failedWrite' = TRUE /\ UNCHANGED buf
            /\ disk' \in {disk, [disk EXCEPT ![Current] = buf[call.done]]}
  PROVE  Store!Refuse
<1>1. CallOK /\ SameRequest /\ call'.done = call.done /\ call'.status = "error"
  BY PassFailedCall DEF IInv, TypeOK
<1>2. Requested' = Requested /\ Written' = Written
  BY <1>1, SameRequested DEF Written, SameRequest
<1>3. Answered' = <<>> /\ Answered = <<>>
  BY <1>1 DEF Answered
<1>4. Requested.op = call.op
  BY DEF Requested
<1>5. CASE call.op = "read"
  <2>1. UNCHANGED <<disk, failedWrite>> /\ failedWrite \in BOOLEAN
    BY <1>5 DEF IInv, TypeOK
  <2>2. QED
    BY <1>1, <1>2, <1>3, <1>4, <1>5, <2>1 DEF Store!Refuse
<1>6. CASE call.op = "write"
  <2>1. /\ Written = call.done /\ call.done \in 0 .. call.count - 1
        /\ Requested.start = call.start /\ Requested.data = Prefix(call.count)
    BY <1>1, <1>6 DEF Written, Requested, CallOK
  <2>2. Requested.data[Written] = buf[call.done] /\ Requested.start + Written = Current
    BY <2>1 DEF Prefix, Current
  <2>3. disk' = disk \/ Store!StoreNext
    BY <1>6, <2>2 DEF Store!StoreNext
  <2>4. failedWrite' = TRUE
    BY <1>6
  <2>5. QED
    BY <1>1, <1>2, <1>3, <1>4, <1>6, <2>3, <2>4 DEF Store!Refuse
<1>7. QED
  BY <1>5, <1>6

\* A pass of a write stores the next block.
LEMMA WriteRefines ==
  ASSUME IInv, Busy("write"), PassDone, UNCHANGED <<buf, failedWrite>>,
         disk' = [disk EXCEPT ![Current] = buf[call.done]]
  PROVE  Store!WriteBlock
<1>1. /\ CallOK /\ SameRequest /\ call'.done = call.done + 1
      /\ call.status = "busy" /\ call.op = "write" /\ call'.op = "write"
  BY PassDoneCall DEF IInv, TypeOK, Busy, SameRequest
<1>2. Requested' = Requested
  BY <1>1, SameRequested
<1>3. Answered' = <<>> /\ Answered = <<>>
  BY <1>1 DEF Answered
<1>4. Written = call.done /\ Written' = Written + 1 /\ call.done \in 0 .. call.count - 1
  BY <1>1 DEF Written, CallOK
<1>5. /\ Requested.op = "write" /\ Requested.start = call.start
      /\ Requested.count = call.count /\ Requested.data = Prefix(call.count)
  BY <1>1 DEF Requested
<1>6. Requested.data[Written] = buf[call.done] /\ Requested.start + Written = Current
  BY <1>4, <1>5 DEF Prefix, Current
<1>7. Store!StoreNext
  BY <1>6 DEF Store!StoreNext
<1>8. call'.status = IF Written' = Requested.count THEN "ok" ELSE "busy"
  BY <1>1, <1>4, <1>5 DEF PassDone, CallOK
<1>9. QED
  BY <1>1, <1>2, <1>3, <1>4, <1>5, <1>7, <1>8 DEF Store!WriteBlock

\* Every step of the cached device is a step of the store or none.
LEMMA DeviceRefines ==
  ASSUME IInv, IInv', Device
  PROVE  Store!AnswerRead \/ Store!WriteBlock \/ Store!Refuse \/ UNCHANGED Store!vars
<1>1. CallOK
  BY DEF IInv, TypeOK
\* The ends of a pass of block_read's loop.
<1>2. ASSUME Busy("read"), PassDone, UNCHANGED <<disk, failedWrite>>
      PROVE  Store!AnswerRead \/ UNCHANGED Store!vars
  <2>1. SameRequest /\ call'.done = call.done + 1
    BY <1>1, <1>2, PassDoneCall DEF Busy
  <2>2. call'.status = IF call.done + 1 = call.count THEN "ok" ELSE "busy"
    BY <1>1, <1>2 DEF PassDone, CallOK
  <2>3. QED
    BY <1>2, <2>1, <2>2, ReadRefines
<1>3. ASSUME Busy("read"), PassFailed, UNCHANGED <<disk, failedWrite>>
      PROVE  Store!Refuse
  BY <1>3, FailureRefines DEF Busy
<1>4. CASE ReadMulti
  <2>1. Busy("read") /\ UNCHANGED <<disk, failedWrite>>
    BY <1>4 DEF ReadMulti
  <2>2. CASE call' = [call EXCEPT !.done = call.count, !.status = "ok"]
    <3>1. SameRequest /\ call'.status = "ok" /\ call'.done = call.count
      BY <1>1, <2>2 DEF CallOK, SameRequest
    <3>2. QED
      BY <2>1, <3>1, ReadRefines
  <2>3. CASE PassFailed
    BY <1>3, <2>1, <2>3
  <2>4. QED
    BY <1>4, <2>2, <2>3 DEF ReadMulti
<1>5. CASE CacheReadHit \/ CacheReadMiss
  <2>1. Busy("read") /\ PassDone /\ UNCHANGED <<disk, failedWrite>>
    BY <1>5 DEF CacheReadHit, CacheReadMiss, ReadPass
  <2>2. QED
    BY <1>2, <2>1
<1>6. CASE CacheReadMissFails
  <2>1. Busy("read") /\ PassFailed /\ UNCHANGED <<disk, failedWrite>>
    BY <1>6 DEF CacheReadMissFails, ReadPass
  <2>2. QED
    BY <1>3, <2>1
<1>7. CASE RawRead
  <2>1. Busy("read") /\ (PassDone \/ PassFailed) /\ UNCHANGED <<disk, failedWrite>>
    BY <1>7 DEF RawRead, ReadPass
  <2>2. QED
    BY <1>2, <1>3, <2>1
<1>8. CASE CacheWrite
  BY <1>8, WriteRefines DEF CacheWrite
<1>9. CASE CacheWriteFails
  <2>1. /\ Busy("write") /\ PassFailed /\ failedWrite' = TRUE /\ UNCHANGED buf
        /\ disk' \in {disk, [disk EXCEPT ![Current] = buf[call.done]]}
    BY <1>9 DEF CacheWriteFails
  <2>2. QED
    BY <2>1, FailureRefines DEF Busy
<1>10. CASE RawWrite
  <2>1. /\ Busy("write") /\ UNCHANGED buf
        /\ \/ /\ PassDone /\ UNCHANGED failedWrite
              /\ disk' = [disk EXCEPT ![Current] = buf[call.done]]
           \/ /\ PassFailed /\ failedWrite' = TRUE
              /\ disk' \in {disk, [disk EXCEPT ![Current] = buf[call.done]]}
    BY <1>10 DEF RawWrite
  <2>2. QED
    BY <2>1, WriteRefines, FailureRefines DEF Busy
<1>11. QED
  BY <1>4, <1>5, <1>6, <1>7, <1>8, <1>9, <1>10 DEF Device

\* The store's variables are functions of those of the cached device.
LEMMA StutterRefines == ASSUME UNCHANGED vars PROVE UNCHANGED Store!vars
  BY DEF vars, Store!vars, Requested, Written, Answered, Prefix

\* Every step of the callers and the device, with or without the cache and with
\* whatever failures of the card, is a step of BlockStore or leaves it alone.
LEMMA NextRefines == IInv /\ IInv' /\ [Next]_vars => [Store!Next]_(Store!vars)
<1> SUFFICES ASSUME IInv, IInv', [Next]_vars PROVE [Store!Next]_(Store!vars)
  OBVIOUS
<1>1. CASE RequestRead \/ RequestWrite
  BY <1>1, RequestRefines DEF Store!Next
<1>2. CASE Device
  BY <1>2, DeviceRefines DEF Store!Next
<1>3. CASE UNCHANGED vars
  BY <1>3, StutterRefines
<1>4. QED
  BY <1>1, <1>2, <1>3 DEF Next

\* The block layer over the cache over a failing card implements a plain store of
\* blocks, for any number of blocks, slots and any length of request.
THEOREM CacheImplementsStore == Spec => ImplementsBlockStore
<1>1. Spec => []IInv
  BY InvariantIInv
<1>2. QED
  BY <1>1, InitRefines, NextRefines, PTL DEF Spec, ImplementsBlockStore, Store!Spec

-------------------------------------------------------------------------------
(***************************************************************************)
(* Memory, for every size of memory and every report of the firmware, as   *)
(* long as no caller asks for a chunk beyond the last address.  The        *)
(* inductive invariant, MemoryIInv, has the properties in terms of bounds. *)
(***************************************************************************)

-------------------------------------------------------------------------------
(***************************************************************************)
(* The interval tests of memchunk.c mean what they should where nothing    *)
(* wraps.                                                                  *)
(***************************************************************************)

\* A chunk that does not wrap and is found in a free region lies in a reported
\* one (chunk_contains).
LEMMA ContainedIsInside ==
  ASSUME MemoryTypeOK, FreeSound,
         NEW c \in Chunk, c.start + c.length < Size,
         NEW f \in free, Contains(c, f)
  PROVE  c.start >= Low /\ \E r \in reported : Inside(c, r)
<1> USE ConstantsAssumption
<1>1. f.start \in Nat /\ f.length \in Nat /\ End(f) \in Nat
  <2>1. f \in Chunk
    BY DEF MemoryTypeOK
  <2> QED BY <2>1 DEF Chunk, Addresses, End, Plus
<1>2. c.start \in Nat /\ c.length \in Nat
  BY DEF Chunk, Addresses
<1>3. c.start >= f.start /\ c.start + c.length <= End(f)
  BY <1>1, <1>2 DEF Contains, End, Plus
<1>4. f.start >= Low /\ ~(End(f) < Low)
  BY <1>1, <1>2, <1>3 DEF FreeSound
<1>5. PICK r \in reported : f.start + f.length < Size /\ Inside(f, r)
  BY <1>4 DEF FreeSound
<1>6. r.start \in Nat /\ r.length \in Nat
  BY DEF MemoryTypeOK, Chunk, Addresses
<1>7. End(f) = f.start + f.length
  BY <1>5, <1>1 DEF End, Plus
<1>8. Inside(c, r)
  BY <1>1, <1>2, <1>3, <1>5, <1>6, <1>7 DEF Inside
<1> QED BY <1>1, <1>2, <1>3, <1>4, <1>8

\* chunk_overlaps misses no overlap.
LEMMA NoOverlapIsApart ==
  ASSUME NEW c \in Chunk, c.start + c.length < Size,
         NEW d \in Chunk, d.start + d.length < Size,
         ~Overlaps(c, d)
  PROVE  Apart(c, d) /\ Apart(d, c)
BY ConstantsAssumption DEF Overlaps, Apart, End, Plus, Chunk, Addresses

\* Chunks that are apart share no byte.
LEMMA ApartIsDisjoint ==
  ASSUME NEW c \in Chunk, NEW d \in Chunk, Apart(c, d)
  PROVE  Bytes(c) \cap Bytes(d) = {}
BY ConstantsAssumption DEF Apart, Bytes, Chunk, Addresses

\* A chunk within bounds keeps its bytes there.
LEMMA BoundedBytes ==
  ASSUME NEW c \in Chunk, NEW m \in Nat, NEW n \in Nat,
         m <= c.start, c.start + c.length <= n
  PROVE  Bytes(c) \subseteq m .. n - 1
<1>1. c.start \in Nat /\ c.length \in Nat
  BY ConstantsAssumption DEF Chunk, Addresses
<1> QED BY <1>1 DEF Bytes

\* mem_cb registers part of what was reported, or a region whose end wraps.
LEMMA UsableIsSound ==
  ASSUME NEW r \in Regions, NEW f, f = Usable(r)
  PROVE  /\ f \in Chunk /\ f.start >= Low /\ End(f) \in Addresses
         /\ End(f) < Low \/ (f.start + f.length < Size /\ Inside(f, r))
<1>1. /\ Size \in Nat /\ Low \in Nat /\ 0 < Low /\ Low < Size
      /\ r \in Chunk /\ r.start \in Nat /\ r.length \in Nat
      /\ r.start < Size /\ r.length < Size
      /\ r.start + r.length <= Size
  BY ConstantsAssumption DEF Chunk, Addresses
<1>2. CASE r.start >= Low
  <2>1. f = r
    BY <1>1, <1>2 DEF Usable
  <2> QED BY <1>1, <1>2, <2>1 DEF Inside, End, Plus, Chunk, Addresses
<1>3. CASE r.start < Low /\ Low <= r.length
  <2>1. f = [start |-> Low, length |-> r.length - Low]
    BY <1>1, <1>3 DEF Usable, Minus
  <2>2. f.start = Low /\ f.length = r.length - Low
    BY <2>1
  <2>3. End(f) = r.length /\ f \in Chunk
    BY <1>1, <1>3, <2>1, <2>2 DEF End, Plus, Chunk, Addresses
  <2> QED BY <1>1, <1>3, <2>2, <2>3 DEF Inside, Addresses
<1>4. CASE r.start < Low /\ r.length < Low
  <2>1. f = [start |-> Low, length |-> Size + r.length - Low]
    BY <1>1, <1>4 DEF Usable, Minus
  <2>2. f.start = Low /\ f.length = Size + r.length - Low
    BY <2>1
  <2>3. End(f) = r.length /\ f \in Chunk
    BY <1>1, <1>4, <2>1, <2>2 DEF End, Plus, Chunk, Addresses
  <2>4. End(f) \in Addresses /\ f.start >= Low /\ End(f) < Low
    BY <1>1, <1>4, <2>2, <2>3 DEF Addresses
  <2> QED BY <2>3, <2>4
<1> QED BY <1>1, <1>2, <1>3, <1>4

-------------------------------------------------------------------------------
(***************************************************************************)
(* The invariant holds.                                                    *)
(***************************************************************************)
THEOREM InitInv == MemoryInit => MemoryIInv
<1> SUFFICES ASSUME MemoryInit PROVE MemoryIInv
  OBVIOUS
<1> USE ConstantsAssumption DEF MemoryInit
<1>1. /\ used \in Seq(Chunk) /\ Len(used) = 0
      /\ bufs \in Seq(Chunk) /\ Len(bufs) = 0
  OBVIOUS
<1>2. MemoryTypeOK
  <2>1. 0 \in Addresses /\ max_free = 0 /\ cur_buf \in Nat /\ cur_brk \in Nat
    BY DEF Addresses
  <2>2. last \in [call : {"none", "at", "any"}, length : Addresses, got : Addresses]
    BY <2>1
  <2>3. reported \subseteq Regions /\ free \subseteq Chunk /\ booted \in BOOLEAN
    OBVIOUS
  <2>4. Len(used) + Len(bufs) <= MaxCalls
    BY <1>1
  <2> HIDE DEF MemoryInit
  <2> QED BY <1>1, <2>1, <2>2, <2>3, <2>4 DEF MemoryTypeOK
<1>3. FreeSound /\ UsedSound /\ UsedApart
  BY <1>1 DEF FreeSound, UsedSound, UsedApart
<1>4. BufsSound /\ HeapSound
  BY <1>1 DEF BufsSound, HeapSound
<1> QED BY <1>2, <1>3, <1>4 DEF MemoryIInv

LEMMA MemCbInv == ASSUME MemoryIInv, NEW r \in Regions, MemCb(r) PROVE MemoryIInv'
<1> USE ConstantsAssumption DEF MemoryIInv, MemCb, RegisterFree
<1>0. PICK f : f = Usable(r)
  OBVIOUS
<1>1. /\ f \in Chunk /\ f.start >= Low /\ End(f) \in Addresses
      /\ End(f) < Low \/ (f.start + f.length < Size /\ Inside(f, r))
  BY <1>0, UsableIsSound
<1>2. MemoryTypeOK'
  BY <1>0, <1>1 DEF MemoryTypeOK
<1>3. FreeSound'
  BY <1>0, <1>1 DEF FreeSound, End
<1>4. UsedSound' /\ UsedApart'
  BY DEF UsedSound, UsedApart
<1>5. BufsSound' /\ HeapSound'
  BY DEF BufsSound, HeapSound
<1> QED BY <1>2, <1>3, <1>4, <1>5

\* Both calls for a chunk grant only a chunk that can be allocated.
LEMMA GrantInv ==
  ASSUME MemoryIInv, NEW c \in Chunk, c.start + c.length < Size, CanAllocate(c),
         NEW kind \in {"at", "any"}, Grant(kind, c), Requesting, ChunkFrame
  PROVE  MemoryIInv'
<1> USE ConstantsAssumption DEF MemoryIInv, ChunkFrame
<1>1. /\ used \in Seq(Chunk) /\ used' = Append(used, c)
      /\ Len(used') = Len(used) + 1 /\ Len(used) \in Nat
      /\ \A i \in 1 .. Len(used) : used'[i] = used[i] /\ used[i] \in Chunk
      /\ used'[Len(used) + 1] = c
  BY DEF Grant, MemoryTypeOK
<1>2. c.start >= Low /\ \E r \in reported : Inside(c, r)
  BY ContainedIsInside DEF CanAllocate
<1>3. \A i \in 1 .. Len(used) : Apart(c, used[i]) /\ Apart(used[i], c)
  BY <1>1, NoOverlapIsApart DEF CanAllocate, UsedSound
<1>4. MemoryTypeOK'
  BY <1>1 DEF MemoryTypeOK, Grant, Requesting, Chunk
<1>5. FreeSound'
  BY DEF FreeSound, End
<1>6. UsedSound'
  BY SMTT(30), <1>1, <1>2 DEF UsedSound
<1>7. UsedApart'
  <2>1. \A i, j \in 1 .. Len(used) : i # j => Apart(used[i], used[j])
    BY DEF UsedApart
  <2> HIDE ConstantsAssumption DEF MemoryIInv, ChunkFrame
  <2> SUFFICES ASSUME NEW i \in 1 .. Len(used) + 1, NEW j \in 1 .. Len(used) + 1, i # j
               PROVE  Apart(used'[i], used'[j])
    BY <1>1 DEF UsedApart
  <2>2. CASE i \in 1 .. Len(used) /\ j \in 1 .. Len(used)
    <3>1. Apart(used[i], used[j])
      BY <2>1, <2>2
    <3> QED BY <1>1, <2>2, <3>1
  <2>3. CASE i = Len(used) + 1 /\ j \in 1 .. Len(used)
    BY <1>1, <1>3, <2>3
  <2>4. CASE j = Len(used) + 1 /\ i \in 1 .. Len(used)
    BY <1>1, <1>3, <2>4
  <2>5. \/ i \in 1 .. Len(used) /\ j \in 1 .. Len(used)
        \/ i = Len(used) + 1 /\ j \in 1 .. Len(used)
        \/ j = Len(used) + 1 /\ i \in 1 .. Len(used)
    BY <1>1
  <2> QED BY <2>2, <2>3, <2>4, <2>5
<1>8. BufsSound' /\ HeapSound'
  BY DEF BufsSound, HeapSound
<1> QED BY <1>4, <1>5, <1>6, <1>7, <1>8

LEMMA RefuseInv ==
  ASSUME MemoryIInv, NEW length \in Addresses, NEW kind \in {"at", "any"},
         Refuse(kind, length), ChunkFrame
  PROVE  MemoryIInv'
BY ConstantsAssumption
DEF MemoryIInv, Refuse, ChunkFrame, MemoryTypeOK, FreeSound, UsedSound, UsedApart, BufsSound,
    HeapSound, End, Addresses

LEMMA ChunkGetChunkInv ==
  ASSUME MemoryIInv, ~Wrapping, NEW c \in Chunk, ChunkGetChunk(c)
  PROVE  MemoryIInv'
<1>1. CASE CanAllocate(c)
  BY <1>1, GrantInv DEF ChunkGetChunk, Fits
<1>2. CASE ~CanAllocate(c)
  <2>1. c.length \in Addresses
    BY DEF Chunk
  <2> QED BY <1>2, <2>1, RefuseInv DEF ChunkGetChunk
<1> QED BY <1>1, <1>2

LEMMA ChunkGetAnyChunkInv ==
  ASSUME MemoryIInv, ~Wrapping, NEW n \in Addresses, ChunkGetAnyChunk(n)
  PROVE  MemoryIInv'
<1> DEFINE At(a) == [start |-> a, length |-> n]
           can == {a \in Pages : CanAllocate(At(a))}
<1>1. CASE \E a \in can : Grant("any", At(a))
  <2>1. PICK a \in can : Grant("any", At(a))
    BY <1>1
  <2>2. a \in Pages /\ a \in Addresses /\ CanAllocate(At(a))
    BY DEF Pages
  <2>3. At(a) \in Chunk
    BY <2>2 DEF Chunk
  <2>4. At(a).start + At(a).length < Size
    BY <2>2 DEF ChunkGetAnyChunk, Fits
  <2>5. Requesting /\ ChunkFrame
    BY DEF ChunkGetAnyChunk
  <2> HIDE DEF At
  <2> QED BY <2>1, <2>2, <2>3, <2>4, <2>5, GrantInv
<1>2. CASE Refuse("any", n)
  BY <1>2, RefuseInv DEF ChunkGetAnyChunk
<1> QED BY <1>1, <1>2 DEF ChunkGetAnyChunk

LEMMA SbrkInv == ASSUME MemoryIInv, NEW n \in 0 .. Low, Sbrk(n) PROVE MemoryIInv'
BY ConstantsAssumption
DEF MemoryIInv, Sbrk, HeapFrame, MemoryTypeOK, FreeSound, UsedSound, UsedApart, BufsSound,
    HeapSound, End

LEMMA AllocBufInv == ASSUME MemoryIInv, NEW n \in 0 .. Low, AllocBuf(n) PROVE MemoryIInv'
<1> USE DEF MemoryIInv
<1> DEFINE b == [start |-> cur_buf, length |-> n]
<1>1. /\ MaxBrk \in Nat /\ Low \in Nat /\ n \in Nat
      /\ cur_buf \in Nat /\ MaxBrk <= cur_buf /\ cur_buf + n <= Low
      /\ cur_buf' \in Nat /\ cur_buf + n <= cur_buf' /\ cur_buf' <= Low
  <2>1. /\ cur_buf \in Nat /\ MaxBrk <= cur_buf /\ cur_buf + n <= Low
        /\ cur_buf + n \in 0 .. Low
    BY ConstantsAssumption DEF BufsSound, Room, AllocBuf
  <2>2. cur_buf' = RoundUp(cur_buf + n, Align)
    BY DEF AllocBuf
  <2>3. cur_buf' \in cur_buf + n .. Low
    BY <2>1, <2>2, ConstantsAssumption
  <2>4. MaxBrk \in Nat /\ Low \in Nat
    BY ConstantsAssumption
  <2> QED BY <2>1, <2>3, <2>4
<1>2. b \in Chunk
  BY <1>1, ConstantsAssumption DEF Chunk, Addresses
<1>3. /\ bufs \in Seq(Chunk) /\ bufs' = Append(bufs, b)
      /\ Len(bufs') = Len(bufs) + 1 /\ Len(bufs) \in Nat
      /\ \A i \in 1 .. Len(bufs) : bufs'[i] = bufs[i] /\ bufs[i] \in Chunk
      /\ bufs'[Len(bufs) + 1] = b
  BY <1>2 DEF MemoryTypeOK, AllocBuf
<1>4. MemoryTypeOK'
  <2>1. Len(used) \in Nat /\ MaxCalls \in Nat
    BY ConstantsAssumption DEF MemoryTypeOK
  <2>2. Len(used') + Len(bufs') <= MaxCalls
    BY <1>3, <2>1 DEF AllocBuf, HeapFrame
  <2>3. bufs' \in Seq(Chunk)
    BY <1>2, <1>3
  <2> QED BY <1>1, <2>2, <2>3 DEF MemoryTypeOK, AllocBuf, HeapFrame
<1>5. FreeSound' /\ UsedSound' /\ UsedApart' /\ HeapSound'
  BY DEF FreeSound, UsedSound, UsedApart, HeapSound, End, AllocBuf, HeapFrame
<1>6. \A i \in 1 .. Len(bufs) : Apart(bufs[i], b) /\ Apart(b, bufs[i])
  BY <1>3 DEF BufsSound, Apart
<1>7. BufsSound'
  <2>1. \A i \in 1 .. Len(bufs) + 1 :
          MaxBrk <= bufs'[i].start /\ bufs'[i].start + bufs'[i].length <= cur_buf'
    <3> TAKE i \in 1 .. Len(bufs) + 1
    <3>1. CASE i <= Len(bufs)
      <4>1. bufs[i] \in Chunk /\ bufs[i].start + bufs[i].length \in Nat
        <5>1. bufs[i] \in Chunk
          BY <1>3, <3>1
        <5>2. Size \in Nat
          BY ConstantsAssumption
        <5> QED BY <5>1, <5>2 DEF Chunk, Addresses
      <4>2. MaxBrk <= bufs[i].start /\ bufs[i].start + bufs[i].length <= cur_buf
        BY <1>3, <3>1 DEF BufsSound
      <4>3. bufs'[i] = bufs[i]
        BY <1>3, <3>1
      <4> QED BY <1>1, <4>1, <4>2, <4>3
    <3>2. CASE i = Len(bufs) + 1
      <4>1. bufs'[i] = b
        BY <1>3, <3>2
      <4>2. bufs'[i].start = cur_buf /\ bufs'[i].length = n
        BY <4>1
      <4> QED BY <1>1, <4>2
    <3> QED BY <1>3, <3>1, <3>2
  <2>2. \A i, j \in 1 .. Len(bufs) + 1 : i # j => Apart(bufs'[i], bufs'[j])
    <3> SUFFICES ASSUME NEW i \in 1 .. Len(bufs) + 1, NEW j \in 1 .. Len(bufs) + 1, i # j
                 PROVE  Apart(bufs'[i], bufs'[j])
      OBVIOUS
    <3>1. CASE i <= Len(bufs) /\ j <= Len(bufs)
      <4>1. i \in 1 .. Len(bufs) /\ j \in 1 .. Len(bufs)
        BY <1>3, <3>1
      <4>2. bufs'[i] = bufs[i] /\ bufs'[j] = bufs[j]
        BY <1>3, <4>1
      <4> QED BY <4>1, <4>2 DEF BufsSound
    <3>2. CASE i = Len(bufs) + 1
      BY <1>3, <1>6, <3>2
    <3>3. CASE j = Len(bufs) + 1
      BY <1>3, <1>6, <3>3
    <3>4. Len(bufs) \in Nat
      BY <1>3
    <3> QED BY <3>1, <3>2, <3>3, <3>4
  <2>3. cur_buf' \in MaxBrk .. Low
    BY <1>1
  <2>4. Len(bufs') = Len(bufs) + 1
    BY <1>3
  <2> QED BY <2>1, <2>2, <2>3, <2>4 DEF BufsSound
<1> QED BY <1>4, <1>5, <1>7

LEMMA NextInv == ASSUME MemoryIInv, ~Wrapping, [MemoryNext]_memoryVars PROVE MemoryIInv'
<1>1. CASE \E r \in Regions : MemCb(r)
  BY <1>1, MemCbInv
<1>2. CASE Boot
  BY <1>2, ConstantsAssumption
  DEF Boot, MemoryIInv, MemoryTypeOK, FreeSound, UsedSound, UsedApart, BufsSound, HeapSound, End
<1>3. CASE \E c \in Chunk : ChunkGetChunk(c)
  BY <1>3, ChunkGetChunkInv
<1>4. CASE \E n \in Addresses : ChunkGetAnyChunk(n)
  BY <1>4, ChunkGetAnyChunkInv
<1>5. CASE \E n \in 0 .. Low : Sbrk(n)
  BY <1>5, SbrkInv
<1>6. CASE \E n \in 0 .. Low : AllocBuf(n)
  BY <1>6, AllocBufInv
<1>7. CASE UNCHANGED memoryVars
  BY <1>7
  DEF memoryVars, MemoryIInv, MemoryTypeOK, FreeSound, UsedSound, UsedApart, BufsSound, HeapSound, End
<1> QED BY <1>1, <1>2, <1>3, <1>4, <1>5, <1>6, <1>7 DEF MemoryNext

\* The invariant of chunk_register_free, chunk_get_chunk, chunk_get_any_chunk, sbrk and
\* alloc_buf holds in every behaviour without chunks that wrap.
THEOREM Invariance == ASSUME ~Wrapping PROVE MemorySpec => []MemoryIInv
<1>1. MemoryIInv /\ [MemoryNext]_memoryVars => MemoryIInv'
  BY NextInv
<1> QED BY InitInv, <1>1, PTL DEF MemorySpec

-------------------------------------------------------------------------------
(***************************************************************************)
(* The theorems.                                                           *)
(***************************************************************************)

\* Every variable keeps its type: max_free, in particular, stays an address
\* although the ends of regions wrap (memchunk.c, heap.c).
THEOREM MemoryTypeCorrect == ASSUME ~Wrapping PROVE MemorySpec => []MemoryTypeOK
<1>1. MemoryIInv => MemoryTypeOK
  BY DEF MemoryIInv
<1> QED BY Invariance, <1>1, PTL

\* Every chunk handed out is reported memory above the first MiB (mem_cb,
\* chunk_get_chunk, chunk_get_any_chunk).
THEOREM ChunksAreMemory == ASSUME ~Wrapping PROVE MemorySpec => []ChunksInMemory
<1>1. MemoryIInv => ChunksInMemory
  <2> SUFFICES ASSUME MemoryIInv, NEW i \in 1 .. Len(used)
               PROVE  /\ used[i].start >= Low
                      /\ \E r \in reported : Bytes(used[i]) \subseteq Bytes(r)
    BY DEF ChunksInMemory
  <2>1. PICK r \in reported : Inside(used[i], r)
    BY DEF MemoryIInv, UsedSound
  <2>2. used[i] \in Chunk /\ r \in Chunk
    BY ConstantsAssumption DEF MemoryIInv, MemoryTypeOK
  <2>3. r.start \in Nat /\ r.start + r.length \in Nat
    BY <2>2, ConstantsAssumption DEF Chunk, Addresses
  <2>4. Bytes(used[i]) \subseteq r.start .. (r.start + r.length) - 1
    BY <2>1, <2>2, <2>3, BoundedBytes DEF Inside
  <2>5. r.start \in Nat /\ r.length \in Nat
    BY <2>2, ConstantsAssumption DEF Chunk, Addresses
  <2>6. Bytes(r) = r.start .. (r.start + r.length) - 1
    BY <2>5 DEF Bytes
  <2> QED BY <2>4, <2>6 DEF MemoryIInv, UsedSound
<1> QED BY Invariance, <1>1, PTL

\* No two chunks handed out share a byte (chunk_overlaps).
THEOREM ChunksAreDisjoint == ASSUME ~Wrapping PROVE MemorySpec => []ChunksDisjoint
<1>1. MemoryIInv => ChunksDisjoint
  <2> SUFFICES ASSUME MemoryIInv, NEW i \in 1 .. Len(used), NEW j \in 1 .. Len(used), i # j
               PROVE  Bytes(used[i]) \cap Bytes(used[j]) = {}
    BY DEF ChunksDisjoint
  <2>1. used[i] \in Chunk /\ used[j] \in Chunk
    BY DEF MemoryIInv, MemoryTypeOK
  <2> QED BY <2>1, ApartIsDisjoint DEF MemoryIInv, UsedApart
<1> QED BY Invariance, <1>1, PTL

\* Heap and buffers keep to their parts of the first MiB (sbrk, alloc_buf).
THEOREM LowMemoryIsApart == ASSUME ~Wrapping PROVE MemorySpec => []LowMemory
<1>1. MemoryIInv => LowMemory
  <2> SUFFICES ASSUME MemoryIInv PROVE LowMemory
    OBVIOUS
  <2>1. \A i \in 1 .. Len(bufs) : bufs[i] \in Chunk
    BY DEF MemoryIInv, MemoryTypeOK
  <2>2. \A i \in 1 .. Len(bufs) : Bytes(bufs[i]) \subseteq MaxBrk .. cur_buf - 1
    <3> TAKE i \in 1 .. Len(bufs)
    <3>1. MaxBrk \in Nat /\ cur_buf \in Nat
      BY ConstantsAssumption DEF MemoryIInv, MemoryTypeOK
    <3>2. MaxBrk <= bufs[i].start /\ bufs[i].start + bufs[i].length <= cur_buf
      BY DEF MemoryIInv, BufsSound
    <3> QED BY <2>1, <3>1, <3>2, BoundedBytes
  <2>3. \A i, j \in 1 .. Len(bufs) :
          i # j => Bytes(bufs[i]) \cap Bytes(bufs[j]) = {}
    BY <2>1, ApartIsDisjoint DEF MemoryIInv, BufsSound
  <2> QED BY <2>2, <2>3 DEF MemoryIInv, BufsSound, HeapSound, LowMemory
<1> QED BY Invariance, <1>1, PTL

-------------------------------------------------------------------------------
(***************************************************************************)
(* The search of chunk_get_any_chunk.                                      *)
(***************************************************************************)

\* What the search rests on: its bound is kept over every free region, and no
\* region comes to the list once a chunk has been asked for.
SearchSound ==
  /\ last.call # "none" => booted
  /\ \A f \in free : End(f) <= max_free
  /\ RefusedOnlyWhenFull

\* A chunk that overlaps a used one, in the wrapping test, touches its bytes.
LEMMA OverlapIsTouch ==
  ASSUME NEW a \in Nat, NEW n \in Nat \ {0}, a + n < Size,
         NEW d \in Chunk, d.start + d.length < Size,
         Overlaps([start |-> a, length |-> n], d)
  PROVE  d.start \in a .. a + n - 1 \/ (a .. a + n - 1) \cap Bytes(d) # {}
<1>1. d.start \in Nat /\ d.length \in Nat /\ Size \in Nat
  BY ConstantsAssumption DEF Chunk, Addresses
<1>2. a < d.start + d.length /\ a + n > d.start
  BY <1>1 DEF Overlaps, End, Plus
<1>3. CASE d.start >= a
  BY <1>1, <1>2, <1>3
<1>4. CASE d.start < a
  <2>1. a \in a .. a + n - 1 /\ a \in Bytes(d)
    BY <1>1, <1>2, <1>4 DEF Bytes
  <2>2. QED
    BY <2>1
<1>5. QED
  BY <1>1, <1>3, <1>4

\* The search has tried every place within a region before it refuses.
LEMMA RefusedIsFull ==
  ASSUME MemoryIInv, SearchSound, ~Wrapping, NEW n \in Addresses, n > 0,
         \A a \in Pages : ~CanAllocate([start |-> a, length |-> n]),
         NEW a \in Low .. Size - 1, NEW f \in free, a % Page = 0,
         f.start + f.length < Size, a .. a + n - 1 \subseteq Bytes(f)
  PROVE  \E i \in 1 .. Len(used) :
           \/ used[i].start \in a .. a + n - 1
           \/ (a .. a + n - 1) \cap Bytes(used[i]) # {}
<1> DEFINE c == [start |-> a, length |-> n]
<1>1. /\ Size \in Nat /\ Low \in Nat /\ a \in Nat /\ n \in Nat /\ a \in Addresses
      /\ f \in Chunk /\ max_free \in Nat /\ n >= 1
  BY ConstantsAssumption DEF MemoryIInv, MemoryTypeOK, Addresses
<1>2. f.start \in Nat /\ f.length \in Nat
  BY <1>1 DEF Chunk, Addresses
<1>3. f.start <= a /\ a + n <= f.start + f.length
  <2>1. a \in Bytes(f) /\ a + n - 1 \in Bytes(f)
    BY <1>1
  <2>2. QED
    BY <1>1, <1>2, <2>1 DEF Bytes
<1>4. End(f) = f.start + f.length /\ End(f) <= max_free
  BY <1>2 DEF End, Plus, SearchSound
<1>5. a \in Pages
  BY <1>1, <1>2, <1>3, <1>4 DEF Pages
<1>6. Contains(c, f)
  <2>1. End(c) = a + n
    BY <1>1, <1>2, <1>3 DEF End, Plus
  <2>2. QED
    BY <1>3, <1>4, <2>1 DEF Contains
<1>7. PICK i \in 1 .. Len(used) : Overlaps(c, used[i])
  <2>1. ~CanAllocate(c)
    BY <1>5
  <2>2. QED
    BY <1>6, <2>1 DEF CanAllocate
<1>8. used[i] \in Chunk /\ used[i].start + used[i].length < Size
  BY DEF MemoryIInv, MemoryTypeOK, UsedSound
<1>9. a + n < Size /\ n \in Nat \ {0}
  BY <1>1, <1>2, <1>3
<1>10. QED
  BY <1>1, <1>7, <1>8, <1>9, OverlapIsTouch

\* A refusal stays justified: chunks are never given back.
LEMMA SearchKept ==
  ASSUME MemoryIInv, SearchSound, UNCHANGED <<free, max_free, booted, last>>,
         used' = used \/ (\E c : used' = Append(used, c))
  PROVE  SearchSound'
<1>1. used \in Seq(Chunk)
  BY DEF MemoryIInv, MemoryTypeOK
<1>2. Len(used') >= Len(used) /\ \A i \in 1 .. Len(used) : i \in 1 .. Len(used') /\ used'[i] = used[i]
  BY <1>1
<1>3. RefusedOnlyWhenFull'
  <2>1. SUFFICES ASSUME last.call = "any", last.got = 0, last.length > 0,
                        NEW a \in Low .. Size - 1, NEW f \in free, a % Page = 0,
                        f.start + f.length < Size,
                        a .. a + last.length - 1 \subseteq Bytes(f)
                 PROVE  \E i \in 1 .. Len(used') :
                          \/ used'[i].start \in a .. a + last.length - 1
                          \/ (a .. a + last.length - 1) \cap Bytes(used'[i]) # {}
    BY DEF RefusedOnlyWhenFull
  <2>2. PICK i \in 1 .. Len(used) :
               \/ used[i].start \in a .. a + last.length - 1
               \/ (a .. a + last.length - 1) \cap Bytes(used[i]) # {}
    BY <2>1 DEF SearchSound, RefusedOnlyWhenFull
  <2>3. i \in 1 .. Len(used') /\ used'[i] = used[i]
    BY <1>2
  <2>4. QED
    BY <2>2, <2>3
<1>4. QED
  BY <1>3 DEF SearchSound, End

\* Every step keeps the search sound.
LEMMA SearchInv == ASSUME MemoryIInv, SearchSound, ~Wrapping, [MemoryNext]_memoryVars PROVE SearchSound'
<1>1. CASE \E r \in Regions : MemCb(r)
  <2>1. PICK r \in Regions : MemCb(r)
    BY <1>1
  <2>2. last' = last /\ last.call = "none" /\ booted' = booted
    BY <2>1 DEF MemCb, SearchSound
  <2>3. PICK c : /\ free' = free \cup {c}
                 /\ max_free' = IF End(c) > max_free THEN End(c) ELSE max_free
                 /\ c \in Chunk
    BY <2>1, UsableIsSound DEF MemCb, RegisterFree
  <2>4. \A f \in free' : End(f) <= max_free'
    <3>1. \A d \in Chunk : End(d) \in Nat
      <4>1. \A d \in Chunk : d.start \in 0 .. Size - 1 /\ d.length \in 0 .. Size - 1
        BY DEF Chunk, Addresses
      <4>2. QED
        BY <4>1, ConstantsAssumption DEF End, Plus
    <3>2. free \subseteq Chunk /\ max_free \in Nat
      BY ConstantsAssumption DEF MemoryIInv, MemoryTypeOK, Addresses
    <3>3. QED
      BY <2>3, <3>1, <3>2 DEF SearchSound
  <2>5. QED
    BY <2>2, <2>4 DEF SearchSound, RefusedOnlyWhenFull, End
<1>2. CASE Boot
  <2>1. booted' = TRUE /\ UNCHANGED <<free, max_free, last, used>>
    BY <1>2 DEF Boot
  <2>2. QED
    BY <2>1 DEF SearchSound, RefusedOnlyWhenFull, End, Bytes
<1>3. CASE \E c \in Chunk : ChunkGetChunk(c)
  <2>1. booted' = TRUE /\ UNCHANGED <<free, max_free>> /\ last'.call = "at"
    BY <1>3 DEF ChunkGetChunk, ChunkFrame, Requesting, Grant, Refuse
  <2>2. QED
    BY <2>1 DEF SearchSound, RefusedOnlyWhenFull, End
<1>4. CASE \E n \in Addresses : ChunkGetAnyChunk(n)
  <2> DEFINE At(a, n) == [start |-> a, length |-> n]
  <2>1. PICK n \in Addresses : ChunkGetAnyChunk(n)
    BY <1>4
  <2>2. /\ booted' = TRUE /\ UNCHANGED <<free, max_free>>
        /\ \A a \in Pages : a + n < Size
    BY <2>1 DEF ChunkGetAnyChunk, ChunkFrame, Requesting, Fits
  <2>3. ASSUME NEW a \in Pages, CanAllocate(At(a, n)), Grant("any", At(a, n))
        PROVE  RefusedOnlyWhenFull'
    <3>1. At(a, n) \in Chunk /\ At(a, n).start + At(a, n).length < Size
      BY <2>2 DEF Pages, Chunk
    <3>2. PICK f \in free : Contains(At(a, n), f)
      BY <2>3 DEF CanAllocate
    <3>3. At(a, n).start >= Low
      BY <3>1, <3>2, ContainedIsInside DEF MemoryIInv
    <3>4. last'.got = a /\ a >= Low
      BY <2>3, <3>3 DEF Grant
    <3>5. last'.got # 0
      BY <3>4, ConstantsAssumption
    <3>6. QED
      BY <3>5 DEF RefusedOnlyWhenFull
  <2>4. ASSUME \A a \in Pages : ~CanAllocate(At(a, n)), Refuse("any", n)
        PROVE  RefusedOnlyWhenFull'
    <3>1. last' = [call |-> "any", length |-> n, got |-> 0] /\ used' = used
      BY <2>4 DEF Refuse
    <3>2. SUFFICES ASSUME n > 0, NEW a \in Low .. Size - 1, NEW f \in free, a % Page = 0,
                          f.start + f.length < Size, a .. a + n - 1 \subseteq Bytes(f)
                   PROVE  \E i \in 1 .. Len(used) :
                            \/ used[i].start \in a .. a + n - 1
                            \/ (a .. a + n - 1) \cap Bytes(used[i]) # {}
      BY <2>2, <3>1 DEF RefusedOnlyWhenFull
    <3>3. QED
      BY <2>4, <3>2, RefusedIsFull
  <2>5. RefusedOnlyWhenFull'
    BY <2>1, <2>3, <2>4 DEF ChunkGetAnyChunk
  <2>6. QED
    BY <2>2, <2>5 DEF SearchSound, End
<1>5. CASE \E n \in 0 .. Low : Sbrk(n)
  BY <1>5, SearchKept DEF Sbrk, HeapFrame
<1>6. CASE \E n \in 0 .. Low : AllocBuf(n)
  BY <1>6, SearchKept DEF AllocBuf, HeapFrame
<1>7. CASE UNCHANGED memoryVars
  BY <1>7, SearchKept DEF memoryVars
<1>8. QED
  BY <1>1, <1>2, <1>3, <1>4, <1>5, <1>6, <1>7 DEF MemoryNext

\* chunk_get_any_chunk answers 0 only when no page-aligned place is left in any free
\* region (memchunk.c:101-116).
THEOREM SearchComplete == ASSUME ~Wrapping PROVE MemorySpec => []RefusedOnlyWhenFull
<1>1. MemoryInit => SearchSound
  BY DEF MemoryInit, SearchSound, RefusedOnlyWhenFull
<1>2. MemoryIInv /\ SearchSound /\ [MemoryNext]_memoryVars => SearchSound'
  BY SearchInv
<1>3. SearchSound => RefusedOnlyWhenFull
  BY DEF SearchSound
<1>4. QED
  BY <1>1, <1>2, <1>3, Invariance, PTL DEF MemorySpec

===============================================================================
