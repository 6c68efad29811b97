------------------------------ MODULE BlockStore ------------------------------
(***************************************************************************)
(* What a caller of block_read and block_write is promised: a store of     *)
(* blocks without any cache.  A read answers with the store's contents or  *)
(* with an error.  A write changes the blocks of its range one after the   *)
(* other; it may stop with an error after any of them, and then the next   *)
(* one may have changed as well.  Once a write has been refused, nothing   *)
(* is promised of what later reads deliver.                                *)
(***************************************************************************)
EXTENDS Integers

CONSTANTS NumBlocks, MaxCount, Data

VARIABLES
  store,    \* block -> contents
  request,  \* the request being served, or the last one
  written,  \* how many blocks of a write request have been stored
  status,   \* "idle", "busy", "ok" or "error"
  answer,   \* what a successful read delivered
  distrust  \* a write has been refused

vars == <<store, request, written, status, answer, distrust>>

Block == 0 .. NumBlocks - 1

NoAnswer == <<>>

Requests ==
  [op : {"read"}, start : Block, count : 1 .. MaxCount, data : {NoAnswer}]
    \cup
  UNION {[op : {"write"}, start : Block, count : {n},
          data : [0 .. n - 1 -> Data]] : n \in 1 .. MaxCount}

Init ==
  /\ store \in [Block -> Data]
  /\ request = [op |-> "none", start |-> 0, count |-> 0, data |-> NoAnswer]
  /\ written = 0
  /\ status = "idle"
  /\ answer = NoAnswer
  /\ distrust = FALSE

Ask(r) ==
  /\ status # "busy"
  /\ r.start + r.count <= NumBlocks
  /\ request' = r
  /\ written' = 0
  /\ status' = "busy"
  /\ answer' = NoAnswer
  /\ UNCHANGED <<store, distrust>>

AnswerRead ==
  /\ status = "busy" /\ request.op = "read"
  /\ status' = "ok"
  /\ DOMAIN answer' = 0 .. request.count - 1
  /\ distrust \/ \A i \in 0 .. request.count - 1 : answer'[i] = store[request.start + i]
  /\ UNCHANGED <<store, request, written, distrust>>

StoreNext ==
  store' = [store EXCEPT ![request.start + written] = request.data[written]]

WriteBlock ==
  /\ status = "busy" /\ request.op = "write"
  /\ StoreNext
  /\ written' = written + 1
  /\ status' = IF written' = request.count THEN "ok" ELSE "busy"
  /\ UNCHANGED <<request, answer, distrust>>

Refuse ==
  /\ status = "busy"
  /\ \/ UNCHANGED store
     \/ request.op = "write" /\ StoreNext
  /\ status' = "error"
  /\ distrust' = (distrust \/ request.op = "write")
  /\ UNCHANGED <<request, written, answer>>

Next == (\E r \in Requests : Ask(r)) \/ AnswerRead \/ WriteBlock \/ Refuse

Spec == Init /\ [][Next]_vars

===============================================================================
