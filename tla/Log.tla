---------------------------------- MODULE Log ----------------------------------
(***************************************************************************)
(* The console log: log.c buffers what split_putc of output.c is given and *)
(* writes it to the log file, for the loader and for a guest that flushes, *)
(* registers files and switches outputs through the function table.        *)
(*                                                                         *)
(* Characters are numbered as they are printed.  A write to the file is    *)
(* not one step: the file system may print messages on its way.            *)
(***************************************************************************)
EXTENDS Naturals, Sequences

CONSTANTS
  LogFiles,  \* files that can be opened for writing
  None,      \* no file
  Sizes,     \* the buffer sizes asked for
  Boot,      \* the size of the buffer kernel_main registers, 0x1000
  MayFail,   \* whether a write may be cut short
  MaxChars,  \* bound: characters printed
  MaxCalls   \* bound: calls of register_log_file and fflush

ASSUME LogAssumption ==
  /\ None \notin LogFiles
  /\ Boot \in Nat \ {0} /\ Sizes \subseteq Nat
  /\ MayFail \in BOOLEAN /\ MaxChars \in Nat /\ MaxCalls \in Nat

NoBuffer == [allocated |-> FALSE, capacity |-> 0]
NewBuffer(n) == [allocated |-> TRUE, capacity |-> n]

VARIABLES
  log_fp,
  log_buf,     \* whether there is a buffer, and its length
  buf_size,
  stored,      \* log_buf[0 .. buf_ptr - 1]
  fflush_cb,   \* the files whose callback is log_fflush
  log_on,      \* RPIBOOT_OUTPUT_LOG in ostate
  write,       \* the write to a file that is under way, and what it is part of
  content,     \* what each file holds
  printed,     \* the number of characters printed
  calls,       \* the number of calls of register_log_file and fflush
  owed,        \* history: characters that belong in a file
  kept,        \* history: a flush left characters in the buffer
  failed       \* history: a write was cut short

buffer == <<log_fp, log_buf, buf_size, stored, fflush_cb>>
history == <<owed, kept, failed>>
vars == <<buffer, log_on, write, content, printed, calls, history>>

Idle == [to |-> None]

\* After kernel_main has registered a buffer and switched the log on.
Init ==
  /\ log_fp = None /\ log_buf = NewBuffer(Boot) /\ buf_size = Boot /\ stored = <<>>
  /\ fflush_cb = {} /\ log_on = TRUE /\ write = Idle
  /\ content = [f \in LogFiles |-> <<>>]
  /\ printed = 0 /\ calls = 0
  /\ owed = {} /\ kept = FALSE /\ failed = FALSE

Chars(s) == {s[i] : i \in DOMAIN s}

(***************************************************************************)
(* Writing to a file.                                                      *)
(***************************************************************************)

\* Mutant: the log stays switched on.
BeginWriteLogging(to, data, then) ==
  write' = [to |-> to, data |-> data, then |-> then, on |-> log_on] /\ UNCHANGED log_on

\* The log is off until the file system is done with the write.
BeginWrite(to, data, then) ==
  write' = [to |-> to, data |-> data, then |-> then, on |-> log_on] /\ log_on' = FALSE

\* Mutant: the callback of the old file stays.
StillRegistered == fflush_cb

Deregistered == fflush_cb \ {log_fp}

\* The end of register_log_file, when the old log file or the new one has been
\* given the buffer. Only without a file may there be no buffer at all.
SetLogFile(f, n) ==
  /\ log_fp' = f /\ buf_size' = n /\ stored' = <<>>
  /\ fflush_cb' = Deregistered \cup ({f} \ {None})
  /\ log_buf' = IF f = None /\ n = 0 THEN NoBuffer ELSE NewBuffer(n)

\* What the function that wrote does next: log_putc empties the buffer it found
\* full, register_log_file goes on, log_fflush leaves the buffer as it is.
AfterWrite ==
  \/ write.then.do = "empty" /\ stored' = <<>> /\ UNCHANGED <<log_fp, log_buf, buf_size, fflush_cb>>
  \/ write.then.do = "return" /\ UNCHANGED buffer
  \/ write.then.do = "register" /\ SetLogFile(write.then.fp, write.then.size)

EndWrite ==
  /\ write # Idle
  /\ \E n \in 0 .. Len(write.data) :
       /\ n < Len(write.data) => MayFail
       /\ content' = [content EXCEPT ![write.to] = @ \o SubSeq(write.data, 1, n)]
       /\ failed' = (failed \/ n < Len(write.data))
  /\ AfterWrite
  /\ write' = Idle /\ log_on' = write.on
  /\ UNCHANGED <<printed, calls, owed, kept>>

(***************************************************************************)
(* log_putc, by split_putc.                                                *)
(***************************************************************************)
Buffering == log_buf.allocated /\ buf_size > 0
Owe(c) == owed' = IF log_fp = None THEN owed ELSE owed \cup {c}

\* Room for more after this character.
Store(c) ==
  /\ Buffering /\ Len(stored) + 1 < buf_size
  /\ stored' = Append(stored, c)
  /\ UNCHANGED <<log_on, write>>

\* Mutant: the buffer is written before its last character is stored.
FillAndForget(c) ==
  /\ Buffering /\ Len(stored) + 1 >= buf_size
  /\ \/ /\ log_fp \in fflush_cb
        /\ BeginWrite(log_fp, stored, [do |-> "empty"])
        /\ stored' = Append(stored, c)
     \/ /\ log_fp \notin fflush_cb
        /\ stored' = <<>>
        /\ UNCHANGED <<log_on, write>>

\* The buffer is full: it goes to the file, or is dropped when there is none.
Fill(c) ==
  /\ Buffering /\ Len(stored) + 1 >= buf_size
  /\ \/ /\ log_fp \in fflush_cb
        /\ BeginWrite(log_fp, Append(stored, c), [do |-> "empty"])
        /\ stored' = Append(stored, c)
     \/ /\ log_fp \notin fflush_cb
        /\ stored' = <<>>
        /\ UNCHANGED <<log_on, write>>

PutThrough(c) ==
  /\ ~Buffering /\ log_fp # None
  /\ BeginWrite(log_fp, <<c>>, [do |-> "return"])
  /\ UNCHANGED stored

PutNowhere ==
  /\ ~Buffering /\ log_fp = None
  /\ UNCHANGED <<stored, log_on, write>>

log_putc(c) ==
  /\ Store(c) \/ Fill(c) \/ PutThrough(c) \/ PutNowhere
  /\ Owe(c)

\* A character is printed, by the loader, the guest, or the file system while
\* it writes.
split_putc ==
  /\ printed < MaxChars
  /\ printed' = printed + 1
  /\ \/ log_on /\ log_putc(printed + 1)
     \/ ~log_on /\ UNCHANGED <<stored, log_on, write, owed>>
  /\ UNCHANGED <<log_fp, log_buf, buf_size, fflush_cb, content, calls, kept, failed>>

(***************************************************************************)
(* register_log_file and fflush.                                           *)
(***************************************************************************)
Call == write = Idle /\ calls < MaxCalls /\ calls' = calls + 1

\* fflush of the log file, which always has a buffer, before another one takes
\* its place.
ReplaceLogFile(f, n) ==
  /\ log_fp # None
  /\ BeginWrite(log_fp, stored, [do |-> "register", fp |-> f, size |-> n])
  /\ UNCHANGED <<buffer, owed>>

\* The first log file is given what the buffer holds.
FirstLogFile(f, n) ==
  /\ log_fp = None /\ f # None /\ log_buf.allocated
  /\ log_fp' = f /\ fflush_cb' = fflush_cb \cup {f}
  /\ BeginWrite(f, stored, [do |-> "register", fp |-> f, size |-> n])
  /\ owed' = owed \cup Chars(stored)
  /\ UNCHANGED <<log_buf, buf_size, stored>>

NoLogFile(f, n) ==
  /\ log_fp = None /\ (f = None \/ ~log_buf.allocated)
  /\ SetLogFile(f, n)
  /\ UNCHANGED <<log_on, write, owed>>

register_log_file(f, n) ==
  /\ Call
  /\ ReplaceLogFile(f, n) \/ FirstLogFile(f, n) \/ NoLogFile(f, n)
  /\ UNCHANGED <<content, printed, kept, failed>>

\* fflush of any open file; log_fflush if it is the callback.
fflush(f) ==
  /\ Call
  /\ \/ /\ f \in fflush_cb /\ log_buf.allocated
        /\ BeginWrite(f, stored, [do |-> "return"])
        /\ kept' = (kept \/ stored # <<>>)
     \/ (f \notin fflush_cb \/ ~log_buf.allocated) /\ UNCHANGED <<log_on, write, kept>>
  /\ UNCHANGED <<buffer, content, printed, owed, failed>>

\* output_enable_log and output_disable_log.
SwitchLog ==
  /\ write = Idle
  /\ log_on' = ~log_on
  /\ UNCHANGED <<buffer, write, content, printed, calls, history>>

Next ==
  \/ split_putc \/ EndWrite \/ SwitchLog
  \/ \E f \in LogFiles \cup {None}, n \in Sizes : register_log_file(f, n)
  \/ \E f \in LogFiles : fflush(f)

Spec == Init /\ [][Next]_vars

(***************************************************************************)
(* Properties.                                                             *)
(***************************************************************************)

\* The buffer is never written behind its end, whatever is registered and
\* printed while it is full and being written (log.c:62-73, 95-106, 149-156).
InBuffer ==
  /\ Len(stored) <= log_buf.capacity
  /\ write = Idle /\ Buffering => Len(stored) < buf_size

InFiles == UNION {Chars(content[f]) : f \in LogFiles}
OnItsWay == IF write = Idle THEN <<>> ELSE write.data

InOrder(s) == \A i, j \in DOMAIN s : i < j => s[i] < s[j]

\* What was printed is in the files in its order and once, unless a flush has
\* left characters in the buffer that are written (log.c:92-108, 141-158); and
\* while a log file is registered no character of the log is lost: it is in a
\* file, in the buffer, or on its way (log.c:62-86, 112-160).
LogWhole ==
  /\ ~kept => \A f \in LogFiles : InOrder(content[f])
  /\ ~failed => owed \subseteq InFiles \cup Chars(stored) \cup Chars(OnItsWay)

\* Only the log file of the moment grows; a file that was one is left alone by
\* flushes (log.c:113-119, 139-147).
OnlyTheLogFileGrows ==
  [][\A f \in LogFiles : content'[f] # content[f] => f = log_fp]_vars

\* The inductive invariant.
Then == [do : {"empty", "return"}] \cup
        [do : {"register"}, fp : LogFiles \cup {None}, size : Sizes]

TypeOK ==
  /\ log_fp \in LogFiles \cup {None}
  /\ log_buf \in [allocated : BOOLEAN, capacity : Nat] /\ buf_size \in Nat
  /\ stored \in Seq(Nat) /\ fflush_cb \subseteq LogFiles /\ log_on \in BOOLEAN
  /\ write \in {Idle} \cup [to : LogFiles, data : Seq(Nat), then : Then, on : BOOLEAN]
  /\ content \in [LogFiles -> Seq(Nat)]
  /\ printed \in Nat /\ calls \in Nat
  /\ owed \subseteq Nat /\ kept \in BOOLEAN /\ failed \in BOOLEAN

\* The callback log_fflush is that of the log file and of no other, and a write goes
\* to the log file while the log is off.
Registered ==
  /\ fflush_cb = {log_fp} \ {None}
  /\ log_buf.capacity = buf_size /\ (~log_buf.allocated => buf_size = 0)
  /\ write # Idle => write.to = log_fp /\ ~log_on

\* Only log_putc writes a full buffer, and empties it.
Bounded ==
  /\ Len(stored) <= buf_size
  /\ Buffering /\ (write = Idle \/ write.then.do = "return") => Len(stored) < buf_size

\* What is dropped from the buffer after a write is what was written, and without
\* a log file the buffer owes nothing.
Held ==
  /\ write # Idle /\ write.then.do # "return" => write.data = stored
  /\ ~failed => owed \subseteq InFiles \cup
       (IF log_fp = None THEN {} ELSE Chars(stored) \cup Chars(OnItsWay))

Before(s, t) == \A i \in DOMAIN s, j \in DOMAIN t : s[i] < t[j]
UpTo(s, n) == \A i \in DOMAIN s : s[i] <= n

\* The files come before the buffer and what is on its way to a file.
Ordered ==
  /\ \A f \in LogFiles : UpTo(content[f], printed)
  /\ UpTo(stored, printed) /\ UpTo(OnItsWay, printed)
  /\ ~kept =>
       /\ \A f \in LogFiles : /\ InOrder(content[f])
                               /\ Before(content[f], stored) /\ Before(content[f], OnItsWay)
       /\ InOrder(stored) /\ InOrder(OnItsWay)
       /\ write # Idle /\ write.then.do = "return" => stored = <<>>

IInv == TypeOK /\ Registered /\ Bounded /\ Held /\ Ordered
================================================================================
