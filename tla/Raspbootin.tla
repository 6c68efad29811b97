------------------------------- MODULE Raspbootin -------------------------------
(***************************************************************************)
(* The client of the network boot (raspbootin.c) and its server            *)
(* (raspbootin-server.c) at the two ends of a serial line.                 *)
(*                                                                         *)
(* The line delays, loses and damages what is sent.  A request is followed *)
(* byte by byte, an answer word by word.  A checksum is a pair of the kind *)
(* "crc" and what it was made of, so that it never fits anything else; the *)
(* checksum of nothing, which every request carries, is four bytes of 0.   *)
(***************************************************************************)
EXTENDS Integers, Sequences

CONSTANTS
  DirSizes,   \* words the entries of the server's directory take
  BufWords,   \* words of READDIR_BUF_LEN
  MaxCalls,   \* bound: directories asked for
  MaxFaults   \* bound: bytes and words that are lost or damaged

ASSUME LineAssumption ==
  DirSizes \subseteq Nat /\ BufWords \in Nat /\ MaxCalls \in Nat /\ MaxFaults \in Nat

VARIABLES
  server_capabilities,  \* commands the client may send
  uart,      \* whether the client's messages go to the line
  pc,        \* where the client is in send_message_int
  cmd,       \* the command being sent
  retries,   \* of send_message
  words,     \* the words of the answer read so far
  left,      \* how many words of data are still to be read
  ret,       \* what the last send_message returned
  line,      \* bytes on their way to the server
  breaks,    \* breaks_read of the server
  out,       \* words on their way to the client
  fifo,      \* words that have arrived
  contacted, \* whether raspbootin_init has returned
  calls, faults,  \* how many there have been
  calm,      \* history: nothing was lost, damaged, late or read too early
  misread    \* history: an error code was damaged into the number 4

clientVars == <<server_capabilities, uart, pc, cmd, retries, words, left, ret, contacted, calls, misread>>
serverVars == <<breaks>>
vars == <<clientVars, serverVars, line, out, fifo, faults, calm>>

\* Error codes.
SUCCESS == 0
PATH_NOT_FOUND == -1
CRC_ERROR == -3
TIMEOUT == -6
INVALID_MAGIC == -7
UNKNOWN_ERROR == -8
MAX_RETRIES == 3

\* The capabilities as sets of commands.
SERVER_CAPABILITIES == 0 .. 4

Init ==
  /\ server_capabilities = {0, 3} /\ uart = TRUE
  /\ pc = "idle" /\ cmd = 0 /\ retries = 0 /\ words = <<>> /\ left = 0 /\ ret = 0
  /\ line = <<>> /\ breaks = 0 /\ out = <<>> /\ fifo = <<>>
  /\ contacted = FALSE /\ calls = 0 /\ faults = 0 /\ calm = TRUE /\ misread = FALSE

(***************************************************************************)
(* The line.                                                               *)
(***************************************************************************)
Fault == faults < MaxFaults /\ faults' = faults + 1 /\ calm' = FALSE

Arrive ==
  /\ out # <<>> /\ out' = Tail(out)
  /\ \/ fifo' = Append(fifo, Head(out)) /\ UNCHANGED <<faults, calm>>
     \/ fifo' = Append(fifo, <<"junk">>) /\ Fault
     \/ fifo' = fifo /\ Fault
  /\ UNCHANGED <<clientVars, serverVars, line>>

\* 9 stands for every byte that means nothing to the server.
LineFault ==
  /\ Fault
  /\ \E i \in DOMAIN line :
       line' \in {SubSeq(line, 1, i - 1) \o SubSeq(line, i + 1, Len(line)), [line EXCEPT ![i] = 9]}
  /\ UNCHANGED <<clientVars, serverVars, out, fifo>>

(***************************************************************************)
(* The server: the loop of main, and do_cmd.                               *)
(***************************************************************************)
Crc(s) == <<"crc", s>>
Sealed(s) == Append(s, Crc(s))

ErrorText(code) == <<<<"magic">>, <<"length", 8>>, <<"error", code>>>>
Error(code) == Sealed(ErrorText(code))

Data(c, n) == [i \in 1 .. n |-> <<"data", c, i>>]

AnswerText(c, n) ==
  <<<<"magic">>, <<"length", 8 + 4 * n>>, <<"error", SUCCESS>>>> \o Data(c, n)
Answer(c, n) == Sealed(AnswerText(c, n))

\* A byte that is no command: two breaks announce one, everything else is text.
ServerReads ==
  /\ line # <<>> /\ breaks < 2
  /\ breaks' = IF Head(line) = 3 THEN breaks + 1 ELSE 0
  /\ line' = Tail(line)
  /\ UNCHANGED <<clientVars, out, fifo, faults, calm>>

\* A read takes the bytes that have come, up to n. Behind them the variable that
\* is read into keeps what was in it.
Available(n) == 0 .. IF Len(line) - 1 < n THEN Len(line) - 1 ELSE n

Taken(n) == SubSeq(line, 2, n + 1)

Sends(s, n) ==
  /\ out' = out \o s
  /\ line' = SubSeq(line, n + 2, Len(line)) /\ breaks' = 0
  /\ UNCHANGED <<clientVars, fifo, faults>>

ServerCommand(c) == line # <<>> /\ breaks = 2 /\ Head(line) = c

\* The checksum of the request is right, and may be where bytes are missing.
Identified(n) == \A i \in 1 .. n : Taken(n)[i] = 0

ServerIdentifies ==
  /\ ServerCommand(0)
  /\ \E n \in Available(4) :
       /\ calm' = (calm /\ n = 4)
       /\ \/ Identified(n) /\ Sends(Answer(0, 1), n)
          \/ (~Identified(n) \/ n < 4) /\ Sends(Error(CRC_ERROR), n)

\* Three reads: a length of two bytes, a name that long and a checksum of four. The
\* client sends neither length nor name, so that two bytes of its checksum are taken
\* for a length of 0, and the others, with the beginning of the next request if there
\* is one already, for the checksum of that length, which they are not. Where a read
\* came too early, length and checksum may be anything, and the name takes any number
\* of bytes. An entry that is gone again is reported, and the directory sent none the
\* less.
ServerReadsDirectory ==
  /\ ServerCommand(1)
  /\ \E n \in Available(Len(line)) :
       /\ calm' = (calm /\ n = 4)
       /\ \/ Sends(Error(CRC_ERROR), n)
          \/ Sends(Error(PATH_NOT_FOUND), n) \/ Sends(Error(UNKNOWN_ERROR), n)
          \/ \E size \in DirSizes :
               \/ Sends(Answer(1, 2 + size), n)
               \/ Sends(Error(UNKNOWN_ERROR) \o Answer(1, 2 + size), n)

ServerIgnores ==
  /\ line # <<>> /\ breaks = 2 /\ Head(line) \notin {0, 1}
  /\ Sends(<<>>, 0) /\ UNCHANGED calm

ServerStep == ServerReads \/ ServerIdentifies \/ ServerReadsDirectory \/ ServerIgnores

(***************************************************************************)
(* The client: send_message and send_message_int.                          *)
(***************************************************************************)
network == <<line, out, faults, serverVars>>

raspbootin_init ==
  /\ pc = "idle" /\ ~contacted
  /\ pc' = "clear" /\ cmd' = 0 /\ retries' = 0 /\ uart' = FALSE
  /\ UNCHANGED <<server_capabilities, words, left, ret, contacted, calls, misread, network, fifo, calm>>

\* The name is not used: what strcmp answers is taken for its opposite, and every
\* directory becomes the root.
raspbootin_read_directory ==
  /\ pc = "idle" /\ contacted /\ 1 \in server_capabilities /\ calls < MaxCalls
  /\ pc' = "clear" /\ cmd' = 1 /\ retries' = 0 /\ calls' = calls + 1 /\ uart' = FALSE
  /\ UNCHANGED <<server_capabilities, words, left, ret, contacted, misread, network, fifo, calm>>

Silent == fifo = <<>>

\* uart_getc_timeout answers -1 at the end of its time. The line is late when
\* something was still to come.
Expire == Silent /\ calm' = (calm /\ line = <<>> /\ out = <<>>)

\* Clear the receive buffer, before the request and after the answer.
Clear ==
  /\ pc \in {"clear", "cleanup"} /\ fifo # <<>> /\ fifo' = Tail(fifo)
  /\ UNCHANGED <<clientVars, network, calm>>

Request(c) == <<3, 3, c, 0, 0, 0, 0>>

SendRequest ==
  /\ pc = "clear" /\ Expire
  /\ line' = line \o Request(cmd)
  /\ pc' = "magic" /\ words' = <<>>
  /\ UNCHANGED <<server_capabilities, uart, cmd, retries, left, ret, contacted, calls, misread,
                 out, faults, serverVars, fifo>>

\* The end of send_message_int, with what it is to return.
Ends(value) == pc' = "cleanup" /\ ret' = value

Waiting == pc \in {"magic", "length", "error", "data", "crc"}

ReadTimeout ==
  /\ Waiting /\ Expire /\ Ends(TIMEOUT)
  /\ UNCHANGED <<server_capabilities, uart, cmd, retries, words, left, contacted, calls, misread,
                 network, fifo>>

Reads(where) ==
  /\ pc = where /\ fifo # <<>>
  /\ fifo' = Tail(fifo) /\ words' = Append(words, Head(fifo))
  /\ UNCHANGED <<server_capabilities, uart, cmd, retries, contacted, calls, network, calm>>

ReadMagic ==
  /\ Reads("magic")
  /\ IF Head(fifo) = <<"magic">> THEN pc' = "length" /\ UNCHANGED ret ELSE Ends(INVALID_MAGIC)
  /\ UNCHANGED <<left, misread>>

Room == IF cmd = 0 THEN 1 ELSE BufWords

\* What a word read as the length of the answer says of the words behind the error
\* code: more than there is room for is cut off, and a word that is no length may
\* say anything.
DataWords(word) ==
  IF word[1] = "length" THEN {IF (word[2] - 8) \div 4 < Room THEN (word[2] - 8) \div 4 ELSE Room}
  ELSE 0 .. Room

ReadLength ==
  /\ Reads("length")
  /\ left' \in DataWords(Head(fifo)) /\ pc' = "error"
  /\ UNCHANGED <<ret, misread>>

\* The error code is believed before the checksum has been seen.
ReadError ==
  /\ Reads("error")
  /\ \/ /\ Head(fifo) = <<"error", SUCCESS>> \/ Head(fifo)[1] # "error"
        /\ pc' = (IF left = 0 THEN "crc" ELSE "data") /\ UNCHANGED <<ret, misread>>
     \/ /\ Head(fifo)[1] = "error" /\ Head(fifo) # <<"error", SUCCESS>>
        /\ Ends(Head(fifo)[2]) /\ UNCHANGED misread
     \/ /\ Head(fifo)[1] # "error"
        /\ \/ Ends(4) /\ misread' = TRUE
           \/ (Ends(CRC_ERROR) \/ Ends(UNKNOWN_ERROR)) /\ UNCHANGED misread
  /\ UNCHANGED left

ReadData ==
  /\ Reads("data")
  /\ left' = left - 1 /\ pc' = (IF left = 1 THEN "crc" ELSE "data")
  /\ UNCHANGED <<ret, misread>>

\* Mutant: the checksum leaves the data out.
SealedBy(word, s) == word = Crc(s) \/ (Len(s) > 3 /\ word[1] = "crc")

\* What was cut off is not skipped: the next word is taken for the checksum.
Fits(word, s) == word = Crc(s)

ReadCrc ==
  /\ Reads("crc")
  /\ Ends(IF Fits(Head(fifo), words) THEN 4 * (Len(words) - 3) ELSE CRC_ERROR)
  /\ UNCHANGED <<left, misread>>

\* Mutant: every failure is tried again.
RetriesAlways == ret < 0 /\ retries + 1 < MAX_RETRIES

\* Only a wrong checksum is a reason to try again.
Retries == ret = CRC_ERROR /\ retries + 1 < MAX_RETRIES

\* Mutant: the attempts are not counted.
AgainUncounted ==
  /\ pc = "cleanup" /\ Expire /\ Retries
  /\ pc' = "clear" /\ uart' = FALSE
  /\ UNCHANGED <<server_capabilities, cmd, retries, words, left, ret, contacted, calls, misread, network, fifo>>

\* The receive buffer is clear again: send_message returns, or tries again.
Again ==
  /\ pc = "cleanup" /\ Expire /\ Retries
  /\ pc' = "clear" /\ retries' = retries + 1 /\ uart' = FALSE
  /\ UNCHANGED <<server_capabilities, cmd, words, left, ret, contacted, calls, misread, network, fifo>>

\* What is in caps when no answer was stored in it: any word; 32 is none a server says.
UNINITIALISED == {32}

\* What the fourth word of an answer says of the server.
Capabilities ==
  IF Len(words) >= 4 /\ words[4] = <<"data", 0, 1>> THEN SERVER_CAPABILITIES
  ELSE UNINITIALISED

SendReturns ==
  /\ pc = "cleanup" /\ Expire /\ ~Retries
  /\ pc' = "idle" /\ uart' = TRUE
  /\ IF contacted THEN UNCHANGED <<server_capabilities, contacted>>
     ELSE /\ contacted' = TRUE
          /\ server_capabilities' = IF ret = 4 THEN Capabilities ELSE {3}
  /\ UNCHANGED <<cmd, retries, words, left, ret, calls, misread, network, fifo>>

ClientStep ==
  \/ Clear \/ SendRequest \/ ReadTimeout \/ ReadMagic \/ ReadLength \/ ReadError \/ ReadData
  \/ ReadCrc \/ Again \/ SendReturns

Calls == raspbootin_init \/ raspbootin_read_directory

Next == Calls \/ ClientStep \/ ServerStep \/ Arrive \/ LineFault

Spec == Init /\ [][Next]_vars

\* The client runs by itself, and the server and the line go on; no more is
\* assumed of their speed.
FairSpec == Spec /\ WF_vars(ClientStep) /\ WF_vars(ServerStep) /\ WF_vars(Arrive)

(***************************************************************************)
(* Properties.                                                             *)
(***************************************************************************)
\* Answers carry no command, and may come late: on a line that only delays, no
\* answer is taken for that of another command (raspbootin.c:369-388), as a client
\* that was not answered in time never asks for a directory. A line that loses the
\* command's byte makes the server take the next one for it.
AnswerBelongs ==
  pc = "cleanup" /\ ret > 0 /\ faults = 0 =>
    \A i \in 4 .. Len(words) - 1 : words[i][1] = "data" /\ words[i][2] = cmd

\* What the client believes of the server is what the server said, or that it
\* is an old one: no answer that is damaged, torn or late is taken for
\* capabilities, short of an error code damaged into 4; and a server at the other
\* end of a line that loses nothing, and in time, is found (raspbootin.c:390-409).
CapabilitiesRight ==
  /\ ~misread => server_capabilities \in {{0, 3}, {3}, SERVER_CAPABILITIES}
  /\ calm /\ contacted => server_capabilities = SERVER_CAPABILITIES

\* The inductive invariant.  What a word can be that an answer to one of these
\* commands, or an error, is made of; junk takes the place of what was damaged.
ErrorCodes == {PATH_NOT_FOUND, CRC_ERROR, UNKNOWN_ERROR}
Lengths(c) == IF c = 0 THEN {1} ELSE {2 + size : size \in DirSizes}
Texts(C) == {ErrorText(e) : e \in ErrorCodes} \cup
            UNION {{AnswerText(c, n) : n \in Lengths(c)} : c \in C}
Words(C) == {<<"junk">>, <<"magic">>} \cup ({"length"} \X Nat) \cup
            ({"error"} \X (ErrorCodes \cup {SUCCESS})) \cup
            ({"data"} \X C \X Nat) \cup ({"crc"} \X Texts(C))

\* A line without faults only ever carries answers to the current command.
Answered == IF faults = 0 THEN {cmd} ELSE {0, 1}

TypeOK ==
  /\ server_capabilities \in SUBSET Nat /\ uart \in BOOLEAN /\ contacted \in BOOLEAN
  /\ Waiting \/ pc \in {"idle", "clear", "cleanup"}
  /\ cmd \in {0, 1} /\ retries \in Nat /\ left \in Int /\ ret \in Int
  /\ line \in Seq(Nat) /\ breaks \in 0 .. 2
  /\ fifo \in Seq(Words(Answered)) /\ out \in Seq(Words(Answered))
  /\ words \in Seq(Words({0, 1})) /\ (Waiting => words \in Seq(Words(Answered)))
  /\ calls \in Nat /\ faults \in Nat /\ calm \in BOOLEAN /\ misread \in BOOLEAN
  /\ (cmd = 1 => contacted) /\ (cmd = 0 /\ pc # "idle" => ~contacted)
  /\ (calm => faults = 0)

\* The byte at a place of a line, counted from the next to be read; the breaks b
\* that the server has seen lie before that.
Byte(l, b, i) == IF i >= 1 THEN l[i] ELSE IF i > -b THEN 3 ELSE 0

\* The line holds whole requests for c that begin at these places, and no other breaks.
Requests(l, b, c, P) ==
  /\ \A i \in P : /\ -1 <= i /\ i + 6 <= Len(l)
                  /\ Byte(l, b, i) = 3 /\ Byte(l, b, i + 1) = 3 /\ l[i + 2] = c
                  /\ l[i + 3] = 0 /\ l[i + 4] = 0 /\ l[i + 5] = 0 /\ l[i + 6] = 0
  /\ \A i, j \in P : i < j => i + 7 <= j
  /\ \A j \in -1 .. Len(l) : Byte(l, b, j) = 3 => j \in P \/ j - 1 \in P

Starts(l, b) ==
  {i \in -1 .. Len(l) - 6 : Byte(l, b, i) = 3 /\ Byte(l, b, i + 1) = 3}

Asked == Starts(line, breaks)

\* Behind two breaks comes the command c, and the last byte is no break. Of requests
\* for a directory the server may leave pieces.
Commands(l, b, c) ==
  /\ \A i \in -1 .. Len(l) - 2 : Byte(l, b, i) = 3 /\ Byte(l, b, i + 1) = 3 => l[i + 2] = c
  /\ Byte(l, b, Len(l)) # 3

OnTheLine ==
  faults = 0 => IF cmd = 0 THEN Requests(line, breaks, 0, Asked) ELSE Commands(line, breaks, 1)

\* The number of words that have been read.
Read ==
  /\ (pc = "magic" => words = <<>>) /\ (pc = "length" => Len(words) = 1)
  /\ (pc = "error" => Len(words) = 2)

\* What a call returns a length of was an answer, word for word.
Accepted ==
  pc = "cleanup" /\ ret > 0 =>
    \/ misread /\ Len(words) = 3
    \/ \E c \in Answered : \E n \in Lengths(c) : words = Answer(c, n) /\ ret = 4 * n

\* The first exchange on a line without faults.  Of the attempt before there may be
\* the last word of an error on its way, which is no beginning of an answer;
\* once the server has been found nothing is left of this exchange.
coming == fifo \o out
Stale == Crc(ErrorText(CRC_ERROR))
Quiet == Asked = {}
Over == Quiet /\ coming \in {<<>>, <<Stale>>} /\ (calm => coming = <<>>)

AtMagic ==
  \/ coming # <<>> /\ Head(coming) = Stale /\ ~calm
  \/ (\E i \in Asked : Asked = {i}) /\ coming = <<>>
  \/ Quiet /\ coming = Answer(0, 1)
  \/ Quiet /\ coming = Error(CRC_ERROR) /\ ~calm

Reading(a, n) == Quiet /\ words \o coming = a /\ Len(words) = n

AtCleanup ==
  /\ ret = 4 => Quiet /\ coming = <<>> /\ words = Answer(0, 1)
  /\ ret = CRC_ERROR => Over
  /\ calm => ret = 4

FirstExchange ==
  /\ pc = "clear" => Over
  /\ pc = "magic" => AtMagic
  /\ pc = "length" => \/ Reading(Answer(0, 1), 1)
                      \/ Reading(Error(CRC_ERROR), 1) /\ ~calm
  /\ pc = "error" => \/ Reading(Answer(0, 1), 2) /\ left = 1
                     \/ Reading(Error(CRC_ERROR), 2) /\ ~calm
  /\ pc = "data" => Reading(Answer(0, 1), 3) /\ left = 1
  /\ pc = "crc" => Reading(Answer(0, 1), 4)
  /\ pc = "cleanup" => AtCleanup
  /\ pc = "idle" /\ (1 \in server_capabilities \/ ~contacted) => Quiet /\ coming = <<>>

Contacting == faults = 0 /\ cmd = 0 => FirstExchange

IInv == TypeOK /\ OnTheLine /\ Read /\ Accepted /\ Contacting /\ CapabilitiesRight

\* Every call returns, whatever the line does (raspbootin.c:202-367).
CallReturns == pc # "idle" ~> pc = "idle"
================================================================================
