------------------------------- MODULE LogProofs -------------------------------
(***************************************************************************)
(* The safety theorems of Log, for any files, buffers, calls and prints.   *)
(***************************************************************************)
EXTENDS Log, TLAPS

(***************************************************************************)
(* Sequences of characters.                                                *)
(***************************************************************************)

\* One more character at the end.
LEMMA AppendChar ==
  ASSUME NEW s \in Seq(Nat), NEW c \in Nat
  PROVE  /\ Append(s, c) \in Seq(Nat)
         /\ Len(Append(s, c)) = Len(s) + 1
         /\ Chars(Append(s, c)) = Chars(s) \cup {c}
         /\ \A n \in Nat : UpTo(s, n) /\ n < c =>
              UpTo(Append(s, c), c) /\ (InOrder(s) => InOrder(Append(s, c)))
         /\ \A t \in Seq(Nat), n \in Nat :
              Before(t, s) /\ UpTo(t, n) /\ n < c => Before(t, Append(s, c))
<1> DEFINE a == Append(s, c)
<1>1. /\ a \in Seq(Nat) /\ Len(a) = Len(s) + 1
      /\ DOMAIN a = 1 .. Len(s) + 1 /\ DOMAIN s = 1 .. Len(s) /\ Len(s) \in Nat
      /\ \A i \in 1 .. Len(s) : a[i] = s[i] /\ s[i] \in Nat
      /\ a[Len(s) + 1] = c
  OBVIOUS
<1> HIDE DEF a
<1>2. Chars(a) = Chars(s) \cup {c}
  <2>1. ASSUME NEW x \in Chars(a) PROVE x \in Chars(s) \cup {c}
    <3>1. PICK i \in 1 .. Len(s) + 1 : x = a[i]
      BY <1>1, <2>1 DEF Chars
    <3>2. CASE i = Len(s) + 1
      BY <1>1, <3>1, <3>2
    <3>3. CASE i # Len(s) + 1
      <4>1. i \in 1 .. Len(s)
        BY <1>1, <3>1, <3>3
      <4>2. i \in DOMAIN s /\ x = s[i]
        BY <1>1, <3>1, <4>1
      <4>3. QED
        BY <4>2 DEF Chars
    <3>4. QED
      BY <3>2, <3>3
  <2>2. ASSUME NEW x \in Chars(s) \cup {c} PROVE x \in Chars(a)
    <3>1. CASE x = c
      BY <1>1, <3>1 DEF Chars
    <3>2. CASE x \in Chars(s)
      <4>1. PICK i \in 1 .. Len(s) : x = s[i]
        BY <1>1, <3>2 DEF Chars
      <4>2. i \in DOMAIN a /\ x = a[i]
        BY <1>1, <4>1
      <4>3. QED
        BY <4>2 DEF Chars
    <3>3. QED
      BY <2>2, <3>1, <3>2
  <2>3. QED
    BY <2>1, <2>2
<1>3. ASSUME NEW n \in Nat, UpTo(s, n), n < c
      PROVE  UpTo(a, c) /\ (InOrder(s) => InOrder(a))
  <2>1. \A i \in 1 .. Len(s) : a[i] = s[i] /\ a[i] \in Nat /\ a[i] < c
    <3>1. \A i \in 1 .. Len(s) : s[i] <= n
      BY <1>1, <1>3 DEF UpTo
    <3>2. \A i \in 1 .. Len(s) : s[i] < c
      BY <1>1, <1>3, <3>1
    <3>3. QED
      BY <1>1, <3>2
  <2>2. \A i \in 1 .. Len(s) + 1 : i \in 1 .. Len(s) \/ i = Len(s) + 1
    BY <1>1
  <2>3. UpTo(a, c)
    <3>1. ASSUME NEW i \in 1 .. Len(s) + 1 PROVE a[i] <= c
      <4>1. CASE i \in 1 .. Len(s)
        <5>1. a[i] \in Nat /\ a[i] < c
          BY <2>1, <4>1
        <5>2. QED
          BY ONLY <5>1, c \in Nat
      <4>2. CASE i = Len(s) + 1
        BY <1>1, <4>2
      <4>3. QED
        BY <2>2, <4>1, <4>2
    <3>2. QED
      BY ONLY <1>1, <3>1 DEF UpTo
  <2>4. ASSUME InOrder(s), NEW i \in 1 .. Len(s) + 1, NEW j \in 1 .. Len(s) + 1, i < j
        PROVE  a[i] < a[j]
    <3>1. i \in 1 .. Len(s)
      BY <1>1, <2>4
    <3>2. CASE j = Len(s) + 1
      BY <1>1, <2>1, <3>1, <3>2
    <3>3. CASE j \in 1 .. Len(s)
      <4>1. s[i] < s[j]
        BY <1>1, <2>4, <3>1, <3>3 DEF InOrder
      <4>2. QED
        BY <1>1, <3>1, <3>3, <4>1
    <3>4. QED
      BY <2>2, <3>2, <3>3
  <2>5. QED
    BY <1>1, <2>3, <2>4 DEF InOrder
<1>4. ASSUME NEW t \in Seq(Nat), NEW n \in Nat, Before(t, s), UpTo(t, n), n < c
      PROVE  Before(t, a)
  <2>1. SUFFICES ASSUME NEW i \in DOMAIN t, NEW j \in 1 .. Len(s) + 1 PROVE t[i] < a[j]
    BY <1>1 DEF Before
  <2>2. t[i] \in Nat /\ t[i] <= n
    BY <1>4 DEF UpTo
  <2>3. CASE j = Len(s) + 1
    BY <1>1, <1>4, <2>2, <2>3
  <2>4. CASE j # Len(s) + 1
    <3>1. j \in 1 .. Len(s)
      BY <1>1, <2>4
    <3>2. QED
      BY <1>1, <1>4, <3>1 DEF Before
  <2>5. QED
    BY <2>3, <2>4
<1>5. QED
  BY <1>1, <1>2, <1>3, <1>4 DEF a

\* What a file holds after as much of a write as got through.
LEMMA WritePrefix ==
  ASSUME NEW s \in Seq(Nat), NEW d \in Seq(Nat), NEW n \in 0 .. Len(d)
  PROVE  LET w == s \o SubSeq(d, 1, n) IN
         /\ w \in Seq(Nat)
         /\ Chars(s) \subseteq Chars(w)
         /\ n = Len(d) => Chars(d) \subseteq Chars(w)
         /\ \A m \in Nat : UpTo(s, m) /\ UpTo(d, m) => UpTo(w, m)
         /\ InOrder(s) /\ InOrder(d) /\ Before(s, d) => InOrder(w)
<1> DEFINE w == s \o SubSeq(d, 1, n)
<1>1. /\ Len(s) \in Nat /\ DOMAIN s = 1 .. Len(s) /\ DOMAIN d = 1 .. Len(d) /\ n \in Nat
      /\ \A i \in 1 .. Len(s) : s[i] \in Nat
      /\ \A i \in 1 .. Len(d) : d[i] \in Nat
  OBVIOUS
<1>2. /\ SubSeq(d, 1, n) \in Seq(Nat) /\ Len(SubSeq(d, 1, n)) = n
      /\ \A i \in 1 .. n : SubSeq(d, 1, n)[i] = d[i]
  BY <1>1
<1>3. /\ w \in Seq(Nat) /\ DOMAIN w = 1 .. Len(s) + n
      /\ \A i \in 1 .. Len(s) : w[i] = s[i]
      /\ \A i \in 1 .. n : w[Len(s) + i] = d[i]
  BY <1>1, <1>2
<1> HIDE DEF w
<1>4. \A i \in 1 .. Len(s) + n : i \in 1 .. Len(s) \/ i - Len(s) \in 1 .. n
  BY <1>1
<1>5. \A i \in Len(s) + 1 .. Len(s) + n : w[i] = d[i - Len(s)]
  BY <1>1, <1>3, <1>4
<1>6. Chars(s) \subseteq Chars(w)
  BY <1>1, <1>3 DEF Chars
<1>7. n = Len(d) => Chars(d) \subseteq Chars(w)
  <2>1. SUFFICES ASSUME n = Len(d), NEW i \in 1 .. n PROVE d[i] \in Chars(w)
    BY <1>1 DEF Chars
  <2>2. Len(s) + i \in DOMAIN w /\ w[Len(s) + i] = d[i]
    BY <1>1, <1>3
  <2>3. QED
    BY <2>2 DEF Chars
<1>8. \A m \in Nat : UpTo(s, m) /\ UpTo(d, m) => UpTo(w, m)
  <2>1. SUFFICES ASSUME NEW m \in Nat, UpTo(s, m), UpTo(d, m), NEW i \in 1 .. Len(s) + n
                 PROVE  w[i] <= m
    BY <1>3 DEF UpTo
  <2>2. CASE i \in 1 .. Len(s)
    BY <1>1, <1>3, <2>1, <2>2 DEF UpTo
  <2>3. CASE i \notin 1 .. Len(s)
    <3>1. i - Len(s) \in DOMAIN d /\ i \in Len(s) + 1 .. Len(s) + n
      BY <1>1, <1>4, <2>3
    <3>2. d[i - Len(s)] <= m
      BY <2>1, <3>1 DEF UpTo
    <3>3. QED
      BY <1>5, <3>1, <3>2
  <2>4. QED
    BY <2>2, <2>3
<1>9. InOrder(s) /\ InOrder(d) /\ Before(s, d) => InOrder(w)
  <2>1. SUFFICES ASSUME InOrder(s), InOrder(d), Before(s, d),
                        NEW i \in 1 .. Len(s) + n, NEW j \in 1 .. Len(s) + n, i < j
                 PROVE  w[i] < w[j]
    BY <1>3 DEF InOrder
  <2>2. CASE j \in 1 .. Len(s)
    <3>1. i \in 1 .. Len(s)
      BY <1>1, <2>1, <2>2
    <3>2. s[i] < s[j]
      BY <1>1, <2>1, <2>2, <3>1 DEF InOrder
    <3>3. QED
      BY <1>3, <2>2, <3>1, <3>2
  <2>3. CASE i \in 1 .. Len(s) /\ j \notin 1 .. Len(s)
    <3>1. j - Len(s) \in DOMAIN d /\ j \in Len(s) + 1 .. Len(s) + n
      BY <1>1, <1>4, <2>3
    <3>2. s[i] < d[j - Len(s)]
      BY <1>1, <2>1, <2>3, <3>1 DEF Before
    <3>3. QED
      BY <1>3, <1>5, <2>3, <3>1, <3>2
  <2>4. CASE i \notin 1 .. Len(s)
    <3>1. /\ i - Len(s) \in DOMAIN d /\ i \in Len(s) + 1 .. Len(s) + n
          /\ j - Len(s) \in DOMAIN d /\ j \in Len(s) + 1 .. Len(s) + n
          /\ i - Len(s) < j - Len(s)
      BY <1>1, <1>4, <2>1, <2>4
    <3>2. d[i - Len(s)] < d[j - Len(s)]
      BY <2>1, <3>1 DEF InOrder
    <3>3. QED
      BY <1>5, <3>1, <3>2
  <2>5. QED
    BY <2>2, <2>3, <2>4
<1>10. QED
  BY <1>3, <1>6, <1>7, <1>8, <1>9 DEF w
(***************************************************************************)
(* The steps.                                                              *)
(***************************************************************************)

\* The initial states satisfy the inductive invariant.
LEMMA InitIInv == Init => IInv
<1> SUFFICES ASSUME Init PROVE IInv
  OBVIOUS
<1> USE LogAssumption DEF Init
<1>1. TypeOK
  <2>1. write \in {Idle} /\ content \in [LogFiles -> Seq(Nat)] /\ stored \in Seq(Nat)
    OBVIOUS
  <2>2. log_buf \in [allocated : BOOLEAN, capacity : Nat] /\ buf_size \in Nat
    BY DEF NewBuffer
  <2>3. log_on \in BOOLEAN
    OBVIOUS
  <2>4. kept \in BOOLEAN
    OBVIOUS
  <2>5. failed \in BOOLEAN
    OBVIOUS
  <2>6. QED
    BY <2>1, <2>2, <2>3, <2>4, <2>5 DEF TypeOK
<1>2. Registered
  BY DEF Registered, NewBuffer
<1>3. Bounded
  BY DEF Bounded
<1>4. Held
  BY DEF Held
<1>5. Ordered
  BY DEF Ordered, UpTo, Before, InOrder, OnItsWay
<1>6. QED
  BY <1>1, <1>2, <1>3, <1>4, <1>5 DEF IInv

\* A write to a file begins: it is on its way, and the log is off.
LEMMA BeginWriteStep ==
  ASSUME TypeOK, NEW to \in LogFiles, NEW data \in Seq(Nat), NEW then \in Then,
         BeginWrite(to, data, then)
  PROVE  /\ write' \in [to : LogFiles, data : Seq(Nat), then : Then, on : BOOLEAN]
         /\ write' # Idle /\ log_on' = FALSE
         /\ write'.to = to /\ write'.data = data /\ write'.then = then
         /\ OnItsWay' = data
<1>1. log_on \in BOOLEAN
  BY DEF TypeOK
<1>2. write' = [to |-> to, data |-> data, then |-> then, on |-> log_on] /\ log_on' = FALSE
  BY DEF BeginWrite
<1>3. write' \in [to : LogFiles, data : Seq(Nat), then : Then, on : BOOLEAN]
  BY <1>1, <1>2
<1>4. write'.to = to /\ write'.data = data /\ write'.then = then
  BY <1>2
<1>5. write' # Idle
  <2>1. Idle.to = None /\ to # None
    BY LogAssumption DEF Idle
  <2>2. QED
    BY <1>4, <2>1
<1>6. QED
  BY <1>2, <1>3, <1>4, <1>5 DEF OnItsWay

\* What the invariant says of the log while nothing is being written, and of a
\* write.
LEMMA WhileWriting ==
  ASSUME IInv
  PROVE  /\ log_on => write = Idle
         /\ write = Idle => OnItsWay = <<>>
         /\ write # Idle =>
              /\ write \in [to : LogFiles, data : Seq(Nat), then : Then, on : BOOLEAN]
              /\ write.to = log_fp /\ OnItsWay = write.data
         /\ OnItsWay \in Seq(Nat)
         /\ ~Buffering => stored = <<>>
<1>1. log_on \in BOOLEAN /\ write \in {Idle} \cup [to : LogFiles, data : Seq(Nat), then : Then, on : BOOLEAN]
  BY DEF IInv, TypeOK
<1>2. log_on => write = Idle
  BY <1>1 DEF IInv, Registered
<1>3. ~Buffering => stored = <<>>
  <2>1. ~Buffering => buf_size = 0
    BY DEF IInv, TypeOK, Registered, Buffering
  <2>2. buf_size = 0 => stored = <<>>
    BY DEF IInv, TypeOK, Bounded
  <2>3. QED
    BY <2>1, <2>2
<1>4. write # Idle =>
        /\ write \in [to : LogFiles, data : Seq(Nat), then : Then, on : BOOLEAN]
        /\ write.to = log_fp /\ OnItsWay = write.data
  BY <1>1 DEF IInv, Registered, OnItsWay
<1>5. write = Idle => OnItsWay = <<>>
  BY DEF OnItsWay
<1>6. OnItsWay \in Seq(Nat)
  <2>1. write # Idle => write.data \in Seq(Nat)
    BY <1>4
  <2>2. <<>> \in Seq(Nat)
    OBVIOUS
  <2>3. QED
    BY <1>4, <1>5, <2>1, <2>2
<1>7. QED
  BY <1>2, <1>3, <1>4, <1>5, <1>6

\* Sequences bounded by a number are bounded by every later one.
LEMMA UpToLater ==
  ASSUME NEW s \in Seq(Nat), NEW n \in Nat, UpTo(s, n)
  PROVE  UpTo(s, n + 1)
<1>1. \A i \in DOMAIN s : s[i] \in Nat
  OBVIOUS
<1>2. QED
  BY <1>1 DEF UpTo

\* A character is printed while the log is off, or nobody wants it.
LEMMA PutNothing ==
  ASSUME IInv, split_putc, UNCHANGED <<stored, log_on, write, owed>>
  PROVE  IInv'
<1> USE DEF IInv, split_putc
<1>1. printed' = printed + 1 /\ printed' \in Nat /\ printed \in Nat
  BY DEF TypeOK
<1>2. TypeOK'
  <2>1. log_on' \in BOOLEAN
    BY DEF TypeOK
  <2>2. kept' \in BOOLEAN
    BY DEF TypeOK
  <2>3. failed' \in BOOLEAN
    BY DEF TypeOK
  <2>4. QED
    BY <1>1, <2>1, <2>2, <2>3 DEF TypeOK
<1>3. Registered'
  BY DEF Registered
<1>4. Bounded'
  BY DEF Bounded, Buffering
<1>5. Held'
  BY DEF Held, InFiles, OnItsWay
<1>6. Ordered'
  <2>1. /\ stored \in Seq(Nat) /\ OnItsWay \in Seq(Nat)
        /\ \A f \in LogFiles : content[f] \in Seq(Nat)
    BY WhileWriting DEF TypeOK
  <2>2. OnItsWay' = OnItsWay
    BY DEF OnItsWay
  <2>3. /\ \A f \in LogFiles : UpTo(content[f], printed + 1)
        /\ UpTo(stored, printed + 1) /\ UpTo(OnItsWay, printed + 1)
    BY <1>1, <2>1, UpToLater DEF Ordered
  <2>4. QED
    BY <1>1, <2>2, <2>3 DEF Ordered
<1>7. QED
  BY <1>2, <1>3, <1>4, <1>5, <1>6

\* log_putc: what a character does to the buffer and to the write it may begin.
LEMMA PutStep ==
  ASSUME IInv, split_putc, log_on, log_putc(printed + 1)
  PROVE  IInv'
<1> DEFINE c == printed + 1
<1>1. /\ printed \in Nat /\ c \in Nat /\ printed < c /\ printed' = c
      /\ stored \in Seq(Nat) /\ buf_size \in Nat
      /\ \A f \in LogFiles : content[f] \in Seq(Nat)
      /\ owed \subseteq Nat
  BY DEF IInv, TypeOK, split_putc
<1>2. write = Idle /\ OnItsWay = <<>>
  BY WhileWriting
<1>3. UNCHANGED <<log_fp, log_buf, buf_size, fflush_cb, content, calls, kept, failed>>
  BY DEF split_putc
<1>4. InFiles' = InFiles
  BY <1>3 DEF InFiles
<1>5. owed' = IF log_fp = None THEN owed ELSE owed \cup {c}
  BY DEF log_putc, Owe
<1>6. owed' \subseteq Nat
  BY <1>1, <1>5
<1> HIDE DEF c
\* What the cases have in common.
<1>7. ASSUME stored' \in Seq(Nat),
             log_on' \in BOOLEAN,
             write' \in {Idle} \cup [to : LogFiles, data : Seq(Nat), then : Then, on : BOOLEAN]
      PROVE  TypeOK'
  <2>1. kept' \in BOOLEAN
    BY <1>3 DEF IInv, TypeOK
  <2>2. failed' \in BOOLEAN
    BY <1>3 DEF IInv, TypeOK
  <2>3. log_on' \in BOOLEAN
    BY <1>7
  <2>4. QED
    BY <1>1, <1>3, <1>6, <1>7, <2>1, <2>2, <2>3 DEF IInv, TypeOK
<1>8. \A f \in LogFiles : UpTo(content'[f], printed')
  BY <1>1, <1>3, UpToLater DEF IInv, Ordered, c
<1>9. UpTo(stored, c)
  BY <1>1, UpToLater DEF IInv, Ordered, c
<1>10. /\ Append(stored, c) \in Seq(Nat)
       /\ Len(Append(stored, c)) = Len(stored) + 1
       /\ Chars(Append(stored, c)) = Chars(stored) \cup {c}
       /\ UpTo(Append(stored, c), c)
       /\ InOrder(stored) => InOrder(Append(stored, c))
  BY <1>1, AppendChar DEF IInv, Ordered
<1>11. \A f \in LogFiles :
         Before(content[f], stored) => Before(content[f], Append(stored, c))
  BY <1>1, AppendChar DEF IInv, Ordered
<1>12. CASE Store(c)
  <2>1. stored' = Append(stored, c) /\ UNCHANGED <<log_on, write>> /\ Len(stored) + 1 < buf_size
    BY <1>12 DEF Store
  <2>2. TypeOK'
    <3>1. log_on' \in BOOLEAN
      BY <2>1 DEF IInv, TypeOK
    <3>2. QED
      BY <1>2, <1>7, <1>10, <2>1, <3>1
  <2>3. Registered'
    BY <1>3, <2>1 DEF IInv, Registered
  <2>4. Bounded'
    BY <1>1, <1>3, <1>10, <2>1 DEF Bounded, Buffering
  <2>5. Held'
    <3>1. ASSUME ~failed
          PROVE  owed' \subseteq InFiles \cup
                   (IF log_fp = None THEN {} ELSE Chars(stored'))
      BY <1>2, <1>5, <1>10, <2>1, <3>1 DEF IInv, Held, Chars
    <3>2. QED
      BY <1>2, <1>3, <1>4, <2>1, <3>1 DEF Held
  <2>6. Ordered'
    <3>1. OnItsWay' = <<>>
      BY <1>2, <2>1 DEF OnItsWay
    <3>2. UpTo(<<>>, c) /\ InOrder(<<>>) /\ \A f \in LogFiles : Before(content[f], <<>>)
      BY DEF UpTo, InOrder, Before
    <3>3. QED
      BY <1>1, <1>2, <1>3, <1>8, <1>10, <1>11, <2>1, <3>1, <3>2 DEF IInv, Ordered
  <2>7. QED
    BY <2>2, <2>3, <2>4, <2>5, <2>6 DEF IInv
<1>13. CASE Fill(c) /\ log_fp \in fflush_cb
  <2>1. /\ Buffering /\ stored' = Append(stored, c)
        /\ BeginWrite(log_fp, Append(stored, c), [do |-> "empty"])
    BY <1>13 DEF Fill, IInv, Registered, LogAssumption
  <2>2. log_fp \in LogFiles /\ [do |-> "empty"] \in Then
    BY <1>13 DEF IInv, TypeOK, Then
  <2>3. /\ write' \in [to : LogFiles, data : Seq(Nat), then : Then, on : BOOLEAN]
        /\ write' # Idle /\ log_on' = FALSE
        /\ write'.to = log_fp /\ write'.data = Append(stored, c)
        /\ write'.then = [do |-> "empty"]
        /\ OnItsWay' = Append(stored, c)
    BY <1>10, <2>1, <2>2, BeginWriteStep DEF IInv
  <2>4. TypeOK'
    BY <1>7, <1>10, <2>1, <2>3
  <2>5. Registered'
    BY <1>3, <2>3 DEF IInv, Registered
  <2>6. Bounded'
    <3>1. Len(stored) < buf_size
      BY <1>2, <2>1 DEF IInv, Bounded
    <3>2. write'.then.do # "return"
      BY <2>3
    <3>3. QED
      BY <1>1, <1>3, <1>10, <2>1, <2>3, <3>1, <3>2 DEF Bounded
  <2>7. Held'
    <3>1. ASSUME ~failed PROVE owed' \subseteq InFiles \cup Chars(stored')
      BY <1>2, <1>5, <1>10, <2>1, <3>1 DEF IInv, Held, Chars
    <3>2. log_fp' # None
      BY <1>3, <2>2, LogAssumption
    <3>3. QED
      BY <1>3, <1>4, <2>1, <2>3, <3>1, <3>2 DEF Held
  <2>8. Ordered'
    <3>1. write'.then.do # "return"
      BY <2>3
    <3>2. QED
      BY <1>1, <1>3, <1>8, <1>10, <1>11, <2>1, <2>3, <3>1 DEF IInv, Ordered
  <2>9. QED
    BY <2>4, <2>5, <2>6, <2>7, <2>8 DEF IInv
<1>14. CASE Fill(c) /\ log_fp \notin fflush_cb
  <2>1. stored' = <<>> /\ UNCHANGED <<log_on, write>>
    BY <1>14 DEF Fill
  <2>2. log_fp = None
    BY <1>14 DEF IInv, Registered
  <2>3. TypeOK'
    <3>1. log_on' \in BOOLEAN
      BY <2>1 DEF IInv, TypeOK
    <3>2. QED
      BY <1>2, <1>7, <2>1, <3>1
  <2>4. Registered'
    BY <1>3, <2>1 DEF IInv, Registered
  <2>5. Bounded'
    BY <1>1, <1>3, <2>1 DEF Bounded, Buffering
  <2>6. Held'
    BY <1>2, <1>3, <1>4, <1>5, <2>1, <2>2 DEF IInv, Held
  <2>7. Ordered'
    <3>1. OnItsWay' = <<>>
      BY <1>2, <2>1 DEF OnItsWay
    <3>2. UpTo(<<>>, c) /\ InOrder(<<>>) /\ \A f \in LogFiles : Before(content[f], <<>>)
      BY DEF UpTo, InOrder, Before
    <3>3. QED
      BY <1>1, <1>2, <1>3, <1>8, <2>1, <3>1, <3>2 DEF IInv, Ordered
  <2>8. QED
    BY <2>3, <2>4, <2>5, <2>6, <2>7 DEF IInv
<1>15. CASE PutThrough(c)
  <2>1. /\ ~Buffering /\ log_fp # None /\ UNCHANGED stored
        /\ BeginWrite(log_fp, <<c>>, [do |-> "return"])
    BY <1>15 DEF PutThrough
  <2>2. log_fp \in LogFiles /\ [do |-> "return"] \in Then /\ <<c>> \in Seq(Nat)
    BY <1>1, <2>1 DEF IInv, TypeOK, Then
  <2>3. /\ write' \in [to : LogFiles, data : Seq(Nat), then : Then, on : BOOLEAN]
        /\ write' # Idle /\ log_on' = FALSE
        /\ write'.to = log_fp /\ write'.data = <<c>>
        /\ write'.then = [do |-> "return"]
        /\ OnItsWay' = <<c>>
    BY <2>1, <2>2, BeginWriteStep DEF IInv
  <2>4. stored = <<>> /\ stored' = <<>>
    BY <2>1, WhileWriting
  <2>5. TypeOK'
    BY <1>1, <1>7, <2>1, <2>3
  <2>6. Registered'
    BY <1>3, <2>3 DEF IInv, Registered
  <2>7. Bounded'
    BY <1>1, <1>3, <2>1, <2>4 DEF Bounded, Buffering
  <2>8. Held'
    <3>1. Chars(<<c>>) = {c} /\ Chars(stored) = {}
      BY <2>4 DEF Chars
    <3>2. ASSUME ~failed PROVE owed' \subseteq InFiles \cup Chars(<<c>>)
      BY <1>2, <1>5, <3>1, <3>2, <2>4 DEF IInv, Held
    <3>3. QED
      BY <1>3, <1>4, <2>1, <2>3, <3>2 DEF Held
  <2>9. Ordered'
    <3>1. UpTo(<<c>>, c) /\ InOrder(<<c>>)
      BY <1>1 DEF UpTo, InOrder
    <3>2. UpTo(<<>>, c) /\ InOrder(<<>>) /\ \A f \in LogFiles : Before(content[f], <<>>)
      BY DEF UpTo, InOrder, Before
    <3>3. \A f \in LogFiles : Before(content[f], <<c>>)
      BY <1>1, <2>4, AppendChar DEF IInv, Ordered, UpTo, Before
    <3>4. QED
      BY <1>1, <1>3, <1>8, <2>3, <2>4, <3>1, <3>2, <3>3 DEF IInv, Ordered
  <2>10. QED
    BY <2>5, <2>6, <2>7, <2>8, <2>9 DEF IInv
<1>16. CASE PutNowhere
  <2>1. UNCHANGED <<stored, log_on, write, owed>>
    BY <1>5, <1>16 DEF PutNowhere
  <2>2. QED
    BY <2>1, PutNothing
<1>17. QED
  BY <1>12, <1>13, <1>14, <1>15, <1>16 DEF log_putc, c

\* The end of register_log_file: an empty buffer of the new size, and the callback
\* of the new file alone.
LEMMA SetLogFileStep ==
  ASSUME Registered, NEW f \in LogFiles \cup {None}, NEW n \in Sizes, SetLogFile(f, n)
  PROVE  /\ log_fp' = f /\ buf_size' = n /\ n \in Nat /\ stored' = <<>>
         /\ log_buf' \in [allocated : BOOLEAN, capacity : Nat]
         /\ fflush_cb' = {f} \ {None} /\ fflush_cb' \subseteq LogFiles
         /\ log_buf'.capacity = n /\ (~log_buf'.allocated => n = 0)
         /\ Buffering' => Len(<<>>) < n
<1>1. log_fp' = f /\ buf_size' = n /\ n \in Nat /\ stored' = <<>>
  BY LogAssumption DEF SetLogFile
<1>2. fflush_cb' = {f} \ {None} /\ fflush_cb' \subseteq LogFiles
  BY DEF SetLogFile, Deregistered, Registered
<1>3. CASE f = None /\ n = 0
  <2>1. log_buf' = [allocated |-> FALSE, capacity |-> 0]
    BY <1>3 DEF SetLogFile, NoBuffer
  <2>2. QED
    BY <1>1, <1>2, <1>3, <2>1 DEF Buffering
<1>4. CASE ~(f = None /\ n = 0)
  <2>1. log_buf' = [allocated |-> TRUE, capacity |-> n]
    BY <1>4 DEF SetLogFile, NewBuffer
  <2>2. QED
    BY <1>1, <1>2, <2>1 DEF Buffering
<1>5. QED
  BY <1>3, <1>4

\* A write ends, whole or cut short: the characters that leave the buffer with it
\* are in the file.
LEMMA EndWriteStep == ASSUME IInv, EndWrite PROVE IInv'
<1> DEFINE d == write.data
<1>1. PICK n \in 0 .. Len(d) :
        /\ content' = [content EXCEPT ![write.to] = @ \o SubSeq(d, 1, n)]
        /\ failed' = (failed \/ n < Len(d))
  BY DEF EndWrite
<1>2. /\ write \in [to : LogFiles, data : Seq(Nat), then : Then, on : BOOLEAN]
      /\ write # Idle /\ write.to = log_fp /\ OnItsWay = d
      /\ log_fp \in LogFiles /\ d \in Seq(Nat) /\ log_fp # None
  <2>1. write # Idle
    BY DEF EndWrite
  <2>2. QED
    BY <2>1, WhileWriting, LogAssumption
<1>3. /\ write' = Idle /\ log_on' = write.on
      /\ UNCHANGED <<printed, calls, owed, kept>> /\ AfterWrite
      /\ OnItsWay' = <<>>
  BY DEF EndWrite, OnItsWay
<1> DEFINE w == content[log_fp] \o SubSeq(d, 1, n)
<1>4. content[log_fp] \in Seq(Nat) /\ printed \in Nat /\ stored \in Seq(Nat)
  BY <1>2 DEF IInv, TypeOK
<1>5. /\ w \in Seq(Nat)
      /\ Chars(content[log_fp]) \subseteq Chars(w)
      /\ n = Len(d) => Chars(d) \subseteq Chars(w)
      /\ UpTo(content[log_fp], printed) /\ UpTo(d, printed) => UpTo(w, printed)
      /\ InOrder(content[log_fp]) /\ InOrder(d) /\ Before(content[log_fp], d) => InOrder(w)
  <2>1. d \in Seq(Nat) /\ n \in 0 .. Len(d)
    BY <1>1, <1>2
  <2> HIDE DEF d
  <2>2. /\ w \in Seq(Nat)
        /\ Chars(content[log_fp]) \subseteq Chars(w)
        /\ n = Len(d) => Chars(d) \subseteq Chars(w)
        /\ \A m \in Nat : UpTo(content[log_fp], m) /\ UpTo(d, m) => UpTo(w, m)
        /\ InOrder(content[log_fp]) /\ InOrder(d) /\ Before(content[log_fp], d) => InOrder(w)
    BY <1>4, <2>1, WritePrefix, Zenon
  <2> HIDE DEF w
  <2>3. QED
    BY <1>4, <2>2
<1>6. /\ content'[log_fp] = w
      /\ \A f \in LogFiles : f # log_fp => content'[f] = content[f]
      /\ content' \in [LogFiles -> Seq(Nat)]
  BY <1>1, <1>2, <1>5 DEF IInv, TypeOK
<1> HIDE DEF d, w
<1>7. ~failed' => ~failed /\ n = Len(d)
  <2>1. d \in Seq(Nat)
    BY <1>2
  <2>2. n < Len(d) \/ n = Len(d)
    BY <1>1, <2>1
  <2>3. QED
    BY <1>1, <2>2
<1>8. InFiles \subseteq InFiles' /\ (n = Len(d) => Chars(d) \subseteq InFiles')
  <2>1. \A f \in LogFiles : Chars(content[f]) \subseteq Chars(content'[f])
    BY <1>5, <1>6
  <2>2. n = Len(d) => Chars(d) \subseteq Chars(content'[log_fp])
    BY <1>5, <1>6
  <2>3. QED
    BY <1>2, <2>1, <2>2 DEF InFiles
\* The buffer after the write.
<1>9. /\ log_fp' \in LogFiles \cup {None} /\ buf_size' \in Nat
      /\ log_buf' \in [allocated : BOOLEAN, capacity : Nat]
      /\ stored' \in Seq(Nat) /\ fflush_cb' \subseteq LogFiles
      /\ Registered'
      /\ \/ stored' = <<>> /\ write.then.do # "return"
         \/ UNCHANGED buffer /\ write.then.do = "return"
      /\ Len(stored') <= buf_size' /\ (Buffering' => Len(stored') < buf_size')
  <2>1. CASE write.then.do = "register" /\ SetLogFile(write.then.fp, write.then.size)
    <3>1. write.then.fp \in LogFiles \cup {None} /\ write.then.size \in Sizes
      BY <1>2, <2>1 DEF Then
    <3>2. Registered
      BY DEF IInv
    <3>3. /\ log_fp' = write.then.fp /\ buf_size' = write.then.size
          /\ write.then.size \in Nat /\ stored' = <<>>
          /\ log_buf' \in [allocated : BOOLEAN, capacity : Nat]
          /\ fflush_cb' = {write.then.fp} \ {None} /\ fflush_cb' \subseteq LogFiles
          /\ log_buf'.capacity = write.then.size
          /\ (~log_buf'.allocated => write.then.size = 0)
          /\ Buffering' => Len(<<>>) < write.then.size
      BY <2>1, <3>1, <3>2, SetLogFileStep
    <3>4. Registered'
      BY <1>3, <3>3 DEF Registered
    <3>5. QED
      BY <2>1, <3>1, <3>3, <3>4
  <2>2. CASE write.then.do = "empty" /\ stored' = <<>>
             /\ UNCHANGED <<log_fp, log_buf, buf_size, fflush_cb>>
    <3>1. Registered'
      BY <1>3, <2>2 DEF IInv, Registered
    <3>2. Buffering' => 0 < buf_size'
      BY DEF Buffering
    <3>3. QED
      BY <2>2, <3>1, <3>2 DEF IInv, TypeOK
  <2>3. CASE write.then.do = "return" /\ UNCHANGED buffer
    <3>1. Registered'
      BY <1>3, <2>3 DEF IInv, Registered, buffer
    <3>2. Len(stored') <= buf_size' /\ (Buffering' => Len(stored') < buf_size')
      BY <2>3 DEF IInv, Bounded, Buffering, buffer
    <3>3. QED
      BY <2>3, <3>1, <3>2 DEF IInv, TypeOK, buffer
  <2>4. QED
    BY <1>3, <2>1, <2>2, <2>3 DEF AfterWrite
<1>10. TypeOK'
  <2>1. log_on' \in BOOLEAN
    BY <1>2, <1>3
  <2>2. kept' \in BOOLEAN
    BY <1>3 DEF IInv, TypeOK
  <2>3. failed' \in BOOLEAN
    BY <1>1 DEF IInv, TypeOK
  <2>4. QED
    BY <1>3, <1>6, <1>9, <2>1, <2>2, <2>3 DEF IInv, TypeOK
<1>11. Bounded'
  BY <1>9 DEF Bounded
<1>12. Held'
  <2>1. ASSUME ~failed'
        PROVE  owed \subseteq InFiles' \cup (IF log_fp' = None THEN {} ELSE Chars(stored'))
    <3>1. owed \subseteq InFiles \cup Chars(stored) \cup Chars(d)
      BY <1>2, <1>7, <2>1 DEF IInv, Held
    <3>2. owed \subseteq InFiles' \cup Chars(stored)
      BY <1>7, <1>8, <2>1, <3>1
    <3>3. CASE write.then.do # "return"
      <4>1. stored = d
        BY <1>2, <3>3 DEF IInv, Held, d
      <4>2. QED
        BY <1>7, <1>8, <2>1, <3>2, <4>1
    <3>4. CASE write.then.do = "return"
      BY <1>2, <1>9, <3>2, <3>4 DEF buffer
    <3>5. QED
      BY <3>3, <3>4
  <2>2. QED
    BY <1>3, <2>1 DEF Held
<1>13. Ordered'
  <2>1. UpTo(<<>>, printed) /\ InOrder(<<>>) /\ \A s \in Seq(Nat) : Before(s, <<>>)
    BY DEF UpTo, InOrder, Before
  <2>2. \A f \in LogFiles : UpTo(content'[f], printed)
    BY <1>2, <1>5, <1>6 DEF IInv, Ordered
  <2>3. UpTo(stored', printed)
    BY <1>9, <2>1 DEF IInv, Ordered, buffer
  <2>4. ASSUME ~kept
        PROVE  /\ stored' = <<>>
               /\ \A f \in LogFiles : InOrder(content'[f])
    <3>1. stored' = <<>>
      BY <1>2, <1>9, <2>4 DEF IInv, Ordered, buffer
    <3>2. QED
      BY <1>2, <1>5, <1>6, <2>4, <3>1 DEF IInv, Ordered
  <2>5. \A f \in LogFiles : content'[f] \in Seq(Nat)
    BY <1>6
  <2>6. QED
    BY <1>3, <2>1, <2>2, <2>3, <2>4, <2>5 DEF Ordered
<1>14. QED
  BY <1>9, <1>10, <1>11, <1>12, <1>13 DEF IInv

\* register_log_file.
LEMMA RegisterStep ==
  ASSUME IInv, NEW f \in LogFiles \cup {None}, NEW n \in Sizes, register_log_file(f, n)
  PROVE  IInv'
<1>1. /\ write = Idle /\ calls' = calls + 1 /\ OnItsWay = <<>>
      /\ UNCHANGED <<content, printed, kept, failed>> /\ InFiles' = InFiles
  BY WhileWriting DEF register_log_file, Call, InFiles
<1>2. ASSUME log_fp' \in LogFiles \cup {None}, fflush_cb' \subseteq LogFiles,
             log_buf' \in [allocated : BOOLEAN, capacity : Nat], buf_size' \in Nat,
             stored' \in Seq(Nat), log_on' \in BOOLEAN, owed' \subseteq Nat,
             write' \in {Idle} \cup [to : LogFiles, data : Seq(Nat), then : Then, on : BOOLEAN]
      PROVE  TypeOK'
  <2>1. kept' \in BOOLEAN
    BY <1>1 DEF IInv, TypeOK
  <2>2. failed' \in BOOLEAN
    BY <1>1 DEF IInv, TypeOK
  <2>3. log_on' \in BOOLEAN
    BY <1>2
  <2>4. QED
    BY <1>1, <1>2, <2>1, <2>2, <2>3 DEF IInv, TypeOK
<1> DEFINE then == [do |-> "register", fp |-> f, size |-> n]
<1>3. then \in Then /\ then.do = "register"
  BY DEF Then
<1>4. /\ stored \in Seq(Nat) /\ owed \subseteq Nat /\ Chars(stored) \subseteq Nat
      /\ log_on \in BOOLEAN
  BY DEF IInv, TypeOK, Chars
\* The write of the buffer, to the old file or to the first one.
<1>5. ASSUME NEW to \in LogFiles, BeginWrite(to, stored, then),
             log_fp' = to, fflush_cb' = {to} \ {None},
             UNCHANGED <<log_buf, buf_size, stored>>,
             owed' \subseteq owed \cup Chars(stored)
      PROVE  IInv'
  <2>1. /\ write' \in [to : LogFiles, data : Seq(Nat), then : Then, on : BOOLEAN]
        /\ write' # Idle /\ log_on' = FALSE
        /\ write'.to = to /\ write'.data = stored /\ write'.then = then
        /\ OnItsWay' = stored
    <3> HIDE DEF then
    <3>1. QED
      BY <1>3, <1>4, <1>5, BeginWriteStep DEF IInv
  <2>2. write'.then.do = "register"
    BY <1>3, <2>1
  <2> HIDE DEF then
  <2>3. TypeOK'
    BY <1>2, <1>4, <1>5, <2>1 DEF IInv, TypeOK
  <2>4. Registered'
    BY <1>5, <2>1 DEF IInv, Registered
  <2>5. Bounded'
    BY <1>5, <2>1, <2>2 DEF IInv, Bounded
  <2>6. Held'
    <3>1. ASSUME ~failed PROVE owed' \subseteq InFiles \cup Chars(stored)
      BY <1>1, <1>5, <3>1 DEF IInv, Held, Chars
    <3>2. to # None
      BY LogAssumption
    <3>3. QED
      BY <1>1, <1>5, <2>1, <3>1, <3>2 DEF Held
  <2>7. Ordered'
    BY <1>1, <1>5, <2>1, <2>2 DEF IInv, Ordered
  <2>8. QED
    BY <2>3, <2>4, <2>5, <2>6, <2>7 DEF IInv
<1>6. CASE ReplaceLogFile(f, n)
  <2>1. log_fp \in LogFiles /\ fflush_cb = {log_fp} \ {None}
    BY <1>6 DEF ReplaceLogFile, IInv, TypeOK, Registered
  <2>2. BeginWrite(log_fp, stored, then) /\ UNCHANGED buffer /\ owed' = owed
    BY <1>6 DEF ReplaceLogFile
  <2>3. QED
    BY <1>5, <2>1, <2>2 DEF buffer
<1>7. CASE FirstLogFile(f, n)
  <2>1. /\ f \in LogFiles /\ log_fp' = f /\ BeginWrite(f, stored, then)
        /\ owed' = owed \cup Chars(stored) /\ UNCHANGED <<log_buf, buf_size, stored>>
    BY <1>7 DEF FirstLogFile
  <2>2. fflush_cb' = {f} \ {None}
    BY <1>7, <2>1, LogAssumption DEF FirstLogFile, IInv, Registered
  <2>3. QED
    BY <1>5, <2>1, <2>2
<1>8. CASE NoLogFile(f, n)
  <2>1. log_fp = None /\ SetLogFile(f, n) /\ UNCHANGED <<log_on, write, owed>>
    BY <1>8 DEF NoLogFile
  <2>2. /\ log_fp' = f /\ buf_size' = n /\ n \in Nat /\ stored' = <<>>
        /\ log_buf' \in [allocated : BOOLEAN, capacity : Nat]
        /\ fflush_cb' = {f} \ {None} /\ fflush_cb' \subseteq LogFiles
        /\ log_buf'.capacity = n /\ (~log_buf'.allocated => n = 0)
        /\ Buffering' => Len(<<>>) < n
    BY <2>1, SetLogFileStep DEF IInv
  <2>3. TypeOK'
    <3>1. log_on' \in BOOLEAN
      BY <1>4, <2>1
    <3>2. QED
      BY <1>1, <1>2, <1>4, <2>1, <2>2, <3>1
  <2>4. Registered'
    BY <1>1, <2>1, <2>2 DEF Registered
  <2>5. Bounded'
    BY <2>2 DEF Bounded
  <2>6. Held'
    BY <1>1, <2>1 DEF IInv, Held
  <2>7. Ordered'
    <3>1. \A m \in Nat : UpTo(<<>>, m)
      BY DEF UpTo
    <3>2. InOrder(<<>>) /\ \A g \in LogFiles : Before(content[g], <<>>)
      BY DEF InOrder, Before
    <3>3. OnItsWay' = <<>> /\ printed \in Nat
      BY <1>1, <2>1 DEF OnItsWay, IInv, TypeOK
    <3>4. QED
      BY <1>1, <2>2, <3>1, <3>2, <3>3 DEF IInv, Ordered
  <2>8. QED
    BY <2>3, <2>4, <2>5, <2>6, <2>7 DEF IInv
<1>9. QED
  BY <1>6, <1>7, <1>8 DEF register_log_file

\* fflush, which leaves in the buffer what it writes.
LEMMA FflushStep ==
  ASSUME IInv, NEW f \in LogFiles, fflush(f)
  PROVE  IInv'
<1>1. /\ write = Idle /\ calls' = calls + 1 /\ OnItsWay = <<>>
      /\ UNCHANGED <<buffer, content, printed, owed, failed>> /\ InFiles' = InFiles
  BY WhileWriting DEF fflush, Call, InFiles
<1>2. stored \in Seq(Nat) /\ log_on \in BOOLEAN
  BY DEF IInv, TypeOK
<1>3. ASSUME log_on' \in BOOLEAN, kept' \in BOOLEAN,
             write' \in {Idle} \cup [to : LogFiles, data : Seq(Nat), then : Then, on : BOOLEAN]
      PROVE  TypeOK'
  <2>1. log_on' \in BOOLEAN
    BY <1>3
  <2>2. failed' \in BOOLEAN
    BY <1>1 DEF IInv, TypeOK
  <2>3. kept' \in BOOLEAN
    BY <1>3
  <2>4. QED
    BY <1>1, <1>3, <2>1, <2>2, <2>3 DEF IInv, TypeOK, buffer
<1>4. CASE /\ f \in fflush_cb
           /\ BeginWrite(f, stored, [do |-> "return"])
           /\ kept' = (kept \/ stored # <<>>)
  <2>1. [do |-> "return"] \in Then
    BY DEF Then
  <2>2. /\ write' \in [to : LogFiles, data : Seq(Nat), then : Then, on : BOOLEAN]
        /\ write' # Idle /\ log_on' = FALSE
        /\ write'.to = f /\ write'.data = stored /\ write'.then = [do |-> "return"]
        /\ OnItsWay' = stored
    BY <1>2, <1>4, <2>1, BeginWriteStep DEF IInv
  <2>3. log_fp = f
    BY <1>4 DEF IInv, Registered
  <2>4. TypeOK'
    <3>1. kept \in BOOLEAN
      BY DEF IInv, TypeOK
    <3>2. (stored # <<>>) \in BOOLEAN
      OBVIOUS
    <3>3. kept' \in BOOLEAN
      BY <1>4, <3>1, <3>2
    <3>4. QED
      BY <1>3, <2>2, <3>3
  <2>5. Registered'
    BY <1>1, <2>2, <2>3 DEF IInv, Registered, buffer
  <2>6. Bounded'
    BY <1>1 DEF IInv, Bounded, Buffering, buffer
  <2>7. Held'
    <3>1. write'.then.do = "return"
      BY <2>2
    <3>2. ASSUME ~failed PROVE owed \subseteq InFiles \cup Chars(stored)
      BY <1>1, <3>2 DEF IInv, Held, Chars
    <3>3. f # None
      BY LogAssumption
    <3>4. QED
      BY <1>1, <2>2, <2>3, <3>1, <3>2, <3>3 DEF Held, buffer
  <2>8. Ordered'
    <3>1. ~kept' => ~kept /\ stored = <<>>
      BY <1>4
    <3>2. QED
      BY <1>1, <2>2, <3>1 DEF IInv, Ordered, buffer
  <2>9. QED
    BY <2>4, <2>5, <2>6, <2>7, <2>8 DEF IInv
<1>5. CASE UNCHANGED <<log_on, write, kept>>
  <2>1. TypeOK'
    <3>1. log_on' \in BOOLEAN
      BY <1>2, <1>5
    <3>2. kept' \in BOOLEAN
      BY <1>5 DEF IInv, TypeOK
    <3>3. QED
      BY <1>1, <1>3, <1>5, <3>1, <3>2
  <2>2. OnItsWay' = OnItsWay
    BY <1>5 DEF OnItsWay
  <2>3. Registered'
    BY <1>1, <1>5 DEF IInv, Registered, buffer
  <2>4. Bounded'
    BY <1>1, <1>5 DEF IInv, Bounded, Buffering, buffer
  <2>5. Held'
    BY <1>1, <1>5, <2>2 DEF IInv, Held, buffer
  <2>6. Ordered'
    BY <1>1, <1>5, <2>2 DEF IInv, Ordered, buffer
  <2>7. QED
    BY <2>1, <2>3, <2>4, <2>5, <2>6 DEF IInv
<1>6. QED
  BY <1>4, <1>5 DEF fflush

\* The log is switched on or off.
LEMMA SwitchStep == ASSUME IInv, SwitchLog PROVE IInv'
<1>1. write = Idle /\ UNCHANGED <<buffer, write, content, printed, calls, history>>
  BY DEF SwitchLog
<1>2. TypeOK'
  <2>1. log_on' \in BOOLEAN
    BY DEF SwitchLog, IInv, TypeOK
  <2>2. kept' \in BOOLEAN
    BY <1>1 DEF IInv, TypeOK, history
  <2>3. failed' \in BOOLEAN
    BY <1>1 DEF IInv, TypeOK, history
  <2>4. QED
    BY <1>1, <2>1, <2>2, <2>3 DEF IInv, TypeOK, buffer, history
<1>3. OnItsWay' = OnItsWay /\ InFiles' = InFiles
  BY <1>1 DEF OnItsWay, InFiles
<1>4. Registered'
  BY <1>1 DEF IInv, Registered, buffer
<1>5. Bounded'
  BY <1>1 DEF IInv, Bounded, Buffering, buffer
<1>6. Held'
  BY <1>1, <1>3 DEF IInv, Held, buffer, history
<1>7. Ordered'
  BY <1>1, <1>3 DEF IInv, Ordered, buffer, history
<1>8. QED
  BY <1>2, <1>4, <1>5, <1>6, <1>7 DEF IInv

\* A step that changes nothing.
LEMMA StutterStep == ASSUME IInv, UNCHANGED vars PROVE IInv'
<1>1. /\ UNCHANGED <<log_fp, log_buf, buf_size, stored, fflush_cb, log_on, write,
                     content, printed, calls, owed, kept, failed>>
      /\ OnItsWay' = OnItsWay /\ InFiles' = InFiles
  BY DEF vars, buffer, history, OnItsWay, InFiles
<1>2. TypeOK'
  <2>1. log_on' \in BOOLEAN
    BY <1>1 DEF IInv, TypeOK
  <2>2. kept' \in BOOLEAN
    BY <1>1 DEF IInv, TypeOK
  <2>3. failed' \in BOOLEAN
    BY <1>1 DEF IInv, TypeOK
  <2>4. QED
    BY <1>1, <2>1, <2>2, <2>3 DEF IInv, TypeOK
<1>3. Registered' /\ Bounded'
  BY <1>1 DEF IInv, Registered, Bounded, Buffering
<1>4. Held' /\ Ordered'
  BY <1>1 DEF IInv, Held, Ordered
<1>5. QED
  BY <1>2, <1>3, <1>4 DEF IInv

\* Every step of the printers, the callers and the file system preserves the
\* invariant.
LEMMA NextIInv == IInv /\ [Next]_vars => IInv'
<1> SUFFICES ASSUME IInv, [Next]_vars PROVE IInv'
  OBVIOUS
<1>1. CASE split_putc
  <2>1. CASE log_on /\ log_putc(printed + 1)
    BY <1>1, <2>1, PutStep
  <2>2. CASE UNCHANGED <<stored, log_on, write, owed>>
    BY <1>1, <2>2, PutNothing
  <2>3. QED
    BY <1>1, <2>1, <2>2 DEF split_putc
<1>2. CASE EndWrite
  BY <1>2, EndWriteStep
<1>3. CASE SwitchLog
  BY <1>3, SwitchStep
<1>4. ASSUME NEW f \in LogFiles \cup {None}, NEW n \in Sizes, register_log_file(f, n)
      PROVE  IInv'
  BY <1>4, RegisterStep
<1>5. ASSUME NEW f \in LogFiles, fflush(f) PROVE IInv'
  BY <1>5, FflushStep
<1>6. CASE UNCHANGED vars
  BY <1>6, StutterStep
<1>7. QED
  BY <1>1, <1>2, <1>3, <1>4, <1>5, <1>6 DEF Next

LEMMA InvariantIInv == Spec => []IInv
<1>1. Init => IInv
  BY InitIInv
<1>2. IInv /\ [Next]_vars => IInv'
  BY NextIInv
<1>3. QED
  BY <1>1, <1>2, PTL DEF Spec

-------------------------------------------------------------------------------

\* log_putc, log_fflush and register_log_file keep the buffer within its length,
\* whatever its size and whatever is printed while it is being written.
THEOREM BufferBounded == Spec => []InBuffer
<1>1. IInv => InBuffer
  BY DEF IInv, Registered, Bounded, InBuffer
<1>2. QED
  BY <1>1, InvariantIInv, PTL

\* No character of the log is lost, doubled or put out of its place on its way
\* through the buffer to a file.
THEOREM LogIsWhole == Spec => []LogWhole
<1>1. IInv => LogWhole
  <2>1. SUFFICES ASSUME IInv PROVE LogWhole
    OBVIOUS
  <2>2. ~kept => \A f \in LogFiles : InOrder(content[f])
    BY <2>1 DEF IInv, Ordered
  <2>3. ~failed => owed \subseteq InFiles \cup Chars(stored) \cup Chars(OnItsWay)
    BY <2>1 DEF IInv, Held
  <2>4. QED
    BY <2>2, <2>3 DEF LogWhole
<1>2. QED
  BY <1>1, InvariantIInv, PTL

\* A file that is no longer the log file is not written, whoever flushes it: its
\* callback has been taken back.
THEOREM LogFileAlone == Spec => OnlyTheLogFileGrows
<1> DEFINE Grows == \A f \in LogFiles : content'[f] # content[f] => f = log_fp
<1>1. IInv /\ [Next]_vars => [Grows]_vars
  <2>1. SUFFICES ASSUME IInv, Next, NEW f \in LogFiles, content'[f] # content[f]
                 PROVE  f = log_fp
    OBVIOUS
  <2>2. EndWrite
    BY <2>1 DEF Next, split_putc, SwitchLog, register_log_file, fflush
  <2>3. write # Idle /\ write.to = log_fp
    BY <2>1, <2>2, WhileWriting DEF EndWrite
  <2>4. PICK n \in 0 .. Len(write.data) :
          content' = [content EXCEPT ![write.to] = @ \o SubSeq(write.data, 1, n)]
    BY <2>2 DEF EndWrite
  <2>5. QED
    BY <2>1, <2>3, <2>4 DEF IInv, TypeOK
<1>2. QED
  BY <1>1, InvariantIInv, PTL DEF Spec, OnlyTheLogFileGrows
================================================================================
