--------------------------- MODULE RaspbootinProofs ---------------------------
(***************************************************************************)
(* The safety theorems of Raspbootin, for directories and a buffer of any  *)
(* size, any number of calls and any number of faults of the line.         *)
(***************************************************************************)
EXTENDS Raspbootin, TLAPS

(***************************************************************************)
(* Words and answers.                                                      *)
(***************************************************************************)

\* A word is told from one of another kind by its first component.
LEMMA WordKinds ==
  ASSUME NEW C, NEW w \in Words(C)
  PROVE  /\ w[1] = "length" => w = <<"length", w[2]>> /\ w[2] \in Nat
         /\ w[1] = "error" => /\ w = <<"error", w[2]>>
                              /\ w[2] \in ErrorCodes \cup {SUCCESS}
         /\ w[1] = "crc" => w = <<"crc", w[2]>> /\ w[2] \in Texts(C)
  BY DEF Words

\* Answers to more commands are made of more words.
LEMMA WordsGrow ==
  ASSUME NEW C, NEW D, C \subseteq D
  PROVE  Texts(C) \subseteq Texts(D) /\ Words(C) \subseteq Words(D)
<1>1. Texts(C) \subseteq Texts(D)
  BY DEF Texts
<1>2. QED
  BY <1>1 DEF Words

\* The elements of one sequence behind another.
LEMMA Concat ==
  ASSUME NEW S, NEW s \in Seq(S), NEW t \in Seq(S)
  PROVE  /\ s \o t \in Seq(S) /\ Len(s \o t) = Len(s) + Len(t)
         /\ \A i \in 1 .. Len(s) : (s \o t)[i] = s[i]
         /\ \A i \in Len(s) + 1 .. Len(s) + Len(t) : (s \o t)[i] = t[i - Len(s)]
  OBVIOUS

\* And of a sequence with one more.
LEMMA Appended ==
  ASSUME NEW S, NEW s \in Seq(S), NEW e
  PROVE  /\ Len(Append(s, e)) = Len(s) + 1 /\ Append(s, e)[Len(s) + 1] = e
         /\ \A i \in 1 .. Len(s) : Append(s, e)[i] = s[i]
  OBVIOUS

\* What an answer is made of, word by word.
LEMMA AnswerFacts ==
  ASSUME NEW c, NEW n \in Nat
  PROVE  /\ Len(AnswerText(c, n)) = 3 + n /\ Len(Answer(c, n)) = 4 + n
         /\ Answer(c, n)[1] = <<"magic">>
         /\ Answer(c, n)[2] = <<"length", 8 + 4 * n>>
         /\ Answer(c, n)[3] = <<"error", SUCCESS>>
         /\ Answer(c, n)[4 + n] = <<"crc", AnswerText(c, n)>>
         /\ \A i \in 4 .. 3 + n : Answer(c, n)[i] = <<"data", c, i - 3>>
         /\ \E S : AnswerText(c, n) \in Seq(S) /\ Answer(c, n) \in Seq(S)
<1> DEFINE h == <<<<"magic">>, <<"length", 8 + 4 * n>>, <<"error", SUCCESS>>>>
           d == Data(c, n)
           S == {h[1], h[2], h[3]} \cup {<<"data", c, i>> : i \in 1 .. n}
           t == AnswerText(c, n)
<1>1. h \in Seq(S) /\ Len(h) = 3
  OBVIOUS
<1>2. d \in Seq(S) /\ Len(d) = n /\ \A i \in 1 .. n : d[i] = <<"data", c, i>>
  BY DEF Data
<1>3. t = h \o d
  BY DEF AnswerText
<1>4. /\ t \in Seq(S) /\ Len(t) = 3 + n
      /\ \A i \in 1 .. 3 : t[i] = h[i]
      /\ \A i \in 4 .. 3 + n : t[i] = d[i - 3]
  <2> HIDE DEF h, d, S, t
  <2>1. /\ h \o d \in Seq(S) /\ Len(h \o d) = Len(h) + Len(d)
        /\ \A i \in 1 .. Len(h) : (h \o d)[i] = h[i]
        /\ \A i \in Len(h) + 1 .. Len(h) + Len(d) : (h \o d)[i] = d[i - Len(h)]
    BY <1>1, <1>2, Concat
  <2>2. QED
    BY <1>1, <1>2, <1>3, <2>1
<1>5. t[1] = h[1] /\ t[2] = h[2] /\ t[3] = h[3]
  BY <1>4
<1>6. \A i \in 4 .. 3 + n : t[i] = <<"data", c, i - 3>>
  BY <1>2, <1>4
<1> DEFINE x == <<"crc", t>>
<1>7. Answer(c, n) = Append(t, x)
  BY DEF Answer, Sealed, Crc
<1>8. /\ Len(Append(t, x)) = 4 + n /\ Append(t, x)[4 + n] = x
      /\ \A i \in 1 .. 3 + n : Append(t, x)[i] = t[i]
      /\ Append(t, x) \in Seq(S \cup {x})
  <2> HIDE DEF t, S, x
  <2>1. QED
    BY <1>4, Appended
<1>9. /\ Append(t, x)[1] = h[1] /\ Append(t, x)[2] = h[2] /\ Append(t, x)[3] = h[3]
      /\ \A i \in 4 .. 3 + n : Append(t, x)[i] = <<"data", c, i - 3>>
  <2> HIDE DEF t, S, x, h
  <2>1. QED
    BY <1>5, <1>6, <1>8
<1>10. t \in Seq(S \cup {x}) /\ Append(t, x) \in Seq(S \cup {x})
  <2>1. t \in Seq(S \cup {x})
    <3> HIDE DEF t, S, x
    <3>1. QED
      BY <1>4
  <2>2. QED
    BY <1>8, <2>1
<1> HIDE DEF t, S, x
<1>11. QED
  BY <1>4, <1>7, <1>8, <1>9, <1>10 DEF t, x

\* What an error is made of.
LEMMA ErrorFacts ==
  ASSUME NEW e
  PROVE  /\ Len(Error(e)) = 4 /\ Len(ErrorText(e)) = 3
         /\ Error(e)[1] = <<"magic">> /\ Error(e)[2] = <<"length", 8>>
         /\ Error(e)[3] = <<"error", e>> /\ Error(e)[4] = <<"crc", ErrorText(e)>>
<1> DEFINE t == ErrorText(e)
           S == {t[1], t[2], t[3]}
           x == <<"crc", t>>
<1>1. t \in Seq(S)
  BY DEF ErrorText
<1>2. Len(t) = 3 /\ t[1] = <<"magic">> /\ t[2] = <<"length", 8>> /\ t[3] = <<"error", e>>
  BY DEF ErrorText
<1>3. Error(e) = Append(t, x)
  BY DEF Error, Sealed, Crc
<1> HIDE DEF t, S, x
<1>4. /\ Len(Append(t, x)) = Len(t) + 1 /\ Append(t, x)[Len(t) + 1] = x
      /\ \A i \in 1 .. Len(t) : Append(t, x)[i] = t[i]
  BY <1>1, Appended
<1>5. /\ Len(Append(t, x)) = 4 /\ Append(t, x)[4] = x /\ Append(t, x)[1] = t[1]
      /\ Append(t, x)[2] = t[2] /\ Append(t, x)[3] = t[3]
  BY <1>2, <1>4
<1>6. QED
  BY <1>2, <1>3, <1>5 DEF t, x

\* An answer is made of the words of answers to its command.
LEMMA AnswerWords ==
  ASSUME NEW C, NEW c \in C, NEW n \in Lengths(c), n \in Nat
  PROVE  AnswerText(c, n) \in Texts(C) /\ Answer(c, n) \in Seq(Words(C))
<1>1. AnswerText(c, n) \in Texts(C)
  BY DEF Texts
<1> DEFINE a == Answer(c, n)
           W == Words(C)
<1>2. /\ Len(a) = 4 + n /\ a[1] = <<"magic">> /\ a[2] = <<"length", 8 + 4 * n>>
      /\ a[3] = <<"error", SUCCESS>> /\ a[4 + n] = <<"crc", AnswerText(c, n)>>
      /\ \A i \in 4 .. 3 + n : a[i] = <<"data", c, i - 3>>
  BY AnswerFacts
<1>3. /\ <<"magic">> \in W /\ <<"length", 8 + 4 * n>> \in W
      /\ <<"error", SUCCESS>> \in W /\ <<"crc", AnswerText(c, n)>> \in W
      /\ \A i \in 4 .. 3 + n : <<"data", c, i - 3>> \in W
  BY <1>1 DEF Words
<1>4. \E S : a \in Seq(S)
  BY AnswerFacts
<1>5. a \in Seq(W)
  <2> HIDE DEF a, W
  <2>1. PICK S : a \in Seq(S)
    BY <1>4
  <2>2. ASSUME NEW i \in 1 .. 4 + n PROVE a[i] \in W
    <3>1. CASE i \in 4 .. 3 + n
      BY <1>2, <1>3, <3>1
    <3>2. CASE i = 1 \/ i = 2 \/ i = 3 \/ i = 4 + n
      BY <1>2, <1>3, <3>2
    <3>3. QED
      BY <3>1, <3>2
  <2>3. QED
    BY <1>2, <2>1, <2>2
<1>6. QED
  BY <1>1, <1>5

\* An error is one of those that any command can be answered with.
LEMMA ErrorWords ==
  ASSUME NEW C, NEW e \in ErrorCodes
  PROVE  ErrorText(e) \in Texts(C) /\ Error(e) \in Seq(Words(C))
<1>1. ErrorText(e) \in Texts(C)
  BY DEF Texts
<1> DEFINE W == Words(C)
<1>2. /\ <<"magic">> \in W /\ <<"length", 8>> \in W /\ <<"error", e>> \in W
      /\ <<"crc", ErrorText(e)>> \in W
  BY <1>1 DEF Words
<1>3. ErrorText(e) \in Seq(W) /\ Error(e) = Append(ErrorText(e), <<"crc", ErrorText(e)>>)
  BY <1>2 DEF ErrorText, Error, Sealed, Crc
<1>4. Error(e) \in Seq(W)
  <2> HIDE DEF W
  <2>1. QED
    BY <1>2, <1>3
<1>5. QED
  BY <1>1, <1>4

\* An answer has at least one word of data.
LEMMA LengthFacts ==
  ASSUME NEW c \in {0, 1}, NEW n \in Lengths(c)
  PROVE  n \in Nat /\ n >= 1 /\ (n = 1 <=> c = 0)
  BY LineAssumption DEF Lengths

(***************************************************************************)
(* The line to the server.                                                 *)
(***************************************************************************)

\* The requests on a line begin where two breaks follow each other.
LEMMA RequestsAtStarts ==
  ASSUME NEW l \in Seq(Nat), NEW b \in 0 .. 2, NEW c \in {0, 1}, NEW P \in SUBSET Int,
         Requests(l, b, c, P)
  PROVE  P = Starts(l, b)
<1>1. ASSUME NEW i \in P
      PROVE  /\ i \in -1 .. Len(l) - 6
             /\ Byte(l, b, i) = 3 /\ Byte(l, b, i + 1) = 3 /\ l[i + 2] = c
  BY DEF Requests
<1>2. ASSUME NEW i \in -1 .. Len(l) - 6, Byte(l, b, i) = 3, Byte(l, b, i + 1) = 3
      PROVE  i \in P
  <2>1. i \in P \/ i - 1 \in P
    BY <1>2 DEF Requests
  <2>2. i - 1 \in P => Byte(l, b, i + 1) = c
    <3>1. ASSUME i - 1 \in P PROVE l[(i - 1) + 2] = c /\ i - 1 >= -1
      BY <1>1, <3>1
    <3>2. QED
      BY <3>1 DEF Byte
  <2>3. QED
    BY <1>2, <2>1, <2>2
<1>3. QED
  BY <1>1, <1>2 DEF Starts

\* A line without requests is one for either command, and an empty line has none.
LEMMA NoRequests ==
  ASSUME NEW l, NEW b, NEW c, NEW d
  PROVE  /\ Requests(l, b, c, {}) => Requests(l, b, d, {})
         /\ Requests(<<>>, 0, c, {})
  BY DEF Requests, Byte

\* The server reads a byte that is no command: the requests come one byte nearer.
LEMMA ByteRead ==
  ASSUME NEW l \in Seq(Nat), NEW b \in 0 .. 1, NEW c \in {0, 1}, NEW P \in SUBSET Int,
         Requests(l, b, c, P), l # <<>>
  PROVE  LET b1 == IF Head(l) = 3 THEN b + 1 ELSE 0
             Q == {i - 1 : i \in P}
         IN Requests(Tail(l), b1, c, Q)
<1> DEFINE b1 == IF Head(l) = 3 THEN b + 1 ELSE 0
           m == Tail(l)
           Q == {i - 1 : i \in P}
<1>1. /\ m \in Seq(Nat) /\ Len(m) = Len(l) - 1 /\ Head(l) = l[1] /\ b1 \in 0 .. 2
      /\ \A i \in 1 .. Len(m) : m[i] = l[i + 1]
  OBVIOUS
<1>2. \A i \in P : /\ -1 <= i /\ i + 6 <= Len(l)
                   /\ Byte(l, b, i) = 3 /\ Byte(l, b, i + 1) = 3 /\ l[i + 2] = c
                   /\ l[i + 3] = 0 /\ l[i + 4] = 0 /\ l[i + 5] = 0 /\ l[i + 6] = 0
  BY DEF Requests
<1>3. \A i \in P : i >= 0
  <2>1. Byte(l, b, -1) = 0
    BY DEF Byte
  <2>2. -1 \notin P
    BY <1>2, <2>1
  <2>3. QED
    BY <1>2, <2>2
\* A break that has been seen is the first of two.
<1>4. b = 1 => 0 \in P
  <2>1. ASSUME b = 1 PROVE Byte(l, b, 0) = 3
    BY <2>1 DEF Byte
  <2>2. ASSUME b = 1 PROVE 0 \in P \/ -1 \in P
    BY <2>1, <2>2 DEF Requests
  <2>3. QED
    BY <1>3, <2>2
<1>5. 0 \in P => l[1] = 3
  <2>1. ASSUME 0 \in P PROVE Byte(l, b, 0 + 1) = 3
    BY <1>2, <2>1
  <2>2. QED
    BY <2>1 DEF Byte
<1>6. ASSUME NEW j \in Int, j <= Len(m), j >= 1 PROVE Byte(m, b1, j) = Byte(l, b, j + 1)
  BY <1>1, <1>6 DEF Byte
<1>7. ASSUME NEW j \in -1 .. Len(m) PROVE Byte(m, b1, j) = 3 <=> Byte(l, b, j + 1) = 3
  <2>1. CASE j >= 1
    BY <1>6, <2>1
  <2>2. CASE j = 0
    BY <1>1, <2>2 DEF Byte
  <2>3. CASE j = -1
    BY <1>1, <1>4, <1>5, <2>3 DEF Byte
  <2>4. QED
    BY <2>1, <2>2, <2>3
<1>8. ASSUME NEW k \in Q
      PROVE  /\ -1 <= k /\ k + 6 <= Len(m)
             /\ Byte(m, b1, k) = 3 /\ Byte(m, b1, k + 1) = 3 /\ m[k + 2] = c
             /\ m[k + 3] = 0 /\ m[k + 4] = 0 /\ m[k + 5] = 0 /\ m[k + 6] = 0
  <2>1. PICK i \in P : k = i - 1
    OBVIOUS
  <2>2. -1 <= k /\ k + 6 <= Len(m)
    BY <1>1, <1>2, <1>3, <2>1
  <2>3. Byte(m, b1, k) = 3 /\ Byte(m, b1, k + 1) = 3
    BY <1>1, <1>2, <1>7, <2>1, <2>2
  <2>4. /\ m[k + 2] = l[i + 2] /\ m[k + 3] = l[i + 3] /\ m[k + 4] = l[i + 4]
        /\ m[k + 5] = l[i + 5] /\ m[k + 6] = l[i + 6]
    BY <1>1, <2>1, <2>2
  <2>5. QED
    BY <1>2, <2>2, <2>3, <2>4
<1>9. \A i, j \in Q : i < j => i + 7 <= j
  BY DEF Requests
<1>10. ASSUME NEW j \in -1 .. Len(m), Byte(m, b1, j) = 3 PROVE j \in Q \/ j - 1 \in Q
  <2>1. Byte(l, b, j + 1) = 3 /\ j + 1 \in -1 .. Len(l)
    BY <1>1, <1>7, <1>10
  <2>2. j + 1 \in P \/ j \in P
    BY <2>1 DEF Requests
  <2>3. QED
    BY <2>2
<1>11. QED
  BY <1>8, <1>9, <1>10 DEF Requests

\* Behind two breaks there is a whole request, and the command is the client's.
LEMMA CommandOnLine ==
  ASSUME NEW l \in Seq(Nat), NEW c \in {0, 1}, NEW P \in SUBSET Int,
         Requests(l, 2, c, P)
  PROVE  /\ -1 \in P /\ Len(l) >= 5 /\ Head(l) = c
         /\ l[2] = 0 /\ l[3] = 0 /\ l[4] = 0 /\ l[5] = 0
         /\ \A i \in P : i = -1 \/ i >= 6
<1>1. Byte(l, 2, -1) = 3
  BY DEF Byte
<1>2. -1 \in P
  BY <1>1 DEF Requests
<1>3. /\ -1 + 6 <= Len(l) /\ l[-1 + 2] = c
      /\ l[-1 + 3] = 0 /\ l[-1 + 4] = 0 /\ l[-1 + 5] = 0 /\ l[-1 + 6] = 0
  BY <1>2 DEF Requests
<1>4. \A i \in P : -1 <= i /\ (-1 < i => -1 + 7 <= i)
  BY <1>2 DEF Requests
<1>5. QED
  BY <1>2, <1>3, <1>4

\* The server takes a command, and of the zeros behind it as many as have come: what
\* stays of them is read as text.
LEMMA CommandTaken ==
  ASSUME NEW l \in Seq(Nat), NEW c \in {0, 1}, NEW P \in SUBSET Int,
         Requests(l, 2, c, P), NEW n \in 0 .. 4
  PROVE  LET Q == {i - (n + 1) : i \in P \ {-1}}
         IN Requests(SubSeq(l, n + 2, Len(l)), 0, c, Q)
<1> DEFINE m == SubSeq(l, n + 2, Len(l))
           Q == {i - (n + 1) : i \in P \ {-1}}
<1>1. /\ Len(l) >= 5 /\ \A i \in P : i = -1 \/ i >= 6
      /\ l[2] = 0 /\ l[3] = 0 /\ l[4] = 0 /\ l[5] = 0
  BY CommandOnLine
<1>2. /\ Len(m) = Len(l) - (n + 1) /\ m \in Seq(Nat)
      /\ \A i \in 1 .. Len(m) : m[i] = l[i + (n + 1)]
  BY <1>1
<1>3. \A i \in P : /\ -1 <= i /\ i + 6 <= Len(l)
                   /\ Byte(l, 2, i) = 3 /\ Byte(l, 2, i + 1) = 3 /\ l[i + 2] = c
                   /\ l[i + 3] = 0 /\ l[i + 4] = 0 /\ l[i + 5] = 0 /\ l[i + 6] = 0
  BY DEF Requests
<1>4. ASSUME NEW k \in Q
      PROVE  /\ -1 <= k /\ k + 6 <= Len(m)
             /\ Byte(m, 0, k) = 3 /\ Byte(m, 0, k + 1) = 3 /\ m[k + 2] = c
             /\ m[k + 3] = 0 /\ m[k + 4] = 0 /\ m[k + 5] = 0 /\ m[k + 6] = 0
  <2>1. PICK i \in P \ {-1} : k = i - (n + 1)
    OBVIOUS
  <2>2. i >= 6 /\ i + 6 <= Len(l) /\ i \in Int /\ k \in Int /\ i = k + (n + 1)
    BY <1>1, <1>3, <2>1
  <2>3. k >= 1 /\ k + 6 <= Len(m)
    BY <1>2, <2>2
  <2>4. l[i] = 3 /\ l[i + 1] = 3
    BY <1>3, <2>1, <2>2 DEF Byte
  <2>6. \A d \in 0 .. 6 : m[k + d] = l[k + d + (n + 1)]
    <3> HIDE DEF m
    <3>1. \A d \in 0 .. 6 : k + d \in 1 .. Len(m)
      BY <1>2, <2>2, <2>3
    <3>2. QED
      BY <1>2, <3>1
  <2>7. /\ m[k] = l[i] /\ m[k + 1] = l[i + 1] /\ m[k + 2] = l[i + 2]
        /\ m[k + 3] = l[i + 3] /\ m[k + 4] = l[i + 4]
        /\ m[k + 5] = l[i + 5] /\ m[k + 6] = l[i + 6]
    <3> HIDE DEF m
    <3>1. /\ m[k + 0] = l[k + 0 + (n + 1)] /\ m[k + 1] = l[k + 1 + (n + 1)]
          /\ m[k + 2] = l[k + 2 + (n + 1)] /\ m[k + 3] = l[k + 3 + (n + 1)]
          /\ m[k + 4] = l[k + 4 + (n + 1)] /\ m[k + 5] = l[k + 5 + (n + 1)]
          /\ m[k + 6] = l[k + 6 + (n + 1)]
      BY <2>6
    <3>2. QED
      BY <2>2, <3>1
  <2>8. Byte(m, 0, k) = m[k] /\ Byte(m, 0, k + 1) = m[k + 1]
    <3> HIDE DEF m
    <3>1. QED
      BY <2>2, <2>3 DEF Byte
  <2> HIDE DEF m
  <2>9. QED
    BY <1>3, <2>1, <2>3, <2>4, <2>7, <2>8
<1>5. ASSUME NEW i \in P \ {-1}, NEW j \in P \ {-1}, i - (n + 1) < j - (n + 1)
      PROVE  i - (n + 1) + 7 <= j - (n + 1)
  <2>1. i < j /\ i \in Int /\ j \in Int
    BY <1>5
  <2>2. i + 7 <= j
    BY <2>1 DEF Requests
  <2>3. QED
    BY <2>1, <2>2
<1>6. ASSUME NEW j \in -1 .. Len(m), Byte(m, 0, j) = 3 PROVE j \in Q \/ j - 1 \in Q
  <2> DEFINE i == j + (n + 1)
  <2>1. j >= 1 /\ m[j] = 3
    BY <1>6 DEF Byte
  <2>2. l[i] = 3 /\ i \in 2 .. Len(l)
    <3> HIDE DEF m
    <3>1. QED
      BY SMTT(30), <1>2, <2>1
  <2>3. i \in P \/ i - 1 \in P
    <3>1. Byte(l, 2, i) = 3
      BY <2>2 DEF Byte
    <3>2. QED
      BY <2>2, <3>1 DEF Requests
  <2>4. i >= 6
    BY <1>1, <2>2
  <2>5. QED
    BY <2>3, <2>4
<1>7. QED
  BY <1>4, <1>5, <1>6 DEF Requests

\* The client puts a request at the end of the line.
LEMMA RequestAdded ==
  ASSUME NEW l \in Seq(Nat), NEW b \in 0 .. 2, NEW c \in {0, 1}, NEW P \in SUBSET Int,
         Requests(l, b, c, P)
  PROVE  Requests(l \o Request(c), b, c, P \cup {Len(l) + 1})
<1> DEFINE m == l \o Request(c)
           e == Len(l)
<1>1. Request(c) \in Seq(Nat) /\ Len(Request(c)) = 7
  BY DEF Request
<1> DEFINE r == Request(c)
<1>2. /\ m \in Seq(Nat) /\ Len(m) = Len(l) + Len(r)
      /\ \A i \in 1 .. Len(l) : m[i] = l[i]
      /\ \A i \in Len(l) + 1 .. Len(l) + Len(r) : m[i] = r[i - Len(l)]
  <2> HIDE DEF r
  <2>1. QED
    BY <1>1, Concat DEF r
<1>3. /\ r[1] = 3 /\ r[2] = 3 /\ r[3] = c /\ r[4] = 0 /\ r[5] = 0 /\ r[6] = 0 /\ r[7] = 0
      /\ Len(r) = 7
  BY DEF Request
<1> HIDE DEF m, r
<1>4. /\ Len(m) = e + 7 /\ m[e + 1] = 3 /\ m[e + 2] = 3 /\ m[e + 3] = c
      /\ m[e + 4] = 0 /\ m[e + 5] = 0 /\ m[e + 6] = 0 /\ m[e + 7] = 0
  <2>1. e \in Nat /\ \A i \in e + 1 .. e + 7 : m[i] = r[i - e]
    BY <1>2, <1>3
  <2>2. \A d \in 1 .. 7 : m[e + d] = r[d]
    <3>1. ASSUME NEW d \in 1 .. 7 PROVE m[e + d] = r[(e + d) - e]
      BY <2>1
    <3>2. \A d \in 1 .. 7 : (e + d) - e = d
      BY <2>1
    <3>3. QED
      BY <3>1, <3>2
  <2>3. QED
    BY <1>2, <1>3, <2>2
<1>5. \A i \in -1 .. e : Byte(m, b, i) = Byte(l, b, i)
  BY <1>2 DEF Byte
<1>6. ASSUME NEW i \in P
      PROVE  /\ -1 <= i /\ i + 6 <= Len(m) /\ i + 7 <= e + 1
             /\ Byte(m, b, i) = 3 /\ Byte(m, b, i + 1) = 3 /\ m[i + 2] = c
             /\ m[i + 3] = 0 /\ m[i + 4] = 0 /\ m[i + 5] = 0 /\ m[i + 6] = 0
  <2>1. /\ -1 <= i /\ i + 6 <= e /\ Byte(l, b, i) = 3 /\ Byte(l, b, i + 1) = 3 /\ l[i + 2] = c
        /\ l[i + 3] = 0 /\ l[i + 4] = 0 /\ l[i + 5] = 0 /\ l[i + 6] = 0
    BY DEF Requests
  <2>2. i \in Int /\ e \in Nat
    OBVIOUS
  <2>3. \A d \in 2 .. 6 : m[i + d] = l[i + d]
    <3>1. \A d \in 2 .. 6 : i + d \in 1 .. e
      BY <2>1, <2>2
    <3>2. QED
      BY <1>2, <3>1
  <2>4. /\ m[i + 2] = l[i + 2] /\ m[i + 3] = l[i + 3] /\ m[i + 4] = l[i + 4]
        /\ m[i + 5] = l[i + 5] /\ m[i + 6] = l[i + 6]
    BY <2>3
  <2>5. Byte(m, b, i) = Byte(l, b, i) /\ Byte(m, b, i + 1) = Byte(l, b, i + 1)
    BY SMTT(30), <1>5, <2>1, <2>2
  <2>6. QED
    BY <1>4, <2>1, <2>2, <2>4, <2>5
<1>7. Byte(m, b, e + 1) = 3 /\ Byte(m, b, e + 2) = 3
  <2>1. e \in Nat
    OBVIOUS
  <2>2. Byte(m, b, e + 1) = m[e + 1] /\ Byte(m, b, e + 2) = m[e + 2]
    BY <2>1 DEF Byte
  <2>3. QED
    BY <1>4, <2>2
<1>8. \A i, j \in P \cup {e + 1} : i < j => i + 7 <= j
  BY SMTT(30), <1>6 DEF Requests
<1>9. ASSUME NEW j \in -1 .. Len(m), Byte(m, b, j) = 3
      PROVE  j \in P \cup {e + 1} \/ j - 1 \in P \cup {e + 1}
  <2>1. CASE j <= e
    BY <1>5, <1>9, <2>1 DEF Requests
  <2>2. CASE j > e
    <3>1. m[j] = 3
      BY <1>9, <2>2 DEF Byte
    <3>2. /\ e \in Nat /\ j \in Int
          /\ \/ j = e + 1 \/ j = e + 2 \/ j = e + 3 \/ j = e + 4
             \/ j = e + 5 \/ j = e + 6 \/ j = e + 7
      BY <1>4, <2>2
    <3>3. j = e + 1 \/ j = e + 2
      BY <1>4, <3>1, <3>2
    <3>4. j = e + 1 \/ j - 1 = e + 1
      BY <3>2, <3>3
    <3>5. QED
      BY <3>4
  <2>3. QED
    BY <2>1, <2>2
<1>10. QED
  <2>1. /\ -1 <= e + 1 /\ e + 1 + 6 <= Len(m)
        /\ m[e + 1 + 2] = c /\ m[e + 1 + 3] = 0 /\ m[e + 1 + 4] = 0 /\ m[e + 1 + 5] = 0
        /\ m[e + 1 + 6] = 0 /\ Byte(m, b, e + 1 + 1) = 3
    <3>1. e \in Nat
      OBVIOUS
    <3>2. /\ e + 1 + 2 = e + 3 /\ e + 1 + 3 = e + 4 /\ e + 1 + 4 = e + 5 /\ e + 1 + 5 = e + 6
          /\ e + 1 + 6 = e + 7 /\ e + 1 + 1 = e + 2
      BY <3>1
    <3>3. QED
      BY <1>4, <1>7, <3>1, <3>2
  <2>2. \A i \in P \cup {e + 1} :
          /\ -1 <= i /\ i + 6 <= Len(m)
          /\ Byte(m, b, i) = 3 /\ Byte(m, b, i + 1) = 3 /\ m[i + 2] = c
          /\ m[i + 3] = 0 /\ m[i + 4] = 0 /\ m[i + 5] = 0 /\ m[i + 6] = 0
    BY <1>6, <1>7, <2>1
  <2>3. QED
    BY <1>8, <1>9, <2>2 DEF Requests, m, r

\* A line without requests is one without breaks.
LEMMA NoCommands ==
  ASSUME NEW l \in Seq(Nat), NEW b \in 0 .. 2, NEW c, NEW d, Requests(l, b, c, {})
  PROVE  Commands(l, b, d)
<1>1. \A i \in -1 .. Len(l) : Byte(l, b, i) # 3
  BY DEF Requests
<1>2. Len(l) \in -1 .. Len(l) /\ \A i \in -1 .. Len(l) - 2 : i \in -1 .. Len(l)
  OBVIOUS
<1>3. QED
  BY <1>1, <1>2 DEF Commands

\* The server reads a byte that is no command.
LEMMA ByteOfCommands ==
  ASSUME NEW l \in Seq(Nat), NEW b \in 0 .. 1, NEW c, Commands(l, b, c), l # <<>>
  PROVE  Commands(Tail(l), IF Head(l) = 3 THEN b + 1 ELSE 0, c)
<1> DEFINE b1 == IF Head(l) = 3 THEN b + 1 ELSE 0
           m == Tail(l)
<1>1. /\ m \in Seq(Nat) /\ Len(m) = Len(l) - 1 /\ Head(l) = l[1] /\ b1 \in 0 .. 2
      /\ \A i \in 1 .. Len(m) : m[i] = l[i + 1]
  OBVIOUS
<1>2. ASSUME NEW j \in -1 .. Len(m) PROVE Byte(m, b1, j) = 3 => Byte(l, b, j + 1) = 3
  <2>1. CASE j >= 1
    BY <1>1, <2>1 DEF Byte
  <2>2. CASE j = 0
    BY <1>1, <2>2 DEF Byte
  <2>3. CASE j = -1
    BY <1>1, <2>3 DEF Byte
  <2>4. QED
    BY <2>1, <2>2, <2>3
<1>3. ASSUME NEW i \in -1 .. Len(m) - 2, Byte(m, b1, i) = 3, Byte(m, b1, i + 1) = 3
      PROVE  m[i + 2] = c
  <2>1. i \in Int /\ i \in -1 .. Len(m) /\ i + 1 \in -1 .. Len(m) /\ i + 1 \in -1 .. Len(l) - 2
    BY <1>1
  <2>2. Byte(l, b, i + 1) = 3 /\ Byte(l, b, (i + 1) + 1) = 3
    BY <1>2, <1>3, <2>1
  <2>3. l[(i + 1) + 2] = c
    BY <2>1, <2>2 DEF Commands
  <2>4. i + 2 \in 1 .. Len(m) /\ (i + 1) + 2 = (i + 2) + 1
    BY <1>1, <2>1
  <2>5. QED
    BY <1>1, <2>3, <2>4
<1>4. Byte(m, b1, Len(m)) # 3
  <2>1. Len(m) \in -1 .. Len(m) /\ Len(m) + 1 = Len(l)
    BY <1>1
  <2>2. Byte(l, b, Len(l)) # 3
    BY DEF Commands
  <2>3. QED
    BY <1>2, <2>1, <2>2
<1>5. QED
  BY <1>3, <1>4 DEF Commands

\* Behind two breaks is the command, and whatever is taken with it, what is left has
\* no other.
LEMMA CommandsTaken ==
  ASSUME NEW l \in Seq(Nat), NEW c, Commands(l, 2, c), l # <<>>
  PROVE  /\ Head(l) = c
         /\ \A n \in 0 .. Len(l) - 1 : Commands(SubSeq(l, n + 2, Len(l)), 0, c)
<1>1. Len(l) \in Nat /\ Len(l) >= 1
  OBVIOUS
<1>2. Head(l) = c
  <2>1. Byte(l, 2, -1) = 3 /\ Byte(l, 2, -1 + 1) = 3
    BY DEF Byte
  <2>2. l[-1 + 2] = c
    BY <1>1, <2>1 DEF Commands
  <2>3. QED
    BY <1>1, <2>2
<1>3. ASSUME NEW n \in 0 .. Len(l) - 1 PROVE Commands(SubSeq(l, n + 2, Len(l)), 0, c)
  <2> DEFINE m == SubSeq(l, n + 2, Len(l))
             k == n + 1
  <2>1. /\ m \in Seq(Nat) /\ Len(m) = Len(l) - k /\ k \in Nat
        /\ \A i \in 1 .. Len(m) : m[i] = l[i + k]
    BY <1>1
  <2> HIDE DEF m, k
  <2>2. ASSUME NEW j \in -1 .. Len(m), Byte(m, 0, j) = 3 PROVE j >= 1 /\ Byte(l, 2, j + k) = 3
    <3>1. j \in Int /\ j >= 1
      BY <2>2 DEF Byte
    <3>2. m[j] = 3 /\ m[j] = l[j + k] /\ j + k >= 1
      BY <2>1, <2>2, <3>1 DEF Byte
    <3>3. QED
      BY <3>1, <3>2 DEF Byte
  <2>3. ASSUME NEW i \in -1 .. Len(m) - 2, Byte(m, 0, i) = 3, Byte(m, 0, i + 1) = 3
        PROVE  m[i + 2] = c
    <3>1. i \in Int /\ i \in -1 .. Len(m) /\ i + 1 \in -1 .. Len(m)
      BY <2>1
    <3>2. i >= 1 /\ Byte(l, 2, i + k) = 3 /\ Byte(l, 2, (i + 1) + k) = 3
      BY <2>2, <2>3, <3>1
    <3>3. /\ i + k \in -1 .. Len(l) - 2 /\ (i + 1) + k = (i + k) + 1
          /\ i + 2 \in 1 .. Len(m) /\ (i + 2) + k = (i + k) + 2
      BY <1>1, <2>1, <3>1, <3>2
    <3>4. l[(i + k) + 2] = c
      BY <3>2, <3>3 DEF Commands
    <3>5. m[i + 2] = l[(i + 2) + k]
      BY ONLY <2>1, <3>3
    <3>6. QED
      BY ONLY <3>3, <3>4, <3>5
  <2>4. Byte(m, 0, Len(m)) # 3
    <3>1. Len(m) \in -1 .. Len(m) /\ Len(m) + k = Len(l)
      BY <1>1, <2>1
    <3>2. Byte(l, 2, Len(l)) # 3
      BY DEF Commands
    <3>3. QED
      BY <2>2, <3>1, <3>2
  <2>5. Commands(m, 0, c)
    BY <2>3, <2>4 DEF Commands
  <2>6. QED
    BY <2>5 DEF m
<1>4. QED
  BY <1>2, <1>3

\* The client puts a request at the end of the line.
LEMMA CommandAdded ==
  ASSUME NEW l \in Seq(Nat), NEW b \in 0 .. 2, Commands(l, b, 1)
  PROVE  Commands(l \o Request(1), b, 1)
<1> DEFINE m == l \o Request(1)
           e == Len(l)
           r == Request(1)
<1>1. r \in Seq(Nat) /\ Len(r) = 7
  BY DEF Request
<1>2. /\ m \in Seq(Nat) /\ Len(m) = Len(l) + Len(r)
      /\ \A i \in 1 .. Len(l) : m[i] = l[i]
      /\ \A i \in Len(l) + 1 .. Len(l) + Len(r) : m[i] = r[i - Len(l)]
  <2> HIDE DEF r
  <2>1. QED
    BY <1>1, Concat DEF r
<1>3. r[1] = 3 /\ r[2] = 3 /\ r[3] = 1 /\ r[4] = 0 /\ r[5] = 0 /\ r[6] = 0 /\ r[7] = 0
  BY DEF Request
<1>4. e \in Nat /\ Byte(l, b, e) # 3
  BY DEF Commands
<1> HIDE DEF m, r
<1>5. Len(m) = e + 7 /\ \A d \in 1 .. 7 : m[e + d] = r[d]
  <2>1. Len(m) = e + 7 /\ e \in Nat /\ \A i \in e + 1 .. e + 7 : m[i] = r[i - e]
    BY <1>1, <1>2, <1>4
  <2> HIDE DEF e
  <2>2. ASSUME NEW d \in 1 .. 7 PROVE m[e + d] = r[d]
    <3>1. e + d \in e + 1 .. e + 7 /\ (e + d) - e = d
      BY <2>1
    <3>2. m[e + d] = r[(e + d) - e]
      BY <2>1, <3>1
    <3>3. QED
      BY <3>1, <3>2
  <2>3. QED
    BY <2>1, <2>2
<1>6. \A i \in -1 .. e : Byte(m, b, i) = Byte(l, b, i)
  BY <1>2 DEF Byte
<1>7. ASSUME NEW d \in 1 .. 7 PROVE Byte(m, b, e + d) = r[d]
  <2>1. e + d >= 1
    BY <1>4
  <2>2. QED
    BY <1>5, <2>1 DEF Byte
<1>8. ASSUME NEW i \in -1 .. Len(m) - 2, Byte(m, b, i) = 3, Byte(m, b, i + 1) = 3
      PROVE  m[i + 2] = 1
  <2> HIDE DEF e
  <2>1. i \in Int /\ i <= e + 5 /\ i >= -1
    BY <1>4, <1>5
  <2>2. CASE i + 1 < e
    <3>1. i \in -1 .. e /\ i + 1 \in -1 .. e /\ i \in -1 .. e - 2 /\ i + 2 \in 1 .. e
      BY <1>4, <2>1, <2>2
    <3>2. Byte(m, b, i) = Byte(l, b, i) /\ Byte(m, b, i + 1) = Byte(l, b, i + 1)
      BY ONLY <1>6, <3>1
    <3>3. Byte(l, b, i) = 3 /\ Byte(l, b, i + 1) = 3
      BY ONLY <1>8, <3>2
    <3>4. l[i + 2] = 1
      BY <3>1, <3>3 DEF Commands, e
    <3>5. QED
      BY <1>2, <3>1, <3>4 DEF e
  <2>3. CASE i + 1 = e
    <3>1. Byte(m, b, e) = Byte(l, b, e)
      BY <1>4, <1>6
    <3>2. Byte(m, b, e) = 3
      BY ONLY <1>8, <2>3
    <3>3. QED
      BY ONLY <1>4, <3>1, <3>2
  <2>4. CASE i = e
    <3>1. Byte(m, b, e) = Byte(l, b, e)
      BY <1>4, <1>6
    <3>2. Byte(m, b, e) = 3
      BY ONLY <1>8, <2>4
    <3>3. QED
      BY ONLY <1>4, <3>1, <3>2
  <2>5. CASE i > e
    <3> DEFINE d == i - e
    <3>1. d \in 1 .. 5
      BY <1>4, <2>1, <2>5
    <3>2. i = e + d /\ i + 1 = e + (d + 1) /\ i + 2 = e + (d + 2)
      BY <1>4, <2>1
    <3> HIDE DEF d
    <3>3. d + 1 \in 1 .. 7 /\ d + 2 \in 1 .. 7 /\ d \in 1 .. 7
      BY ONLY <3>1
    <3>4. r[d] = 3 /\ r[d + 1] = 3
      <4>1. Byte(m, b, e + d) = r[d] /\ Byte(m, b, e + (d + 1)) = r[d + 1]
        BY ONLY <1>7, <3>3
      <4>2. Byte(m, b, e + d) = 3
        BY <1>8, <3>2
      <4>3. Byte(m, b, e + (d + 1)) = 3
        BY <1>8, <3>2
      <4>4. QED
        BY ONLY <4>1, <4>2, <4>3
    <3>5. d = 1
      <4>1. d = 1 \/ d = 2 \/ d = 3 \/ d = 4 \/ d = 5
        BY <3>1
      <4>2. QED
        BY <1>3, <3>4, <4>1
    <3>6. m[e + (d + 2)] = r[d + 2]
      BY <1>5, <3>3
    <3>7. QED
      BY <1>3, <3>2, <3>5, <3>6
  <2>6. i + 1 < e \/ i + 1 = e \/ i = e \/ i > e
    BY ONLY <1>4, <2>1
  <2>7. QED
    BY <2>2, <2>3, <2>4, <2>5, <2>6
<1>9. Byte(m, b, Len(m)) # 3
  <2> HIDE DEF e
  <2>1. Byte(m, b, e + 7) = r[7]
    BY <1>7
  <2>2. QED
    BY ONLY <1>3, <1>5, <2>1
<1>10. Commands(m, b, 1)
  BY <1>8, <1>9 DEF Commands
<1>11. QED
  BY <1>10 DEF m

(***************************************************************************)
(* What comes to the client.                                               *)
(***************************************************************************)

\* What is answered, and what a word can be, on the line as it is.
LEMMA AnsweredFacts ==
  ASSUME TypeOK
  PROVE  /\ Answered \subseteq {0, 1} /\ cmd \in Answered
         /\ Words(Answered) \subseteq Words({0, 1}) /\ <<"junk">> \in Words(Answered)
<1>1. Answered \subseteq {0, 1} /\ cmd \in Answered
  BY DEF TypeOK, Answered
<1>2. Words(Answered) \subseteq Words({0, 1})
  BY <1>1, WordsGrow
<1>3. QED
  BY <1>1, <1>2 DEF Words

\* More faults let more be answered.
LEMMA AnsweredGrows ==
  ASSUME TypeOK, cmd' = cmd, faults' = faults \/ faults' = faults + 1
  PROVE  Answered \subseteq Answered' /\ Words(Answered) \subseteq Words(Answered')
<1>1. Answered \subseteq Answered'
  BY DEF TypeOK, Answered
<1>2. QED
  BY <1>1, WordsGrow

\* Reading an answer, the client comes to the next of its words.
LEMMA ReadingOn ==
  ASSUME TypeOK, NEW a, NEW k, Reading(a, k), Waiting, fifo # <<>>,
         fifo' = Tail(fifo), words' = Append(words, Head(fifo)),
         UNCHANGED <<line, out, breaks>>
  PROVE  Reading(a, k + 1)' /\ Head(fifo) = a[k + 1]
<1> DEFINE S == Words(Answered)
<1>1. words \in Seq(S) /\ fifo \in Seq(S) /\ out \in Seq(S)
  BY DEF TypeOK
<1> HIDE DEF S
<1>2. /\ words' \o (Tail(fifo) \o out) = words \o (fifo \o out)
      /\ Head(fifo) = (words \o (fifo \o out))[Len(words) + 1]
      /\ Len(words') = Len(words) + 1
  <2>1. /\ Append(words, Head(fifo)) \o (Tail(fifo) \o out) = words \o (fifo \o out)
        /\ Head(fifo) = (words \o (fifo \o out))[Len(words) + 1]
        /\ Len(Append(words, Head(fifo))) = Len(words) + 1
    BY SMTT(30), <1>1
  <2>2. QED
    BY <2>1
<1>3. words \o (fifo \o out) = a /\ Len(words) = k /\ Quiet
  BY DEF Reading, coming
<1>4. Quiet'
  BY <1>3 DEF Quiet, Asked
<1>5. QED
  BY <1>2, <1>3, <1>4 DEF Reading, coming

\* What has been read and what is still coming are the answer.
LEMMA StillComing ==
  ASSUME TypeOK, NEW a, NEW k, Reading(a, k), Waiting
  PROVE  /\ Len(coming) = Len(a) - k /\ coming \in Seq(Words(Answered)) /\ k \in Nat
         /\ \A i \in 1 .. Len(a) - k : coming[i] = a[k + i]
         /\ \A i \in 1 .. k : words[i] = a[i]
<1>1. words \in Seq(Words(Answered)) /\ fifo \in Seq(Words(Answered))
      /\ out \in Seq(Words(Answered))
  BY DEF TypeOK
<1> DEFINE S == Words(Answered)
<1> HIDE DEF S
<1>2. coming \in Seq(S)
  BY <1>1 DEF S, coming
<1> DEFINE z == coming
<1> HIDE DEF z
<1>3. words \in Seq(S) /\ z \in Seq(S) /\ words \o z = a /\ Len(words) = k
  BY <1>1, <1>2 DEF Reading, S, z
<1>4. /\ Len(z) = Len(a) - k /\ k \in Nat /\ Len(a) \in Nat
      /\ \A i \in 1 .. k : words[i] = a[i]
  BY <1>3
<1>5. \A i \in 1 .. Len(a) - k : z[i] = a[k + i]
  BY SMTT(30), <1>3, <1>4
<1>6. QED
  BY <1>2, <1>4, <1>5 DEF z, S

(***************************************************************************)
(* The steps of the line and the server.                                   *)
(***************************************************************************)

\* What is left to show of a step that the client has no part in.
LEMMA ClientStill ==
  ASSUME IInv, UNCHANGED clientVars, faults' = faults \/ faults' = faults + 1,
         calm' \in BOOLEAN, calm' = TRUE => calm = TRUE /\ faults' = faults,
         line' \in Seq(Nat), breaks' \in 0 .. 2,
         fifo' \in Seq(Words(Answered')), out' \in Seq(Words(Answered')),
         OnTheLine', Contacting'
  PROVE  IInv'
<1> USE DEF clientVars
<1>1. Answered \subseteq Answered' /\ Words(Answered) \subseteq Words(Answered')
  BY AnsweredGrows DEF IInv
<1>2. TypeOK
  BY DEF IInv
<1>3. /\ server_capabilities' \in SUBSET Nat /\ cmd' \in {0, 1} /\ retries' \in Nat
      /\ left' \in Int /\ ret' \in Int /\ calls' \in Nat /\ faults' \in Nat
  BY <1>2 DEF TypeOK
<1>4. uart' \in BOOLEAN /\ contacted' \in BOOLEAN /\ misread' \in BOOLEAN
  BY <1>2 DEF TypeOK
<1>5. /\ Waiting' \/ pc' \in {"idle", "clear", "cleanup"}
      /\ cmd' = 1 => contacted' /\ (cmd' = 0 /\ pc' # "idle" => ~contacted')
  BY <1>2 DEF TypeOK, Waiting
<1>6. calm' => faults' = 0
  BY <1>2 DEF TypeOK
<1>7. words' \in Seq(Words({0, 1})) /\ (Waiting' => words' \in Seq(Words(Answered')))
  <2>1. words \in Seq(Words({0, 1})) /\ (Waiting => words \in Seq(Words(Answered)))
    BY <1>2 DEF TypeOK
  <2>2. words \in Seq(Words(Answered)) => words \in Seq(Words(Answered'))
    BY <1>1
  <2>3. QED
    BY <2>1, <2>2 DEF Waiting
<1>8. TypeOK'
  BY <1>2, <1>3, <1>4, <1>5, <1>6, <1>7 DEF TypeOK
<1>9. Read'
  BY DEF IInv, Read
<1>10. Accepted'
  <2>1. Accepted
    BY DEF IInv
  <2>2. QED
    BY <1>1, <2>1 DEF Accepted
<1>11. CapabilitiesRight'
  BY DEF IInv, CapabilitiesRight
<1>12. QED
  BY <1>8, <1>9, <1>10, <1>11 DEF IInv

\* A word arrives, or is lost or damaged.
LEMMA ArriveKeeps ==
  ASSUME IInv, Arrive
  PROVE  IInv'
<1>1. /\ UNCHANGED clientVars /\ line' = line /\ breaks' = breaks
      /\ out # <<>> /\ out' = Tail(out)
  BY DEF Arrive, serverVars
<1>2. TypeOK
  BY DEF IInv
<1>3. line' \in Seq(Nat) /\ breaks' \in 0 .. 2
  BY <1>1, <1>2 DEF TypeOK
<1>4. CASE fifo' = Append(fifo, Head(out)) /\ UNCHANGED <<faults, calm>>
  <2>1. Answered' = Answered /\ cmd' = cmd
    BY <1>1, <1>4 DEF Answered, clientVars
  <2> DEFINE S == Words(Answered)
  <2>2. fifo \in Seq(S) /\ out \in Seq(S)
    BY <1>2 DEF TypeOK
  <2>3. calm' \in BOOLEAN
    BY <1>2, <1>4 DEF TypeOK
  <2>4. fifo' \in Seq(S) /\ out' \in Seq(S) /\ fifo' \o out' = fifo \o out
    <3> HIDE DEF S
    <3>1. QED
      BY <1>1, <1>4, <2>2
  <2>5. coming' = coming
    BY <2>4 DEF coming
  <2>6. OnTheLine' /\ Quiet' = Quiet /\ Asked' = Asked
    BY <1>1, <1>4 DEF IInv, OnTheLine, Asked, Quiet, clientVars
  <2>7. Contacting'
    BY <1>1, <1>4, <2>5, <2>6
       DEF IInv, Contacting, FirstExchange, Over, AtMagic, Reading, AtCleanup, clientVars
  <2>8. QED
    BY <1>1, <1>3, <1>4, <2>1, <2>3, <2>4, <2>6, <2>7, ClientStill
<1>5. CASE fifo' \in {Append(fifo, <<"junk">>), fifo} /\ Fault
  <2>1. faults' = faults + 1 /\ faults \in Nat /\ cmd' = cmd
    BY <1>1, <1>2, <1>5 DEF Fault, TypeOK, clientVars
  <2>2. calm' = FALSE
    BY <1>5 DEF Fault
  <2> DEFINE S == Words(Answered')
  <2>3. Words(Answered) \subseteq S /\ <<"junk">> \in S
    BY <1>2, <2>1, AnsweredGrows, AnsweredFacts
  <2>4. fifo \in Seq(Words(Answered)) /\ out \in Seq(Words(Answered))
    BY <1>2 DEF TypeOK
  <2>5. fifo \in Seq(S) /\ out \in Seq(S)
    <3> HIDE DEF S
    <3>1. QED
      BY <2>3, <2>4
  <2>6. fifo' \in Seq(S) /\ out' \in Seq(S)
    <3> DEFINE junk == <<"junk">>
    <3>1. junk \in S /\ (fifo' = Append(fifo, junk) \/ fifo' = fifo)
      BY <1>5, <2>3
    <3> HIDE DEF S, junk
    <3>2. Append(fifo, junk) \in Seq(S) /\ Tail(out) \in Seq(S)
      BY <1>1, <2>5, <3>1
    <3>3. QED
      BY <1>1, <2>5, <3>1, <3>2
  <2>7. OnTheLine' /\ Contacting'
    BY <2>1 DEF OnTheLine, Contacting
  <2>8. QED
    BY <1>1, <1>3, <2>1, <2>2, <2>6, <2>7, ClientStill
<1>6. QED
  BY <1>4, <1>5 DEF Arrive

\* A byte of the line is lost or damaged.
LEMMA LineFaultKeeps ==
  ASSUME IInv, LineFault
  PROVE  IInv'
<1>1. UNCHANGED clientVars /\ breaks' = breaks /\ out' = out /\ fifo' = fifo /\ cmd' = cmd
  BY DEF LineFault, clientVars, serverVars
<1>2. TypeOK
  BY DEF IInv
<1>3. faults' = faults + 1 /\ faults \in Nat /\ breaks' \in 0 .. 2
  BY <1>1, <1>2 DEF LineFault, Fault, TypeOK
<1>4. calm' = FALSE
  BY DEF LineFault, Fault
<1>5. line' \in Seq(Nat)
  <2>1. line \in Seq(Nat)
    BY <1>2 DEF TypeOK
  <2>2. PICK i \in DOMAIN line :
          line' \in {SubSeq(line, 1, i - 1) \o SubSeq(line, i + 1, Len(line)),
                     [line EXCEPT ![i] = 9]}
    BY DEF LineFault
  <2>3. i \in 1 .. Len(line)
    BY <2>1
  <2>4. SubSeq(line, 1, i - 1) \in Seq(Nat) /\ SubSeq(line, i + 1, Len(line)) \in Seq(Nat)
    BY <2>1, <2>3
  <2>5. [line EXCEPT ![i] = 9] \in Seq(Nat)
    BY <2>1, <2>3
  <2>6. SubSeq(line, 1, i - 1) \o SubSeq(line, i + 1, Len(line)) \in Seq(Nat)
    BY <2>4
  <2>7. QED
    BY <2>2, <2>5, <2>6
<1>6. fifo' \in Seq(Words(Answered')) /\ out' \in Seq(Words(Answered'))
  <2>1. Words(Answered) \subseteq Words(Answered')
    BY <1>1, <1>2, <1>3, AnsweredGrows
  <2>2. fifo \in Seq(Words(Answered)) /\ out \in Seq(Words(Answered))
    BY <1>2 DEF TypeOK
  <2>3. QED
    BY <1>1, <2>1, <2>2
<1>7. OnTheLine' /\ Contacting'
  BY <1>3 DEF OnTheLine, Contacting
<1>8. QED
  BY <1>1, <1>3, <1>4, <1>5, <1>6, <1>7, ClientStill

\* The server reads a byte that is no command.
LEMMA ServerReadsKeeps ==
  ASSUME IInv, ServerReads
  PROVE  IInv'
<1>1. /\ UNCHANGED <<clientVars, out, fifo, faults, calm>> /\ cmd' = cmd
      /\ line # <<>> /\ breaks < 2 /\ line' = Tail(line)
      /\ breaks' = IF Head(line) = 3 THEN breaks + 1 ELSE 0
  BY DEF ServerReads, clientVars
<1>2. TypeOK
  BY DEF IInv
<1>3. line \in Seq(Nat) /\ breaks \in 0 .. 1 /\ cmd \in {0, 1} /\ faults \in Nat
  BY <1>1, <1>2 DEF TypeOK
<1>4. line' \in Seq(Nat) /\ breaks' \in 0 .. 2
  BY <1>1, <1>3
<1>5. Answered' = Answered
  BY <1>1 DEF Answered
<1>6. fifo' \in Seq(Words(Answered')) /\ out' \in Seq(Words(Answered')) /\ calm' \in BOOLEAN
  BY <1>1, <1>2, <1>5 DEF TypeOK
<1>7. ASSUME faults = 0, cmd = 0
      PROVE  Requests(line', breaks', cmd, Asked') /\ Asked' = {i - 1 : i \in Asked}
  <2> DEFINE Q == {i - 1 : i \in Asked}
  <2>1. Requests(line, breaks, cmd, Asked) /\ Asked \in SUBSET Int
    BY <1>7 DEF IInv, OnTheLine, Asked, Starts
  <2>2. Requests(line', breaks', cmd, Q)
    BY <1>1, <1>3, <2>1, ByteRead
  <2>3. Q \in SUBSET Int
    BY <2>1
  <2>4. Q = Asked'
    <3> HIDE DEF Q
    <3>1. Q = Starts(line', breaks')
      BY <1>3, <1>4, <2>2, <2>3, RequestsAtStarts
    <3>2. QED
      BY <3>1 DEF Asked
  <2>5. QED
    BY <2>2, <2>4
<1>8. OnTheLine'
  <2>1. ASSUME faults = 0, cmd # 0 PROVE Commands(line', breaks', 1)
    BY <1>1, <1>3, <2>1, ByteOfCommands DEF IInv, OnTheLine
  <2>2. QED
    BY <1>1, <1>7, <2>1 DEF OnTheLine
<1>9. Contacting'
  <2>1. SUFFICES ASSUME faults = 0, cmd = 0 PROVE FirstExchange'
    BY <1>1 DEF Contacting
  <2>2. Asked' = {i - 1 : i \in Asked} /\ coming' = coming /\ FirstExchange
    BY <1>1, <1>7, <2>1 DEF coming, IInv, Contacting
  <2>3. Quiet => Quiet'
    BY <2>2 DEF Quiet
  <2>4. (\E i \in Asked : Asked = {i}) => (\E i \in Asked' : Asked' = {i})
    <3>1. ASSUME NEW i \in Asked, Asked = {i} PROVE i - 1 \in Asked' /\ Asked' = {i - 1}
      BY <2>2, <3>1
    <3>2. QED
      BY <3>1
  <2>5. Over => Over'
    BY <1>1, <2>2, <2>3 DEF Over
  <2>6. AtMagic => AtMagic'
    BY <1>1, <2>2, <2>3, <2>4 DEF AtMagic
  <2>7. AtCleanup => AtCleanup'
    BY <1>1, <2>2, <2>3, <2>5 DEF AtCleanup, clientVars
  <2>8. QED
    BY <1>1, <2>2, <2>3, <2>5, <2>6, <2>7 DEF FirstExchange, Reading, clientVars
<1>10. QED
  BY <1>1, <1>4, <1>6, <1>8, <1>9, ClientStill

\* On a line without faults the byte behind two breaks is the client's command.
LEMMA CommandIsOwn ==
  ASSUME IInv, faults = 0, line # <<>>, breaks = 2
  PROVE  Head(line) = cmd
<1>1. line \in Seq(Nat) /\ cmd \in {0, 1} /\ Asked \in SUBSET Int
  BY DEF IInv, TypeOK, Asked, Starts
<1>2. CASE cmd = 0
  <2>1. Requests(line, 2, 0, Asked)
    BY <1>2 DEF IInv, OnTheLine
  <2>2. QED
    BY <1>1, <1>2, <2>1, CommandOnLine
<1>3. CASE cmd = 1
  <2>1. Commands(line, 2, 1)
    BY <1>3 DEF IInv, OnTheLine
  <2>2. QED
    BY <1>1, <1>3, <2>1, CommandsTaken
<1>4. QED
  BY <1>1, <1>2, <1>3

\* In the first exchange what the server takes of the checksum is right.
LEMMA CommandRight ==
  ASSUME IInv, faults = 0, cmd = 0, line # <<>>, breaks = 2, cmd' = cmd, NEW n \in Available(4),
         line' = SubSeq(line, n + 2, Len(line)), breaks' = 0
  PROVE  /\ Head(line) = cmd /\ Identified(n) /\ ~Quiet
         /\ Requests(line', breaks', cmd', Asked')
         /\ \A i \in Asked : Asked = {i} => Quiet'
<1>1. line \in Seq(Nat) /\ cmd \in {0, 1} /\ Asked \in SUBSET Int
  BY DEF IInv, TypeOK, Asked, Starts
<1>2. Requests(line, 2, cmd, Asked)
  BY DEF IInv, OnTheLine
<1>3. /\ -1 \in Asked /\ Len(line) >= 5 /\ Head(line) = cmd
      /\ line[2] = 0 /\ line[3] = 0 /\ line[4] = 0 /\ line[5] = 0
  BY <1>1, <1>2, CommandOnLine
<1>4. n \in 0 .. 4
  BY <1>1, <1>3 DEF Available
<1>5. Identified(n)
  <2>1. \A i \in 1 .. n : Taken(n)[i] = line[i + 1]
    BY <1>1, <1>3, <1>4 DEF Taken
  <2>2. ASSUME NEW i \in 1 .. n PROVE line[i + 1] = 0
    <3>1. i = 1 \/ i = 2 \/ i = 3 \/ i = 4
      BY <1>4
    <3>2. QED
      BY <1>3, <3>1
  <2>3. QED
    BY <2>1, <2>2 DEF Identified
<1> DEFINE Q == {i - (n + 1) : i \in Asked \ {-1}}
<1>6. Requests(line', breaks', cmd, Q)
  BY <1>1, <1>2, <1>4, CommandTaken
<1>7. line' \in Seq(Nat) /\ Q \in SUBSET Int
  BY SMTT(30), <1>1, <1>3, <1>4
<1>8. Q = Asked'
  <2> HIDE DEF Q
  <2> DEFINE l == line'
             b == breaks'
  <2>1. l \in Seq(Nat) /\ b \in 0 .. 2 /\ Requests(l, b, cmd, Q) /\ Q \in SUBSET Int
    BY <1>6, <1>7 DEF Q
  <2> HIDE DEF l, b
  <2>2. Q = Starts(l, b)
    BY <1>1, <2>1, RequestsAtStarts
  <2>3. QED
    BY <2>2 DEF Asked, l, b
<1>9. ~Quiet
  BY <1>3 DEF Quiet
<1>10. \A i \in Asked : Asked = {i} => Quiet'
  BY <1>3, <1>8 DEF Quiet
<1>11. QED
  BY <1>3, <1>5, <1>6, <1>8, <1>9, <1>10

\* The bytes that the server can take are on the line.
LEMMA TakenBytes ==
  ASSUME line \in Seq(Nat), line # <<>>
  PROVE  /\ Available(Len(line)) = 0 .. Len(line) - 1
         /\ Available(4) \subseteq Available(Len(line))
<1>1. Len(line) \in Nat /\ Len(line) >= 1
  OBVIOUS
<1>2. QED
  BY <1>1 DEF Available

\* What is left to show of a step in which the server answers.
LEMMA AnswerSent ==
  ASSUME IInv, line # <<>>, breaks = 2, NEW n \in Available(Len(line)),
         cmd = 0 => n \in Available(4) \/ faults # 0,
         NEW s \in Seq(Words(Answered)), Sends(s, n), calm' = (calm /\ n = 4), Contacting'
  PROVE  IInv'
<1>1. /\ UNCHANGED clientVars /\ faults' = faults /\ fifo' = fifo /\ out' = out \o s
      /\ line' = SubSeq(line, n + 2, Len(line)) /\ breaks' = 0 /\ cmd' = cmd
  BY DEF Sends, clientVars
<1>2. TypeOK
  BY DEF IInv
<1>3. line' \in Seq(Nat) /\ breaks' \in 0 .. 2
  <2>1. line \in Seq(Nat) /\ n \in 0 .. Len(line) - 1
    BY <1>2, TakenBytes DEF TypeOK
  <2>2. SubSeq(line, n + 2, Len(line)) \in Seq(Nat)
    BY <2>1
  <2>3. QED
    BY <1>1, <2>2
<1>4. fifo' \in Seq(Words(Answered')) /\ out' \in Seq(Words(Answered'))
  <2>1. Answered' = Answered
    BY <1>1 DEF Answered
  <2>2. fifo \in Seq(Words(Answered)) /\ out \in Seq(Words(Answered))
    BY <1>2 DEF TypeOK
  <2>3. QED
    BY <1>1, <2>1, <2>2
<1>5. calm' \in BOOLEAN /\ (calm' = TRUE => calm = TRUE)
  BY <1>2 DEF TypeOK
<1>6. OnTheLine'
  <2>1. ASSUME faults = 0, cmd = 0 PROVE Requests(line', breaks', 0, Asked')
    BY <1>1, <2>1, CommandRight
  <2>2. ASSUME faults = 0, cmd # 0 PROVE Commands(line', breaks', 1)
    <3>1. line \in Seq(Nat) /\ n \in 0 .. Len(line) - 1
      BY <1>2, TakenBytes DEF TypeOK
    <3>2. Commands(line, 2, 1)
      BY <2>2 DEF IInv, OnTheLine
    <3>3. QED
      BY <1>1, <3>1, <3>2, CommandsTaken
  <2>3. QED
    BY <1>1, <2>1, <2>2 DEF OnTheLine
<1>7. QED
  BY <1>1, <1>3, <1>4, <1>5, <1>6, ClientStill

\* The server says what it can do, or that the checksum was wrong.
LEMMA ServerIdentifiesKeeps ==
  ASSUME IInv, ServerIdentifies
  PROVE  IInv'
<1>1. line # <<>> /\ breaks = 2 /\ Head(line) = 0
  BY DEF ServerIdentifies, ServerCommand
<1>2. PICK n \in Available(4) :
        /\ calm' = (calm /\ n = 4)
        /\ \/ Identified(n) /\ Sends(Answer(0, 1), n)
           \/ (~Identified(n) \/ n < 4) /\ Sends(Error(CRC_ERROR), n)
  BY DEF ServerIdentifies
<1>3. PICK s :
        /\ Sends(s, n)
        /\ s = Answer(0, 1) \/ (s = Error(CRC_ERROR) /\ (~Identified(n) \/ n < 4))
  BY <1>2
<1>4. /\ UNCHANGED clientVars /\ faults' = faults /\ fifo' = fifo /\ out' = out \o s
      /\ line' = SubSeq(line, n + 2, Len(line)) /\ breaks' = 0 /\ cmd' = cmd
  BY <1>3 DEF Sends, clientVars
<1>5. TypeOK /\ faults \in Nat /\ Answered \subseteq {0, 1} /\ cmd \in Answered
  BY AnsweredFacts DEF IInv, TypeOK
<1>6. faults = 0 => /\ cmd = 0 /\ Identified(n) /\ ~Quiet
                    /\ \A i \in Asked : Asked = {i} => Quiet'
  <2>1. faults = 0 => cmd = 0
    BY <1>1, CommandIsOwn
  <2>2. QED
    BY <1>1, <1>4, <2>1, CommandRight
<1>7. s \in Seq(Words(Answered))
  <2>1. 0 \in Answered
    BY <1>5, <1>6 DEF Answered
  <2>2. 1 \in Lengths(0) /\ CRC_ERROR \in ErrorCodes
    BY DEF Lengths, ErrorCodes
  <2>3. Answer(0, 1) \in Seq(Words(Answered)) /\ Error(CRC_ERROR) \in Seq(Words(Answered))
    BY <2>1, <2>2, AnswerWords, ErrorWords
  <2>4. QED
    BY <1>3, <2>3
<1>8. Contacting'
  <2>1. SUFFICES ASSUME faults = 0, cmd = 0 PROVE FirstExchange'
    BY <1>4 DEF Contacting
  <2>2. FirstExchange /\ ~Quiet
    BY <1>6, <2>1 DEF IInv, Contacting
  <2>3. ~Over
    BY <2>2 DEF Over
  <2>4. pc \in {"magic", "cleanup", "idle"}
    BY <1>5, <2>2, <2>3 DEF FirstExchange, Reading, TypeOK, Waiting
  <2>5. CASE pc = "idle"
    BY <1>4, <2>2, <2>5 DEF FirstExchange, clientVars
  <2>6. CASE pc = "cleanup"
    <3>1. ret # 4 /\ ret # CRC_ERROR /\ ~calm
      BY <2>2, <2>3, <2>6 DEF FirstExchange, AtCleanup
    <3>2. QED
      BY <1>2, <1>4, <2>6, <3>1 DEF FirstExchange, AtCleanup, clientVars
  <2>7. CASE pc = "magic"
    <3>1. fifo \in Seq(Words(Answered)) /\ out \in Seq(Words(Answered))
      BY <1>5 DEF TypeOK
    <3> DEFINE S == Words(Answered)
    <3> HIDE DEF S
    <3>2. fifo \in Seq(S) /\ out \in Seq(S) /\ s \in Seq(S)
      BY <1>7, <3>1 DEF S
    <3>3. /\ fifo \o out = <<>> => fifo \o (out \o s) = s
          /\ fifo \o out # <<>> => /\ fifo \o (out \o s) # <<>>
                                   /\ Head(fifo \o (out \o s)) = Head(fifo \o out)
      BY <3>2
    <3>4. /\ coming = <<>> => coming' = s
          /\ coming # <<>> => coming' # <<>> /\ Head(coming') = Head(coming)
      BY <1>4, <3>3 DEF coming
    <3>5. AtMagic'
      <4>1. AtMagic
        BY <2>2, <2>7 DEF FirstExchange
      <4>2. CASE coming # <<>> /\ Head(coming) = Stale /\ ~calm
        BY <1>2, <3>4, <4>2 DEF AtMagic
      <4>3. CASE (\E i \in Asked : Asked = {i}) /\ coming = <<>>
        <5>1. Quiet' /\ coming' = s
          BY <1>6, <2>1, <3>4, <4>3
        <5>2. CASE s = Answer(0, 1)
          BY <5>1, <5>2 DEF AtMagic
        <5>3. CASE s = Error(CRC_ERROR) /\ n < 4
          <6>1. n # 4
            BY <5>3 DEF Available
          <6>2. ~calm'
            BY <1>2, <6>1
          <6>3. QED
            BY <5>1, <5>3, <6>2 DEF AtMagic
        <5>4. QED
          BY <1>3, <1>6, <2>1, <5>2, <5>3
      <4>4. QED
        BY <2>2, <4>1, <4>2, <4>3 DEF AtMagic
    <3>6. QED
      BY <1>4, <2>7, <3>5 DEF FirstExchange, clientVars
  <2>8. QED
    BY <2>4, <2>5, <2>6, <2>7
<1>9. n \in Available(Len(line))
  BY <1>1, <1>5, TakenBytes DEF TypeOK
<1>10. QED
  BY <1>1, <1>2, <1>3, <1>7, <1>8, <1>9, AnswerSent

\* The server sends the directory, an error, or both.
LEMMA ServerReadsDirectoryKeeps ==
  ASSUME IInv, ServerReadsDirectory
  PROVE  IInv'
<1>1. line # <<>> /\ breaks = 2 /\ Head(line) = 1
  BY DEF ServerReadsDirectory, ServerCommand
<1> DEFINE Sent(s) ==
             \/ s = Error(CRC_ERROR) \/ s = Error(PATH_NOT_FOUND) \/ s = Error(UNKNOWN_ERROR)
             \/ \E size \in DirSizes : \/ s = Answer(1, 2 + size)
                                      \/ s = Error(UNKNOWN_ERROR) \o Answer(1, 2 + size)
<1>2. PICK n \in Available(Len(line)) : calm' = (calm /\ n = 4) /\ \E s : Sends(s, n) /\ Sent(s)
  <2>1. PICK n \in Available(Len(line)) :
          /\ calm' = (calm /\ n = 4)
          /\ \/ Sends(Error(CRC_ERROR), n)
             \/ Sends(Error(PATH_NOT_FOUND), n) \/ Sends(Error(UNKNOWN_ERROR), n)
             \/ \E size \in DirSizes :
                  \/ Sends(Answer(1, 2 + size), n)
                  \/ Sends(Error(UNKNOWN_ERROR) \o Answer(1, 2 + size), n)
    BY DEF ServerReadsDirectory
  <2>2. QED
    BY <2>1
<1>3. PICK s : Sends(s, n) /\ Sent(s)
  BY <1>2
<1>4. /\ faults' = faults /\ cmd' = cmd
      /\ line' = SubSeq(line, n + 2, Len(line)) /\ breaks' = 0
  BY <1>3 DEF Sends, clientVars
<1>5. TypeOK /\ faults \in Nat /\ Answered \subseteq {0, 1}
  BY AnsweredFacts DEF IInv, TypeOK
<1>6. faults = 0 => cmd = 1
  BY <1>1, CommandIsOwn
<1>7. 1 \in Answered
  BY <1>5, <1>6 DEF Answered
<1>8. ASSUME NEW e \in ErrorCodes PROVE Error(e) \in Seq(Words(Answered))
  BY ErrorWords
<1>9. ASSUME NEW size \in DirSizes PROVE Answer(1, 2 + size) \in Seq(Words(Answered))
  <2>1. 2 + size \in Lengths(1) /\ 2 + size \in Nat
    BY LineAssumption DEF Lengths
  <2>2. QED
    BY <1>7, <2>1, AnswerWords
<1>10. s \in Seq(Words(Answered))
  <2> DEFINE W == Words(Answered)
  <2>1. /\ Error(CRC_ERROR) \in Seq(W) /\ Error(PATH_NOT_FOUND) \in Seq(W)
        /\ Error(UNKNOWN_ERROR) \in Seq(W)
    BY <1>8 DEF ErrorCodes
  <2>2. ASSUME NEW size \in DirSizes PROVE Error(UNKNOWN_ERROR) \o Answer(1, 2 + size) \in Seq(W)
    <3> HIDE DEF W
    <3>1. Answer(1, 2 + size) \in Seq(W)
      BY <1>9 DEF W
    <3>2. QED
      BY <2>1, <3>1
  <2>3. QED
    BY <1>3, <1>9, <2>1, <2>2
<1>11. Contacting'
  BY <1>4, <1>6 DEF Contacting
<1>12. cmd = 0 => n \in Available(4) \/ faults # 0
  BY <1>6
<1>13. QED
  BY <1>1, <1>2, <1>3, <1>10, <1>11, <1>12, AnswerSent

\* The server drops the byte behind two breaks that is no command it knows.
LEMMA ServerIgnoresKeeps ==
  ASSUME IInv, ServerIgnores
  PROVE  IInv'
<1>1. line # <<>> /\ breaks = 2 /\ Head(line) \notin {0, 1} /\ calm' = calm
  BY DEF ServerIgnores
<1>2. /\ UNCHANGED clientVars /\ faults' = faults /\ fifo' = fifo /\ out' = out \o <<>>
      /\ line' = SubSeq(line, 2, Len(line)) /\ breaks' = 0 /\ cmd' = cmd
  BY DEF ServerIgnores, Sends, clientVars
<1>3. TypeOK
  BY DEF IInv
<1>4. faults # 0
  <2>1. ASSUME faults = 0 PROVE FALSE
    <3>1. line \in Seq(Nat) /\ cmd \in {0, 1}
      BY <1>3 DEF TypeOK
    <3>2. Head(line) = cmd
      BY <1>1, <2>1, CommandIsOwn
    <3>3. QED
      BY <1>1, <3>1, <3>2
  <2>2. QED
    BY <2>1
<1>5. line' \in Seq(Nat) /\ breaks' \in 0 .. 2
  BY <1>1, <1>2, <1>3 DEF TypeOK
<1>6. fifo' \in Seq(Words(Answered')) /\ out' \in Seq(Words(Answered')) /\ calm' \in BOOLEAN
  <2>1. Answered' = Answered
    BY <1>2 DEF Answered
  <2>2. fifo \in Seq(Words(Answered)) /\ out \in Seq(Words(Answered)) /\ calm \in BOOLEAN
    BY <1>3 DEF TypeOK
  <2>3. QED
    BY <1>1, <1>2, <2>1, <2>2
<1>7. OnTheLine' /\ Contacting'
  BY <1>2, <1>4 DEF OnTheLine, Contacting
<1>8. QED
  BY <1>1, <1>2, <1>5, <1>6, <1>7, ClientStill

(***************************************************************************)
(* The steps of the client.                                                *)
(***************************************************************************)

\* What is left to show of a step of send_message_int.
LEMMA Sending ==
  ASSUME IInv, pc # "idle", Waiting' \/ pc' \in {"clear", "cleanup"},
         UNCHANGED <<server_capabilities, cmd, contacted, calls, faults, out, breaks>>,
         line' \in Seq(Nat), fifo' \in Seq(Words(Answered)),
         words' \in Seq(Words({0, 1})), Waiting' => words' \in Seq(Words(Answered)),
         retries' \in Nat, left' \in Int, ret' \in Int,
         uart' \in BOOLEAN, misread' \in BOOLEAN, calm' \in BOOLEAN,
         misread = TRUE => misread' = TRUE, calm' = TRUE => calm = TRUE,
         OnTheLine', Read', Accepted', Contacting'
  PROVE  IInv'
<1>1. TypeOK
  BY DEF IInv
<1>2. Answered' = Answered
  BY DEF Answered
<1>3. /\ server_capabilities' \in SUBSET Nat /\ cmd' \in {0, 1} /\ breaks' \in 0 .. 2
      /\ calls' \in Nat /\ faults' \in Nat
  BY <1>1 DEF TypeOK
<1>4. contacted' \in BOOLEAN
  BY <1>1 DEF TypeOK
<1>5. fifo' \in Seq(Words(Answered')) /\ out' \in Seq(Words(Answered'))
  BY <1>1, <1>2 DEF TypeOK
<1>6. (cmd' = 1 => contacted') /\ (cmd' = 0 /\ pc' # "idle" => ~contacted')
  BY <1>1 DEF TypeOK
<1>7. calm' => faults' = 0
  BY <1>1 DEF TypeOK
<1>8. TypeOK'
  BY <1>2, <1>3, <1>4, <1>5, <1>6, <1>7 DEF TypeOK
<1>9. CapabilitiesRight'
  <2>1. misread \in BOOLEAN /\ CapabilitiesRight
    BY <1>1 DEF IInv, TypeOK
  <2>2. QED
    BY <2>1 DEF CapabilitiesRight
<1>10. QED
  BY <1>8, <1>9 DEF IInv

\* A word is read of the answer.
LEMMA ReadsFacts ==
  ASSUME IInv, Waiting, NEW where, Reads(where)
  PROVE  /\ UNCHANGED <<server_capabilities, uart, cmd, retries, contacted, calls,
                        line, out, faults, breaks, calm>>
         /\ pc = where /\ fifo # <<>> /\ fifo' = Tail(fifo) /\ words' = Append(words, Head(fifo))
         /\ Head(fifo) \in Words(Answered) /\ fifo' \in Seq(Words(Answered))
         /\ words' \in Seq(Words(Answered)) /\ words' \in Seq(Words({0, 1}))
         /\ Len(words') = Len(words) + 1 /\ words \in Seq(Words(Answered))
         /\ OnTheLine' /\ TypeOK /\ pc # "idle" /\ (Quiet => Quiet')
         /\ retries' \in Nat /\ Answered' = Answered
<1>1. /\ UNCHANGED <<server_capabilities, uart, cmd, retries, contacted, calls,
                     line, out, faults, breaks, calm>>
      /\ pc = where /\ fifo # <<>> /\ fifo' = Tail(fifo) /\ words' = Append(words, Head(fifo))
  BY DEF Reads, network, serverVars
<1>2. TypeOK
  BY DEF IInv
<1> DEFINE S == Words(Answered)
           T == Words({0, 1})
<1>3. fifo \in Seq(S) /\ words \in Seq(S) /\ S \subseteq T
  BY <1>2, AnsweredFacts DEF TypeOK
<1>4. /\ Head(fifo) \in S /\ fifo' \in Seq(S) /\ words' \in Seq(S)
      /\ Len(words') = Len(words) + 1
  <2> HIDE DEF S, T
  <2>1. QED
    BY <1>1, <1>3
<1>5. words' \in Seq(T)
  <2> HIDE DEF S, T
  <2>1. QED
    BY <1>3, <1>4
<1>6. OnTheLine' /\ (Quiet => Quiet') /\ Answered' = Answered
  BY <1>1 DEF IInv, OnTheLine, Asked, Quiet, Answered
<1>7. retries' \in Nat
  BY <1>1, <1>2 DEF TypeOK
<1>8. QED
  BY <1>1, <1>2, <1>3, <1>4, <1>5, <1>6, <1>7 DEF Waiting

\* A word is dropped before the request or after the answer.
LEMMA ClearKeeps ==
  ASSUME IInv, Clear
  PROVE  IInv'
<1>1. /\ UNCHANGED <<clientVars, line, out, faults, breaks, calm>>
      /\ pc \in {"clear", "cleanup"} /\ fifo # <<>> /\ fifo' = Tail(fifo) /\ cmd' = cmd
  BY DEF Clear, network, serverVars, clientVars
<1>2. TypeOK
  BY DEF IInv
<1>3. fifo \in Seq(Words(Answered)) /\ out \in Seq(Words(Answered))
  BY <1>2 DEF TypeOK
<1> DEFINE S == Words(Answered)
<1>4. fifo \in Seq(S) /\ out \in Seq(S)
  BY <1>3
<1>5. fifo' \in Seq(S) /\ coming' = Tail(coming) /\ coming # <<>> /\ coming \in Seq(S)
  <2> HIDE DEF S
  <2>1. /\ Tail(fifo) \in Seq(S) /\ Tail(fifo) \o out = Tail(fifo \o out)
        /\ fifo \o out # <<>> /\ fifo \o out \in Seq(S)
    BY <1>1, <1>4
  <2>2. QED
    BY <1>1, <2>1 DEF coming
<1>6. OnTheLine' /\ (Quiet => Quiet') /\ Answered' = Answered
  BY <1>1 DEF IInv, OnTheLine, Asked, Quiet, Answered
<1>7. Contacting'
  <2>1. SUFFICES ASSUME faults = 0, cmd = 0 PROVE FirstExchange'
    BY <1>1 DEF Contacting
  <2>2. FirstExchange
    BY <2>1 DEF IInv, Contacting
  <2>3. Over => Over'
    <3>1. ASSUME Over PROVE Quiet /\ coming = <<Stale>> /\ ~calm
      BY <1>5, <3>1 DEF Over
    <3>2. Tail(<<Stale>>) = <<>>
      OBVIOUS
    <3>3. QED
      BY <1>1, <1>5, <1>6, <3>1, <3>2 DEF Over
  <2>4. QED
    BY <1>1, <1>5, <2>2, <2>3 DEF FirstExchange, AtCleanup, clientVars
<1>8. Read' /\ Accepted'
  BY <1>1, <1>6 DEF IInv, Read, Accepted, clientVars
<1>9. line' \in Seq(Nat) /\ breaks' \in 0 .. 2
  BY <1>1, <1>2 DEF TypeOK
<1>10. calm' \in BOOLEAN
  BY <1>1, <1>2 DEF TypeOK
<1>11. fifo' \in Seq(Words(Answered')) /\ out' \in Seq(Words(Answered'))
  BY <1>1, <1>3, <1>5, <1>6
<1>12. QED
  BY <1>1, <1>6, <1>7, <1>9, <1>10, <1>11, ClientStill

\* Nothing has come for a time.
LEMMA ExpireFacts ==
  ASSUME TypeOK, Expire
  PROVE  /\ fifo = <<>> /\ coming = out /\ calm' \in BOOLEAN
         /\ calm' = TRUE => calm = TRUE /\ line = <<>> /\ out = <<>>
<1>1. fifo = <<>> /\ calm' = (calm /\ line = <<>> /\ out = <<>>)
  BY DEF Expire, Silent
<1>2. coming = out
  <2> DEFINE S == Words(Answered)
  <2>1. out \in Seq(S)
    BY DEF TypeOK
  <2> HIDE DEF S
  <2>2. <<>> \o out = out
    BY <2>1
  <2>3. QED
    BY <1>1, <2>2 DEF coming
<1>3. QED
  BY <1>1, <1>2 DEF TypeOK

\* The request is sent.
LEMMA SendRequestKeeps ==
  ASSUME IInv, SendRequest
  PROVE  IInv'
<1>1. /\ UNCHANGED <<server_capabilities, uart, cmd, retries, left, ret, contacted, calls,
                     misread, out, faults, breaks, fifo>>
      /\ pc = "clear" /\ pc' = "magic" /\ words' = <<>> /\ line' = line \o Request(cmd)
      /\ Expire
  BY DEF SendRequest, serverVars
<1>2. TypeOK
  BY DEF IInv
<1>3. fifo = <<>> /\ calm' \in BOOLEAN /\ (calm' = TRUE => calm = TRUE)
  BY <1>1, <1>2, ExpireFacts
<1>4. line \in Seq(Nat) /\ breaks \in 0 .. 2 /\ cmd \in {0, 1}
  BY <1>2 DEF TypeOK
<1>5. line' \in Seq(Nat)
  <2>1. Request(cmd) \in Seq(Nat)
    BY <1>4 DEF Request
  <2>2. QED
    BY <1>1, <1>4, <2>1
<1>6. ASSUME faults = 0, cmd = 0
      PROVE  /\ Requests(line', breaks', cmd', Asked')
             /\ Asked' = Asked \cup {Len(line) + 1}
  <2> DEFINE P == Asked \cup {Len(line) + 1}
             l == line'
             b == breaks'
  <2>1. Requests(line, breaks, cmd, Asked) /\ Asked \in SUBSET Int
    BY <1>6 DEF IInv, OnTheLine, Asked, Starts
  <2>2. Requests(line \o Request(cmd), breaks, cmd, P)
    BY <1>4, <2>1, RequestAdded
  <2>3. Requests(l, b, cmd, P)
    BY <1>1, <2>2
  <2>4. l \in Seq(Nat) /\ b \in 0 .. 2 /\ P \in SUBSET Int
    <3>1. Len(line) + 1 \in Int
      BY <1>4
    <3>2. P \in SUBSET Int
      BY <2>1, <3>1
    <3>3. QED
      BY <1>1, <1>4, <1>5, <3>2
  <2> HIDE DEF P, l, b
  <2>5. P = Starts(l, b)
    BY <1>4, <2>3, <2>4, RequestsAtStarts
  <2>6. P = Asked'
    BY <2>5 DEF Asked, l, b
  <2>7. QED
    BY <1>1, <2>3, <2>6 DEF P, l, b
<1>7. OnTheLine'
  <2>1. ASSUME faults = 0, cmd # 0 PROVE Commands(line', breaks', 1)
    <3>1. cmd = 1 /\ Commands(line, breaks, 1)
      BY <1>4, <2>1 DEF IInv, OnTheLine
    <3>2. Commands(line \o Request(1), breaks, 1)
      BY <1>4, <3>1, CommandAdded
    <3>3. QED
      BY <1>1, <3>1, <3>2
  <2>2. QED
    BY <1>1, <1>6, <2>1 DEF OnTheLine
<1>8. Contacting'
  <2>1. SUFFICES ASSUME faults = 0, cmd = 0 PROVE AtMagic'
    BY <1>1 DEF Contacting, FirstExchange
  <2>2. Over /\ coming' = coming
    BY <1>1, <2>1 DEF IInv, Contacting, FirstExchange, coming
  <2>3. CASE coming = <<>>
    <3>1. Asked' = {Len(line) + 1}
      BY <1>6, <2>1, <2>2 DEF Over, Quiet
    <3>2. QED
      BY <2>2, <2>3, <3>1 DEF AtMagic
  <2>4. CASE coming = <<Stale>>
    <3>1. <<Stale>> # <<>> /\ Head(<<Stale>>) = Stale
      OBVIOUS
    <3>2. ~calm'
      BY <1>3, <2>2, <2>4, <3>1 DEF Over
    <3>3. QED
      BY <2>2, <2>4, <3>1, <3>2 DEF AtMagic
  <2>5. QED
    BY <2>2, <2>3, <2>4 DEF Over
<1>9. Read' /\ Accepted'
  BY <1>1 DEF Read, Accepted
<1>10. /\ retries' \in Nat /\ left' \in Int /\ ret' \in Int /\ fifo' \in Seq(Words(Answered))
  BY <1>1, <1>2 DEF TypeOK
<1>11. uart' \in BOOLEAN /\ misread' \in BOOLEAN
  BY <1>1, <1>2 DEF TypeOK
<1>12. Waiting' /\ words' \in Seq(Words({0, 1})) /\ words' \in Seq(Words(Answered))
  BY <1>1 DEF Waiting
<1>13. QED
  BY <1>1, <1>3, <1>5, <1>7, <1>8, <1>9, <1>10, <1>11, <1>12, Sending

\* What the first exchange is about: five words that say what the server can do, or
\* four of an error.
LEMMA FirstWords ==
  /\ Len(Answer(0, 1)) = 5 /\ Answer(0, 1)[1] = <<"magic">>
  /\ Answer(0, 1)[2] = <<"length", 12>> /\ Answer(0, 1)[3] = <<"error", SUCCESS>>
  /\ Answer(0, 1)[4] = <<"data", 0, 1>> /\ Answer(0, 1)[5] = Crc(AnswerText(0, 1))
  /\ Answer(0, 1) # <<>>
  /\ Len(Error(CRC_ERROR)) = 4 /\ Error(CRC_ERROR)[1] = <<"magic">>
  /\ Error(CRC_ERROR)[2] = <<"length", 8>> /\ Error(CRC_ERROR)[3] = <<"error", CRC_ERROR>>
  /\ Error(CRC_ERROR)[4] = Stale /\ Stale # <<"magic">> /\ Error(CRC_ERROR) # <<>>
<1> DEFINE a == Answer(0, 1)
           e == Error(CRC_ERROR)
<1>1. /\ Len(a) = 4 + 1 /\ a[1] = <<"magic">> /\ a[2] = <<"length", 8 + 4 * 1>>
      /\ a[3] = <<"error", SUCCESS>> /\ a[4 + 1] = <<"crc", AnswerText(0, 1)>>
      /\ \A i \in 4 .. 3 + 1 : a[i] = <<"data", 0, i - 3>>
  <2>1. ASSUME NEW n \in Nat
        PROVE  /\ Len(Answer(0, n)) = 4 + n /\ Answer(0, n)[1] = <<"magic">>
               /\ Answer(0, n)[2] = <<"length", 8 + 4 * n>>
               /\ Answer(0, n)[3] = <<"error", SUCCESS>>
               /\ Answer(0, n)[4 + n] = <<"crc", AnswerText(0, n)>>
               /\ \A i \in 4 .. 3 + n : Answer(0, n)[i] = <<"data", 0, i - 3>>
    BY AnswerFacts
  <2>2. 1 \in Nat
    OBVIOUS
  <2>3. QED
    BY <2>1, <2>2
<1>2. /\ Len(e) = 4 /\ e[1] = <<"magic">> /\ e[2] = <<"length", 8>>
      /\ e[3] = <<"error", CRC_ERROR>> /\ e[4] = <<"crc", ErrorText(CRC_ERROR)>>
  BY ErrorFacts
<1> HIDE DEF a, e
<1>3. a[4] = <<"data", 0, 4 - 3>>
  BY <1>1
<1>4. Len(a) = 5 /\ a[2] = <<"length", 12>> /\ a[4] = <<"data", 0, 1>> /\ a[5] = a[4 + 1]
  BY <1>1, <1>3
<1>5. a # <<>> /\ e # <<>>
  <2>1. Len(a) # 0 /\ Len(e) # 0
    BY <1>2, <1>4
  <2>2. \A s : s = <<>> => Len(s) = 0
    OBVIOUS
  <2>3. QED
    BY <2>1, <2>2
<1>6. Stale = <<"crc", ErrorText(CRC_ERROR)>> /\ Stale # <<"magic">>
  BY DEF Stale, Crc
<1>7. QED
  BY <1>1, <1>2, <1>4, <1>5, <1>6 DEF a, e, Crc

\* The client waits in vain: on a line that is in time something is still to come.
LEMMA ReadTimeoutKeeps ==
  ASSUME IInv, ReadTimeout
  PROVE  IInv'
<1>1. /\ UNCHANGED <<server_capabilities, uart, cmd, retries, words, left, contacted, calls,
                     misread, line, out, faults, breaks, fifo>>
      /\ Waiting /\ Expire /\ pc' = "cleanup" /\ ret' = TIMEOUT
  BY DEF ReadTimeout, Ends, network, serverVars
<1>2. TypeOK
  BY DEF IInv
<1>3. /\ fifo = <<>> /\ coming = out /\ calm' \in BOOLEAN
      /\ calm' = TRUE => calm = TRUE /\ line = <<>> /\ out = <<>>
  BY <1>1, <1>2, ExpireFacts
<1>4. OnTheLine'
  BY <1>1 DEF IInv, OnTheLine, Asked
<1>5. Contacting'
  <2>1. SUFFICES ASSUME faults = 0, cmd = 0, calm' = TRUE PROVE FALSE
    <3>1. ret' # 4 /\ ret' # CRC_ERROR
      BY <1>1 DEF TIMEOUT, CRC_ERROR
    <3>2. ASSUME faults' = 0, cmd' = 0 PROVE calm' = FALSE
      BY <1>1, <1>3, <3>2
    <3>3. QED
      BY <1>1, <3>1, <3>2 DEF Contacting, FirstExchange, AtCleanup
  <2>2. FirstExchange /\ calm /\ line = <<>> /\ coming = <<>>
    BY <1>1, <1>3, <2>1 DEF IInv, Contacting
  <2>3. Len(coming) = 0
    BY <2>2
  <2>4. CASE pc = "magic"
    <3>1. AtMagic
      BY <2>2, <2>4 DEF FirstExchange
    <3>2. \E i \in Asked : Asked = {i}
      BY <2>2, <3>1, FirstWords DEF AtMagic
    <3>3. PICK i \in Asked : i \in -1 .. Len(line) - 6
      BY <3>2 DEF Asked, Starts
    <3>4. QED
      BY <2>2, <3>3
  <2>5. CASE pc # "magic"
    <3>1. PICK k \in 1 .. 4 : Reading(Answer(0, 1), k)
      BY <1>1, <2>2, <2>5 DEF Waiting, FirstExchange
    <3>2. Len(coming) = 5 - k
      <4>1. Len(coming) = Len(Answer(0, 1)) - k
        BY <1>1, <1>2, <3>1, StillComing
      <4>2. QED
        BY <4>1, FirstWords
    <3>3. QED
      BY <2>3, <3>2
  <2>6. QED
    BY <2>4, <2>5
<1>6. Read' /\ Accepted'
  BY <1>1 DEF Read, Accepted, TIMEOUT
<1>7. line' \in Seq(Nat) /\ fifo' \in Seq(Words(Answered)) /\ words' \in Seq(Words({0, 1}))
  BY <1>1, <1>2 DEF TypeOK
<1>8. retries' \in Nat /\ left' \in Int /\ ret' \in Int
  BY <1>1, <1>2 DEF TypeOK, TIMEOUT
<1>9. uart' \in BOOLEAN /\ misread' \in BOOLEAN
  BY <1>1, <1>2 DEF TypeOK
<1>10. pc # "idle" /\ ~Waiting'
  BY <1>1 DEF Waiting
<1>11. QED
  BY <1>1, <1>3, <1>4, <1>5, <1>6, <1>7, <1>8, <1>9, <1>10, Sending

\* The first word of the answer is read.
LEMMA ReadMagicKeeps ==
  ASSUME IInv, ReadMagic
  PROVE  IInv'
<1>1. /\ Reads("magic") /\ Waiting /\ UNCHANGED <<left, misread>>
      /\ \/ Head(fifo) = <<"magic">> /\ pc' = "length" /\ ret' = ret
         \/ Head(fifo) # <<"magic">> /\ pc' = "cleanup" /\ ret' = INVALID_MAGIC
  BY DEF ReadMagic, Reads, Ends, Waiting
<1>2. /\ UNCHANGED <<server_capabilities, uart, cmd, retries, contacted, calls,
                     line, out, faults, breaks, calm>>
      /\ pc = "magic" /\ fifo # <<>> /\ fifo' = Tail(fifo) /\ words' = Append(words, Head(fifo))
      /\ Head(fifo) \in Words(Answered) /\ fifo' \in Seq(Words(Answered))
      /\ words' \in Seq(Words(Answered)) /\ words' \in Seq(Words({0, 1}))
      /\ Len(words') = Len(words) + 1 /\ words \in Seq(Words(Answered))
      /\ OnTheLine' /\ TypeOK /\ pc # "idle" /\ (Quiet => Quiet')
      /\ retries' \in Nat /\ Answered' = Answered
  BY <1>1, ReadsFacts
<1>3. words = <<>>
  BY <1>2 DEF IInv, Read
<1>4. Read'
  BY <1>1, <1>2, <1>3 DEF Read
<1>5. Accepted'
  BY <1>1 DEF Accepted, INVALID_MAGIC
<1>6. Contacting'
  <2>1. SUFFICES ASSUME faults = 0, cmd = 0 PROVE FirstExchange'
    BY <1>2 DEF Contacting
  <2>2. AtMagic
    BY <1>2, <2>1 DEF IInv, Contacting, FirstExchange
  <2>3. coming # <<>> /\ Head(coming) = Head(fifo) /\ words \o coming = coming
    <3> DEFINE S == Words(Answered)
    <3>1. fifo \in Seq(S) /\ out \in Seq(S)
      BY <1>2 DEF TypeOK
    <3> HIDE DEF S
    <3>2. /\ fifo \o out # <<>> /\ Head(fifo \o out) = Head(fifo)
          /\ <<>> \o (fifo \o out) = fifo \o out
      BY <1>2, <3>1
    <3>3. QED
      BY <1>3, <3>2 DEF coming
  <2>4. CASE Head(coming) = Stale /\ ~calm
    <3>1. pc' = "cleanup" /\ ret' = INVALID_MAGIC
      BY <1>1, <2>3, <2>4, FirstWords
    <3>2. ret' # 4 /\ ret' # CRC_ERROR
      BY <3>1 DEF INVALID_MAGIC, CRC_ERROR
    <3>3. ~calm'
      BY <1>2, <2>4
    <3>4. QED
      BY <3>1, <3>2, <3>3 DEF FirstExchange, AtCleanup
  <2>5. ASSUME NEW a, Quiet, coming = a, a[1] = <<"magic">>
        PROVE  pc' = "length" /\ Reading(a, 1)'
    <3>1. Reading(a, 0)
      BY <1>3, <2>3, <2>5 DEF Reading
    <3>2. Reading(a, 0 + 1)' /\ Head(fifo) = a[0 + 1]
      BY <1>1, <1>2, <3>1, ReadingOn
    <3>3. QED
      BY <1>1, <2>5, <3>2
  <2>6. CASE Quiet /\ coming = Answer(0, 1)
    BY <2>5, <2>6, FirstWords DEF FirstExchange
  <2>7. CASE Quiet /\ coming = Error(CRC_ERROR) /\ ~calm
    BY <1>2, <2>5, <2>7, FirstWords DEF FirstExchange
  <2>8. QED
    BY <2>2, <2>3, <2>4, <2>6, <2>7 DEF AtMagic
<1>7. left' \in Int /\ ret' \in Int
  BY <1>1, <1>2 DEF TypeOK, INVALID_MAGIC
<1>8. uart' \in BOOLEAN /\ misread' \in BOOLEAN /\ calm' \in BOOLEAN
  BY <1>1, <1>2 DEF TypeOK
<1>9. line' \in Seq(Nat) /\ (Waiting' \/ pc' \in {"clear", "cleanup"})
  BY <1>1, <1>2 DEF TypeOK, Waiting
<1>10. QED
  BY <1>1, <1>2, <1>4, <1>5, <1>6, <1>7, <1>8, <1>9, Sending

\* The length of the answer is read.
LEMMA ReadLengthKeeps ==
  ASSUME IInv, ReadLength
  PROVE  IInv'
<1>1. /\ Reads("length") /\ Waiting /\ UNCHANGED <<ret, misread>>
      /\ left' \in DataWords(Head(fifo)) /\ pc' = "error"
  BY DEF ReadLength, Reads, Waiting
<1>2. /\ UNCHANGED <<server_capabilities, uart, cmd, retries, contacted, calls,
                     line, out, faults, breaks, calm>>
      /\ pc = "length" /\ fifo # <<>> /\ fifo' = Tail(fifo) /\ words' = Append(words, Head(fifo))
      /\ Head(fifo) \in Words(Answered) /\ fifo' \in Seq(Words(Answered))
      /\ words' \in Seq(Words(Answered)) /\ words' \in Seq(Words({0, 1}))
      /\ Len(words') = Len(words) + 1 /\ words \in Seq(Words(Answered))
      /\ OnTheLine' /\ TypeOK /\ pc # "idle" /\ (Quiet => Quiet')
      /\ retries' \in Nat /\ Answered' = Answered
  BY <1>1, ReadsFacts
<1>3. Len(words) = 1
  BY <1>2 DEF IInv, Read
<1>4. Read'
  BY <1>1, <1>2, <1>3 DEF Read
<1>5. Accepted'
  BY <1>1 DEF Accepted
<1>6. left' \in Int
  <2>1. Room \in Nat
    BY LineAssumption DEF Room
  <2>2. CASE Head(fifo)[1] = "length"
    <3>1. Head(fifo)[2] \in Nat
      BY <1>2, <2>2, WordKinds
    <3>2. QED
      BY <1>1, <2>1, <2>2, <3>1 DEF DataWords
  <2>3. CASE Head(fifo)[1] # "length"
    BY <1>1, <2>1, <2>3 DEF DataWords
  <2>4. QED
    BY <2>2, <2>3
<1>7. Contacting'
  <2>1. SUFFICES ASSUME faults = 0, cmd = 0 PROVE FirstExchange'
    BY <1>2 DEF Contacting
  <2>2. \/ Reading(Answer(0, 1), 1)
        \/ Reading(Error(CRC_ERROR), 1) /\ ~calm
    BY <1>2, <2>1 DEF IInv, Contacting, FirstExchange
  <2>3. ASSUME NEW a, Reading(a, 1) PROVE Reading(a, 2)' /\ Head(fifo) = a[2]
    <3>1. Reading(a, 1 + 1)' /\ Head(fifo) = a[1 + 1]
      BY <1>1, <1>2, <2>3, ReadingOn
    <3>2. QED
      BY <3>1
  <2>4. CASE Reading(Answer(0, 1), 1)
    <3>1. Head(fifo) = <<"length", 12>>
      BY <2>3, <2>4, FirstWords
    <3>2. left' = 1
      BY <1>1, <2>1, <3>1 DEF DataWords, Room
    <3>3. QED
      BY <1>1, <2>3, <2>4, <3>2 DEF FirstExchange
  <2>5. CASE Reading(Error(CRC_ERROR), 1) /\ ~calm
    BY <1>1, <1>2, <2>3, <2>5 DEF FirstExchange
  <2>6. QED
    BY <2>2, <2>4, <2>5
<1>8. ret' \in Int
  BY <1>1, <1>2 DEF TypeOK
<1>9. uart' \in BOOLEAN /\ misread' \in BOOLEAN /\ calm' \in BOOLEAN
  BY <1>1, <1>2 DEF TypeOK
<1>10. line' \in Seq(Nat) /\ (Waiting' \/ pc' \in {"clear", "cleanup"})
  BY <1>1, <1>2 DEF TypeOK, Waiting
<1>11. QED
  BY <1>1, <1>2, <1>4, <1>5, <1>6, <1>7, <1>8, <1>9, <1>10, Sending

\* The error code is read, and believed.
LEMMA ReadErrorKeeps ==
  ASSUME IInv, ReadError
  PROVE  IInv'
<1>1. /\ Reads("error") /\ Waiting /\ left' = left
      /\ \/ /\ Head(fifo) = <<"error", SUCCESS>> \/ Head(fifo)[1] # "error"
            /\ pc' = (IF left = 0 THEN "crc" ELSE "data") /\ ret' = ret /\ misread' = misread
         \/ /\ Head(fifo)[1] = "error" /\ Head(fifo) # <<"error", SUCCESS>>
            /\ pc' = "cleanup" /\ ret' = Head(fifo)[2] /\ misread' = misread
         \/ /\ Head(fifo)[1] # "error" /\ pc' = "cleanup"
            /\ \/ ret' = 4 /\ misread' = TRUE
               \/ ret' \in {CRC_ERROR, UNKNOWN_ERROR} /\ misread' = misread
  BY DEF ReadError, Reads, Ends, Waiting
<1>2. /\ UNCHANGED <<server_capabilities, uart, cmd, retries, contacted, calls,
                     line, out, faults, breaks, calm>>
      /\ pc = "error" /\ fifo # <<>> /\ fifo' = Tail(fifo) /\ words' = Append(words, Head(fifo))
      /\ Head(fifo) \in Words(Answered) /\ fifo' \in Seq(Words(Answered))
      /\ words' \in Seq(Words(Answered)) /\ words' \in Seq(Words({0, 1}))
      /\ Len(words') = Len(words) + 1 /\ words \in Seq(Words(Answered))
      /\ OnTheLine' /\ TypeOK /\ pc # "idle" /\ (Quiet => Quiet')
      /\ retries' \in Nat /\ Answered' = Answered
  BY <1>1, ReadsFacts
<1>3. Len(words) = 2 /\ Len(words') = 3
  <2>1. Len(words) = 2
    BY <1>2 DEF IInv, Read
  <2>2. QED
    BY <1>2, <2>1
<1>4. Read'
  BY <1>1 DEF Read
<1>5. ASSUME Head(fifo)[1] = "error", Head(fifo) # <<"error", SUCCESS>>
      PROVE  Head(fifo)[2] \in ErrorCodes
  BY <1>2, <1>5, WordKinds
<1>6. \A e \in ErrorCodes : e \in Int /\ e < 0
  BY DEF ErrorCodes, PATH_NOT_FOUND, CRC_ERROR, UNKNOWN_ERROR
<1>7. Accepted'
  <2>1. SUFFICES ASSUME pc' = "cleanup", ret' > 0 PROVE misread' /\ Len(words') = 3
    BY DEF Accepted
  <2>2. CRC_ERROR \in ErrorCodes /\ UNKNOWN_ERROR \in ErrorCodes
    BY DEF ErrorCodes
  <2>3. ret' \notin ErrorCodes
    BY <1>6, <2>1
  <2>4. QED
    BY <1>1, <1>3, <1>5, <2>1, <2>2, <2>3
<1>8. Contacting'
  <2>1. SUFFICES ASSUME faults = 0, cmd = 0 PROVE FirstExchange'
    BY <1>2 DEF Contacting
  <2>2. \/ Reading(Answer(0, 1), 2) /\ left = 1
        \/ Reading(Error(CRC_ERROR), 2) /\ ~calm
    BY <1>2, <2>1 DEF IInv, Contacting, FirstExchange
  <2>3. ASSUME NEW a, Reading(a, 2) PROVE Reading(a, 3)' /\ Head(fifo) = a[3]
    <3>1. Reading(a, 2 + 1)' /\ Head(fifo) = a[2 + 1]
      BY <1>1, <1>2, <2>3, ReadingOn
    <3>2. QED
      BY <3>1
  <2>4. CASE Reading(Answer(0, 1), 2) /\ left = 1
    <3>1. Head(fifo) = <<"error", SUCCESS>> /\ Head(fifo)[1] = "error"
      BY <2>3, <2>4, FirstWords
    <3>2. pc' = "data" /\ left' = 1
      BY <1>1, <2>4, <3>1
    <3>3. QED
      BY <2>3, <2>4, <3>2 DEF FirstExchange
  <2>5. CASE Reading(Error(CRC_ERROR), 2) /\ ~calm
    <3>1. Head(fifo) = <<"error", CRC_ERROR>> /\ Reading(Error(CRC_ERROR), 3)'
      BY <2>3, <2>5, FirstWords
    <3>2. /\ Head(fifo)[1] = "error" /\ Head(fifo)[2] = CRC_ERROR
          /\ Head(fifo) # <<"error", SUCCESS>>
      BY <3>1 DEF CRC_ERROR, SUCCESS
    <3>3. pc' = "cleanup" /\ ret' = CRC_ERROR
      BY <1>1, <3>2
    <3>4. Quiet' /\ coming' = <<Stale>>
      <4>1. /\ Len(coming) = Len(Error(CRC_ERROR)) - 2 /\ coming \in Seq(Words(Answered))
            /\ \A i \in 1 .. Len(Error(CRC_ERROR)) - 2 : coming[i] = Error(CRC_ERROR)[2 + i]
        <5>1. ASSUME NEW a, NEW k, Reading(a, k)
              PROVE  /\ Len(coming) = Len(a) - k /\ coming \in Seq(Words(Answered))
                     /\ \A i \in 1 .. Len(a) - k : coming[i] = a[k + i]
          BY <1>1, <1>2, <5>1, StillComing
        <5> DEFINE e == Error(CRC_ERROR)
        <5>2. Reading(e, 2)
          BY <2>5
        <5> HIDE DEF e
        <5>3. /\ Len(coming) = Len(e) - 2 /\ coming \in Seq(Words(Answered))
              /\ \A i \in 1 .. Len(e) - 2 : coming[i] = e[2 + i]
          BY ONLY <5>1, <5>2
        <5>4. QED
          BY ONLY <5>3 DEF e
      <4>2. Len(coming) = 2 /\ coming[2] = Error(CRC_ERROR)[2 + 2]
        BY <4>1, FirstWords
      <4>3. Len(coming) = 2 /\ coming[2] = Stale
        BY <4>2, FirstWords
      <4>4. coming' = Tail(coming)
        <5> DEFINE S == Words(Answered)
        <5>1. fifo \in Seq(S) /\ out \in Seq(S)
          BY <1>2 DEF TypeOK
        <5> HIDE DEF S
        <5>2. Tail(fifo) \o out = Tail(fifo \o out)
          BY <1>2, <5>1
        <5>3. QED
          BY <1>2, <5>2 DEF coming
      <4> DEFINE S == Words(Answered)
                 z == coming
                 y == Stale
      <4>5. z \in Seq(S) /\ Len(z) = 2 /\ z[2] = y
        BY <4>1, <4>3
      <4> HIDE DEF S, z, y
      <4>6. Tail(z) = <<y>>
        <5>1. Tail(z) \in Seq(S) /\ Len(Tail(z)) = 1 /\ Tail(z)[1] = y
          BY <4>5
        <5>2. \A t \in Seq(S) : Len(t) = 1 => t = <<t[1]>>
          OBVIOUS
        <5>3. QED
          BY <5>1, <5>2
      <4>7. QED
        BY <3>1, <4>4, <4>6 DEF z, y, Reading
    <3>5. ~calm'
      BY <1>2, <2>5
    <3>6. Over' /\ ret' # 4
      BY <3>3, <3>4, <3>5 DEF Over, CRC_ERROR
    <3>7. QED
      BY <3>3, <3>5, <3>6 DEF FirstExchange, AtCleanup
  <2>6. QED
    BY <2>2, <2>4, <2>5
<1>9. left' \in Int /\ ret' \in Int
  <2>1. CRC_ERROR \in ErrorCodes /\ UNKNOWN_ERROR \in ErrorCodes
    BY DEF ErrorCodes
  <2>2. left \in Int /\ ret \in Int
    BY <1>2 DEF TypeOK
  <2>3. QED
    BY <1>1, <1>5, <1>6, <2>1, <2>2
<1>10. uart' \in BOOLEAN /\ calm' \in BOOLEAN /\ misread \in BOOLEAN
  BY <1>2 DEF TypeOK
<1>11. misread' \in BOOLEAN /\ (misread = TRUE => misread' = TRUE)
  BY <1>1, <1>10
<1>12. line' \in Seq(Nat) /\ (Waiting' \/ pc' \in {"clear", "cleanup"})
  BY <1>1, <1>2 DEF TypeOK, Waiting
<1>13. QED
  BY <1>2, <1>4, <1>7, <1>8, <1>9, <1>10, <1>11, <1>12, Sending

\* A word of data is read.
LEMMA ReadDataKeeps ==
  ASSUME IInv, ReadData
  PROVE  IInv'
<1>1. /\ Reads("data") /\ Waiting /\ UNCHANGED <<ret, misread>>
      /\ left' = left - 1 /\ pc' = (IF left = 1 THEN "crc" ELSE "data")
  BY DEF ReadData, Reads, Waiting
<1>2. /\ UNCHANGED <<server_capabilities, uart, cmd, retries, contacted, calls,
                     line, out, faults, breaks, calm>>
      /\ pc = "data" /\ fifo # <<>> /\ fifo' = Tail(fifo) /\ words' = Append(words, Head(fifo))
      /\ Head(fifo) \in Words(Answered) /\ fifo' \in Seq(Words(Answered))
      /\ words' \in Seq(Words(Answered)) /\ words' \in Seq(Words({0, 1}))
      /\ Len(words') = Len(words) + 1 /\ words \in Seq(Words(Answered))
      /\ OnTheLine' /\ TypeOK /\ pc # "idle" /\ (Quiet => Quiet')
      /\ retries' \in Nat /\ Answered' = Answered
  BY <1>1, ReadsFacts
<1>3. Read' /\ Accepted'
  BY <1>1 DEF Read, Accepted
<1>4. Contacting'
  <2>1. SUFFICES ASSUME faults = 0, cmd = 0 PROVE FirstExchange'
    BY <1>2 DEF Contacting
  <2>2. Reading(Answer(0, 1), 3) /\ left = 1
    BY <1>2, <2>1 DEF IInv, Contacting, FirstExchange
  <2>3. Reading(Answer(0, 1), 3 + 1)'
    BY <1>1, <1>2, <2>2, ReadingOn
  <2>4. Reading(Answer(0, 1), 4)'
    BY <2>3
  <2>5. QED
    BY <1>1, <2>2, <2>4 DEF FirstExchange
<1>5. left' \in Int /\ ret' \in Int
  BY <1>1, <1>2 DEF TypeOK
<1>6. uart' \in BOOLEAN /\ misread' \in BOOLEAN /\ calm' \in BOOLEAN
  BY <1>1, <1>2 DEF TypeOK
<1>7. line' \in Seq(Nat) /\ (Waiting' \/ pc' \in {"clear", "cleanup"})
  BY <1>1, <1>2 DEF TypeOK, Waiting
<1>8. QED
  BY <1>1, <1>2, <1>3, <1>4, <1>5, <1>6, <1>7, Sending

\* What has been read up to the checksum is the text of the answer.
LEMMA WholeAnswer ==
  ASSUME NEW S, words \in Seq(S), coming' \in Seq(S), Head(fifo) \in S
  PROVE  Append(words, Head(fifo)) \o coming' = Answer(0, 1) /\ Len(words) = 4 =>
           /\ words = AnswerText(0, 1) /\ Append(words, Head(fifo)) = Answer(0, 1)
           /\ coming' = <<>>
<1> DEFINE w == words
           z == coming'
           h == Head(fifo)
           t == AnswerText(0, 1)
           x == Crc(t)
           a == Answer(0, 1)
           v == Append(w, h)
           u == Append(t, x)
<1>1. a = u
  BY DEF Answer, Sealed
<1>2. PICK T : t \in Seq(T)
  BY AnswerFacts
<1>3. Len(t) = 3 + 1
  BY ZenonT(60), AnswerFacts
<1>4. w \in Seq(S) /\ z \in Seq(S) /\ h \in S
  OBVIOUS
<1> HIDE DEF w, z, h, t, x, a
<1>5. v \in Seq(S) /\ Len(v) = Len(w) + 1 /\ Len(w) \in Nat
  BY <1>4
<1>6. \A i \in 1 .. Len(w) : v[i] = w[i]
  BY <1>4
<1>7. Len(u) = Len(t) + 1 /\ \A i \in 1 .. Len(t) : u[i] = t[i]
  BY <1>2
<1> HIDE DEF v, u
<1>8. Len(v \o z) = Len(v) + Len(z) /\ Len(z) \in Nat
  <2>1. v \in Seq(S) /\ z \in Seq(S)
    BY <1>4, <1>5
  <2>2. QED
    BY <2>1
<1>9. Len(z) = 0 => z = <<>> /\ v \o z = v
  BY <1>4, <1>5
<1>10. ASSUME Len(w) = 4, v \o z = u PROVE w = t /\ v = u /\ z = <<>>
  <2>1. Len(z) = 0
    BY <1>3, <1>5, <1>7, <1>8, <1>10
  <2>2. z = <<>> /\ v = u
    BY <1>9, <1>10, <2>1
  <2>3. \A i \in 1 .. Len(w) : w[i] = t[i]
    BY <1>3, <1>6, <1>7, <1>10, <2>2
  <2>4. w \in [1 .. 4 -> S] /\ t \in [1 .. 4 -> T]
    <3>1. w \in [1 .. Len(w) -> S] /\ t \in [1 .. Len(t) -> T]
      BY <1>2, <1>4
    <3>2. Len(t) = 4
      BY <1>3
    <3>3. QED
      BY <1>10, <3>1, <3>2
  <2>5. w = t
    BY <1>10, <2>3, <2>4
  <2>6. QED
    BY <2>2, <2>5
<1>11. QED
  BY <1>1, <1>10 DEF w, z, h, t, a, v, x

\* The checksum is read: what fits it was an answer.
LEMMA ReadCrcKeeps ==
  ASSUME IInv, ReadCrc
  PROVE  IInv'
<1>1. /\ Reads("crc") /\ Waiting /\ UNCHANGED <<left, misread>> /\ pc' = "cleanup"
      /\ ret' = IF Head(fifo) = Crc(words) THEN 4 * (Len(words) - 3) ELSE CRC_ERROR
  BY DEF ReadCrc, Reads, Ends, Waiting, Fits
<1>2. /\ UNCHANGED <<server_capabilities, uart, cmd, retries, contacted, calls,
                     line, out, faults, breaks, calm>>
      /\ pc = "crc" /\ fifo # <<>> /\ fifo' = Tail(fifo) /\ words' = Append(words, Head(fifo))
      /\ Head(fifo) \in Words(Answered) /\ fifo' \in Seq(Words(Answered))
      /\ words' \in Seq(Words(Answered)) /\ words' \in Seq(Words({0, 1}))
      /\ Len(words') = Len(words) + 1 /\ words \in Seq(Words(Answered))
      /\ OnTheLine' /\ TypeOK /\ pc # "idle" /\ (Quiet => Quiet')
      /\ retries' \in Nat /\ Answered' = Answered
  BY <1>1, ReadsFacts
<1>3. Read'
  BY <1>1 DEF Read
<1>4. Accepted'
  <2>1. SUFFICES ASSUME ret' > 0
                 PROVE  \E c \in Answered : \E n \in Lengths(c) :
                          words' = Answer(c, n) /\ ret' = 4 * n
    BY <1>2 DEF Accepted
  <2>2. Head(fifo) = Crc(words) /\ ret' = 4 * (Len(words) - 3)
    BY <1>1, <2>1 DEF CRC_ERROR
  <2>3. words \in Texts(Answered)
    <3>1. Head(fifo)[1] = "crc" /\ Head(fifo)[2] = words
      BY <2>2 DEF Crc
    <3>2. QED
      BY <1>2, <3>1, WordKinds
  <2>4. ASSUME NEW e \in ErrorCodes, words = ErrorText(e) PROVE FALSE
    <3>1. Len(words) = 3
      BY <2>4, ErrorFacts
    <3>2. QED
      BY <2>1, <2>2, <3>1
  <2>5. PICK c \in Answered : \E n \in Lengths(c) : words = AnswerText(c, n)
    BY <2>3, <2>4 DEF Texts
  <2>6. PICK n \in Lengths(c) : words = AnswerText(c, n)
    BY <2>5
  <2>7. n \in Nat
    BY <1>2, AnsweredFacts, LengthFacts
  <2>8. words' = Answer(c, n)
    BY <1>2, <2>2, <2>6 DEF Answer, Sealed
  <2>9. ret' = 4 * n
    <3>1. Len(words) = 3 + n
      BY <2>6, <2>7, AnswerFacts
    <3>2. QED
      BY <2>2, <2>7, <3>1
  <2>10. QED
    BY <2>8, <2>9
<1>5. Contacting'
  <2>1. SUFFICES ASSUME faults = 0, cmd = 0 PROVE FirstExchange'
    BY <1>2 DEF Contacting
  <2>2. Reading(Answer(0, 1), 4)
    BY <1>2, <2>1 DEF IInv, Contacting, FirstExchange
  <2>3. Reading(Answer(0, 1), 4 + 1)' /\ Head(fifo) = Answer(0, 1)[4 + 1]
    BY <1>1, <1>2, <2>2, ReadingOn
  <2>4. Quiet' /\ Append(words, Head(fifo)) \o coming' = Answer(0, 1) /\ Len(words) = 4
    BY <1>2, <2>2, <2>3 DEF Reading
  <2>5. coming' \in Seq(Words(Answered))
    <3> DEFINE S == Words(Answered)
    <3>1. fifo' \in Seq(S) /\ out' \in Seq(S)
      BY <1>2 DEF TypeOK
    <3> HIDE DEF S
    <3>2. fifo' \o out' \in Seq(S)
      BY <3>1
    <3>3. QED
      BY <3>2 DEF coming, S
  <2>6. /\ words = AnswerText(0, 1) /\ coming' = <<>>
        /\ Append(words, Head(fifo)) = Answer(0, 1)
    BY <1>2, <2>4, <2>5, WholeAnswer
  <2>7. words' = Answer(0, 1) /\ Head(fifo) = Crc(words)
    BY <1>2, <2>3, <2>6, FirstWords
  <2>8. ret' = 4
    BY <1>1, <2>4, <2>7
  <2>9. QED
    BY <1>1, <2>4, <2>6, <2>7, <2>8 DEF FirstExchange, AtCleanup, CRC_ERROR
<1>6. left' \in Int /\ ret' \in Int
  BY <1>1, <1>2 DEF TypeOK, CRC_ERROR
<1>7. uart' \in BOOLEAN /\ misread' \in BOOLEAN /\ calm' \in BOOLEAN
  BY <1>1, <1>2 DEF TypeOK
<1>8. line' \in Seq(Nat) /\ ~Waiting'
  BY <1>1, <1>2 DEF TypeOK, Waiting
<1>9. QED
  BY <1>1, <1>2, <1>3, <1>4, <1>5, <1>6, <1>7, <1>8, Sending

\* A wrong checksum is tried again, on a line that has nothing left of the attempt but
\* its last word.
LEMMA AgainKeeps ==
  ASSUME IInv, Again
  PROVE  IInv'
<1>1. /\ UNCHANGED <<server_capabilities, cmd, words, left, ret, contacted, calls, misread,
                     line, out, faults, breaks, fifo>>
      /\ pc = "cleanup" /\ Expire /\ Retries /\ pc' = "clear"
      /\ retries' = retries + 1 /\ uart' = FALSE
  BY DEF Again, network, serverVars
<1>2. TypeOK
  BY DEF IInv
<1>3. calm' \in BOOLEAN /\ (calm' = TRUE => calm = TRUE)
  BY <1>1, <1>2, ExpireFacts
<1>4. OnTheLine'
  BY <1>1 DEF IInv, OnTheLine, Asked
<1>5. Contacting'
  <2>1. SUFFICES ASSUME faults = 0, cmd = 0 PROVE Over'
    BY <1>1 DEF Contacting, FirstExchange
  <2>2. Over
    BY <1>1, <2>1 DEF IInv, Contacting, FirstExchange, AtCleanup, Retries
  <2>3. QED
    BY <1>1, <1>3, <2>2 DEF Over, Quiet, Asked, coming
<1>6. Read' /\ Accepted'
  BY <1>1 DEF Read, Accepted
<1>7. line' \in Seq(Nat) /\ fifo' \in Seq(Words(Answered)) /\ words' \in Seq(Words({0, 1}))
  BY <1>1, <1>2 DEF TypeOK
<1>8. retries' \in Nat /\ left' \in Int /\ ret' \in Int
  BY <1>1, <1>2 DEF TypeOK
<1>9. uart' \in BOOLEAN /\ misread' \in BOOLEAN
  BY <1>1, <1>2 DEF TypeOK
<1>10. pc # "idle" /\ ~Waiting'
  BY <1>1 DEF Waiting
<1>11. QED
  BY <1>1, <1>3, <1>4, <1>5, <1>6, <1>7, <1>8, <1>9, <1>10, Sending

\* send_message returns, and raspbootin_init believes what it returned.
LEMMA SendReturnsKeeps ==
  ASSUME IInv, SendReturns
  PROVE  IInv'
<1>1. /\ UNCHANGED <<cmd, retries, words, left, ret, calls, misread, line, out, faults,
                     breaks, fifo>>
      /\ pc = "cleanup" /\ Expire /\ pc' = "idle" /\ uart' = TRUE /\ contacted' = TRUE
      /\ \/ contacted /\ server_capabilities' = server_capabilities
         \/ /\ ~contacted
            /\ server_capabilities' = IF ret = 4 THEN Capabilities ELSE {3}
  BY DEF SendReturns, network, serverVars, IInv, TypeOK
<1>2. TypeOK
  BY DEF IInv
<1>3. calm' \in BOOLEAN /\ (calm' = TRUE => calm = TRUE)
  BY <1>1, <1>2, ExpireFacts
<1>4. OnTheLine' /\ Answered' = Answered
  BY <1>1 DEF IInv, OnTheLine, Asked, Answered
<1>5. server_capabilities' \in SUBSET Nat
  <2>1. server_capabilities \in SUBSET Nat
    BY <1>2 DEF TypeOK
  <2>2. SERVER_CAPABILITIES \in SUBSET Nat /\ UNINITIALISED \in SUBSET Nat
        /\ {3} \in SUBSET Nat
    BY DEF SERVER_CAPABILITIES, UNINITIALISED
  <2>3. Capabilities \in SUBSET Nat
    BY <2>2 DEF Capabilities
  <2>4. QED
    BY <1>1, <2>1, <2>2, <2>3
<1>6. TypeOK'
  <2>1. /\ cmd' \in {0, 1} /\ retries' \in Nat /\ left' \in Int /\ ret' \in Int
        /\ line' \in Seq(Nat) /\ breaks' \in 0 .. 2 /\ calls' \in Nat /\ faults' \in Nat
    BY <1>1, <1>2 DEF TypeOK
  <2>2. uart' \in BOOLEAN /\ contacted' \in BOOLEAN /\ misread' \in BOOLEAN
    BY <1>1, <1>2 DEF TypeOK
  <2>3. ~Waiting' /\ pc' \in {"idle", "clear", "cleanup"}
    BY <1>1 DEF Waiting
  <2>4. /\ fifo' \in Seq(Words(Answered')) /\ out' \in Seq(Words(Answered'))
        /\ words' \in Seq(Words({0, 1}))
    BY <1>1, <1>2, <1>4 DEF TypeOK
  <2>5. (cmd' = 1 => contacted') /\ (cmd' = 0 /\ pc' # "idle" => ~contacted')
    BY <1>1
  <2>6. calm' => faults' = 0
    BY <1>1, <1>2, <1>3 DEF TypeOK
  <2>7. QED
    BY <1>3, <1>5, <2>1, <2>2, <2>3, <2>4, <2>5, <2>6 DEF TypeOK
<1>7. Read' /\ Accepted'
  BY <1>1 DEF Read, Accepted
<1>8. words = Answer(0, 1) => Capabilities = SERVER_CAPABILITIES
  BY FirstWords DEF Capabilities
<1>9. ASSUME ~contacted, faults = 0 PROVE AtCleanup
  <2>1. cmd = 0
    BY <1>2, <1>9 DEF TypeOK
  <2>2. QED
    BY <1>1, <1>9, <2>1 DEF IInv, Contacting, FirstExchange
<1>10. Contacting'
  <2>1. SUFFICES ASSUME faults = 0, cmd = 0, 1 \in server_capabilities'
                 PROVE  Quiet' /\ coming' = <<>>
    BY <1>1 DEF Contacting, FirstExchange
  <2>2. ~contacted
    BY <1>1, <1>2, <2>1 DEF TypeOK
  <2>3. ret = 4
    BY <1>1, <2>1, <2>2
  <2>4. Quiet /\ coming = <<>>
    BY <1>9, <2>1, <2>2, <2>3 DEF AtCleanup
  <2>5. QED
    BY <1>1, <2>4 DEF Quiet, Asked, coming
<1>11. CapabilitiesRight'
  <2>1. CASE contacted
    BY <1>1, <1>3, <2>1 DEF IInv, CapabilitiesRight
  <2>2. CASE ~contacted
    <3>1. ASSUME ~misread, ret = 4 PROVE server_capabilities' = SERVER_CAPABILITIES
      <4>1. PICK c \in Answered : \E n \in Lengths(c) : words = Answer(c, n) /\ ret = 4 * n
        BY <1>1, <3>1 DEF IInv, Accepted
      <4>2. PICK n \in Lengths(c) : words = Answer(c, n) /\ ret = 4 * n
        BY <4>1
      <4>3. c \in {0, 1} /\ n \in Nat
        BY <1>2, <4>1, AnsweredFacts, LengthFacts
      <4>4. n = 1
        BY <3>1, <4>2, <4>3
      <4>5. c = 0
        BY <4>2, <4>3, <4>4, LengthFacts
      <4>6. QED
        BY <1>1, <1>8, <2>2, <3>1, <4>2, <4>4, <4>5
    <3>2. ASSUME calm' = TRUE PROVE server_capabilities' = SERVER_CAPABILITIES
      <4>1. calm = TRUE /\ faults = 0
        BY <1>2, <1>3, <3>2 DEF TypeOK
      <4>2. ret = 4 /\ words = Answer(0, 1)
        BY <1>9, <2>2, <4>1 DEF AtCleanup
      <4>3. QED
        BY <1>1, <1>8, <2>2, <4>2
    <3>3. QED
      BY <1>1, <1>3, <2>2, <3>1, <3>2 DEF CapabilitiesRight
  <2>3. QED
    BY <2>1, <2>2
<1>12. QED
  BY <1>4, <1>6, <1>7, <1>10, <1>11 DEF IInv

\* The server is asked what it can do.
LEMMA InitKeeps ==
  ASSUME IInv, raspbootin_init
  PROVE  IInv'
<1>1. /\ UNCHANGED <<server_capabilities, words, left, ret, contacted, calls, misread,
                     line, out, faults, breaks, fifo, calm>>
      /\ pc = "idle" /\ ~contacted /\ pc' = "clear" /\ cmd' = 0 /\ retries' = 0
      /\ uart' = FALSE
  BY DEF raspbootin_init, network, serverVars
<1>2. TypeOK /\ cmd = 0
  BY <1>1 DEF IInv, TypeOK
<1>3. OnTheLine' /\ Answered' = Answered
  BY <1>1, <1>2 DEF IInv, OnTheLine, Asked, Answered
<1>4. TypeOK'
  <2>1. /\ server_capabilities' \in SUBSET Nat /\ cmd' \in {0, 1} /\ retries' \in Nat
        /\ left' \in Int /\ ret' \in Int /\ line' \in Seq(Nat) /\ breaks' \in 0 .. 2
        /\ calls' \in Nat /\ faults' \in Nat
    BY <1>1, <1>2 DEF TypeOK
  <2>2. uart' \in BOOLEAN /\ contacted' \in BOOLEAN /\ misread' \in BOOLEAN /\ calm' \in BOOLEAN
    BY <1>1, <1>2 DEF TypeOK
  <2>3. ~Waiting' /\ pc' \in {"idle", "clear", "cleanup"}
    BY <1>1 DEF Waiting
  <2>4. /\ fifo' \in Seq(Words(Answered')) /\ out' \in Seq(Words(Answered'))
        /\ words' \in Seq(Words({0, 1}))
    BY <1>1, <1>2, <1>3 DEF TypeOK
  <2>5. (cmd' = 1 => contacted') /\ (cmd' = 0 /\ pc' # "idle" => ~contacted')
    BY <1>1
  <2>6. calm' => faults' = 0
    BY <1>1, <1>2 DEF TypeOK
  <2>7. QED
    BY <2>1, <2>2, <2>3, <2>4, <2>5, <2>6 DEF TypeOK
<1>5. Contacting'
  <2>1. SUFFICES ASSUME faults = 0 PROVE Over'
    BY <1>1 DEF Contacting, FirstExchange
  <2>2. Quiet /\ coming = <<>>
    BY <1>1, <1>2, <2>1 DEF IInv, Contacting, FirstExchange
  <2>3. QED
    BY <1>1, <2>2 DEF Over, Quiet, Asked, coming
<1>6. Read' /\ Accepted' /\ CapabilitiesRight'
  BY <1>1 DEF IInv, Read, Accepted, CapabilitiesRight
<1>7. QED
  BY <1>3, <1>4, <1>5, <1>6 DEF IInv

\* A directory is asked for, by a client that has been answered before.
LEMMA ReadDirectoryKeeps ==
  ASSUME IInv, raspbootin_read_directory
  PROVE  IInv'
<1>1. /\ UNCHANGED <<server_capabilities, words, left, ret, contacted, misread,
                     line, out, faults, breaks, fifo, calm>>
      /\ pc = "idle" /\ contacted /\ 1 \in server_capabilities /\ pc' = "clear" /\ cmd' = 1
      /\ retries' = 0 /\ calls' = calls + 1 /\ uart' = FALSE
  BY DEF raspbootin_read_directory, network, serverVars
<1>2. TypeOK
  BY DEF IInv
<1>3. ASSUME faults = 0, cmd = 0 PROVE Asked = {} /\ fifo = <<>> /\ out = <<>>
  <2>1. Asked = {} /\ coming = <<>>
    BY <1>1, <1>3 DEF IInv, Contacting, FirstExchange, Quiet
  <2> DEFINE S == Words(Answered)
  <2>2. fifo \in Seq(S) /\ out \in Seq(S) /\ fifo \o out = <<>>
    BY <1>2, <2>1 DEF TypeOK, coming
  <2> HIDE DEF S
  <2>3. fifo = <<>> /\ out = <<>>
    <3>1. fifo \in Seq(S) /\ out \in Seq(S)
      BY <2>2
    <3>2. Len(fifo \o out) = Len(fifo) + Len(out)
      BY <3>1
    <3>3. Len(fifo \o out) = 0
      BY <2>2
    <3>4. Len(fifo) = 0 /\ Len(out) = 0
      BY <3>1, <3>2, <3>3
    <3>5. QED
      BY <3>1, <3>4
  <2>4. QED
    BY <2>1, <2>3
<1>4. /\ fifo' \in Seq(Words(Answered')) /\ out' \in Seq(Words(Answered'))
      /\ words' \in Seq(Words({0, 1}))
  <2>1. CASE faults = 0 /\ cmd = 0
    BY <1>1, <1>2, <1>3, <2>1 DEF TypeOK
  <2>2. CASE ~(faults = 0 /\ cmd = 0)
    <3>1. Answered' = Answered
      BY <1>1, <1>2, <2>2 DEF TypeOK, Answered
    <3>2. QED
      BY <1>1, <1>2, <3>1 DEF TypeOK
  <2>3. QED
    BY <2>1, <2>2
<1>5. OnTheLine'
  <2>1. SUFFICES ASSUME faults = 0 PROVE Commands(line, breaks, 1)
    BY <1>1 DEF OnTheLine
  <2>2. line \in Seq(Nat) /\ breaks \in 0 .. 2
    BY <1>2 DEF TypeOK
  <2>3. CASE cmd = 0
    <3>1. Requests(line, breaks, 0, {})
      BY <1>3, <2>1, <2>3 DEF IInv, OnTheLine
    <3>2. QED
      BY <2>2, <3>1, NoCommands
  <2>4. CASE cmd = 1
    BY <2>1, <2>4 DEF IInv, OnTheLine
  <2>5. QED
    BY <1>2, <2>3, <2>4 DEF TypeOK
<1>6. TypeOK'
  <2>1. /\ server_capabilities' \in SUBSET Nat /\ cmd' \in {0, 1} /\ retries' \in Nat
        /\ left' \in Int /\ ret' \in Int /\ line' \in Seq(Nat) /\ breaks' \in 0 .. 2
        /\ calls' \in Nat /\ faults' \in Nat
    BY <1>1, <1>2 DEF TypeOK
  <2>2. uart' \in BOOLEAN /\ contacted' \in BOOLEAN /\ misread' \in BOOLEAN /\ calm' \in BOOLEAN
    BY <1>1, <1>2 DEF TypeOK
  <2>3. ~Waiting' /\ pc' \in {"idle", "clear", "cleanup"}
    BY <1>1 DEF Waiting
  <2>4. (cmd' = 1 => contacted') /\ (cmd' = 0 /\ pc' # "idle" => ~contacted')
    BY <1>1
  <2>5. calm' => faults' = 0
    BY <1>1, <1>2 DEF TypeOK
  <2>6. QED
    BY <1>4, <2>1, <2>2, <2>3, <2>4, <2>5 DEF TypeOK
<1>7. Contacting'
  BY <1>1 DEF Contacting
<1>8. Read' /\ Accepted' /\ CapabilitiesRight'
  BY <1>1 DEF IInv, Read, Accepted, CapabilitiesRight
<1>9. QED
  BY <1>5, <1>6, <1>7, <1>8 DEF IInv

(***************************************************************************)
(* The theorems.                                                           *)
(***************************************************************************)

\* The invariant holds at first.
LEMMA InitIInv == Init => IInv
<1> SUFFICES ASSUME Init PROVE IInv
  OBVIOUS
<1> USE DEF Init
<1>1. /\ server_capabilities \in SUBSET Nat /\ cmd \in {0, 1} /\ retries \in Nat
      /\ left \in Int /\ ret \in Int /\ line \in Seq(Nat) /\ breaks \in 0 .. 2
      /\ calls \in Nat /\ faults \in Nat
  OBVIOUS
<1>2. uart \in BOOLEAN /\ contacted \in BOOLEAN /\ misread \in BOOLEAN /\ calm \in BOOLEAN
  OBVIOUS
<1>3. /\ fifo \in Seq(Words(Answered)) /\ out \in Seq(Words(Answered))
      /\ words \in Seq(Words({0, 1})) /\ ~Waiting
  BY DEF Waiting
<1>4. TypeOK
  BY <1>1, <1>2, <1>3 DEF TypeOK
<1>5. Asked = {}
  BY DEF Asked, Starts
<1>6. OnTheLine
  BY <1>5, NoRequests DEF OnTheLine
<1>7. coming = <<>>
  BY DEF coming
<1>8. Read /\ Accepted /\ Contacting
  BY <1>5, <1>7 DEF Read, Accepted, Contacting, FirstExchange, Quiet
<1>9. CapabilitiesRight
  BY DEF CapabilitiesRight
<1>10. QED
  BY <1>4, <1>6, <1>8, <1>9 DEF IInv

\* Every step keeps the invariant.
LEMMA NextIInv == IInv /\ [Next]_vars => IInv'
<1> SUFFICES ASSUME IInv, [Next]_vars PROVE IInv'
  OBVIOUS
<1>1. CASE Calls
  BY <1>1, InitKeeps, ReadDirectoryKeeps DEF Calls
<1>2. CASE ClientStep
  BY <1>2, ClearKeeps, SendRequestKeeps, ReadTimeoutKeeps, ReadMagicKeeps, ReadLengthKeeps,
     ReadErrorKeeps, ReadDataKeeps, ReadCrcKeeps, AgainKeeps, SendReturnsKeeps DEF ClientStep
<1>3. CASE ServerStep
  BY <1>3, ServerReadsKeeps, ServerIdentifiesKeeps, ServerReadsDirectoryKeeps,
     ServerIgnoresKeeps DEF ServerStep
<1>4. CASE Arrive
  BY <1>4, ArriveKeeps
<1>5. CASE LineFault
  BY <1>5, LineFaultKeeps
<1>6. CASE UNCHANGED vars
  <2>1. /\ UNCHANGED clientVars /\ UNCHANGED <<line, breaks, out, fifo, faults, calm, cmd>>
    BY <1>6 DEF vars, clientVars, serverVars
  <2>2. TypeOK /\ Answered' = Answered /\ coming' = coming /\ Asked' = Asked
    BY <2>1 DEF IInv, Answered, coming, Asked
  <2>3. /\ line' \in Seq(Nat) /\ breaks' \in 0 .. 2
        /\ fifo' \in Seq(Words(Answered')) /\ out' \in Seq(Words(Answered'))
    BY <2>1, <2>2 DEF TypeOK
  <2>4. calm' \in BOOLEAN
    BY <2>1, <2>2 DEF TypeOK
  <2>5. OnTheLine' /\ Contacting'
    BY <2>1, <2>2 DEF IInv, OnTheLine, Contacting, FirstExchange, Over, AtMagic, Reading,
                      AtCleanup, Quiet, clientVars
  <2>6. QED
    BY <2>1, <2>3, <2>4, <2>5, ClientStill
<1>7. QED
  BY <1>1, <1>2, <1>3, <1>4, <1>5, <1>6 DEF Next

\* The exchange never leaves its types, and on a line without faults the server never
\* meets half a request (raspbootin.c:202-367, raspbootin-server.c:386-560).
THEOREM ExchangeInvariant == Spec => []IInv
<1>1. QED
  BY InitIInv, NextIInv, PTL DEF Spec

\* No answer that is damaged, torn or late is taken for capabilities, short of an
\* error code damaged into 4; and a server that is in time is found
\* (raspbootin.c:390-409).
THEOREM CapabilitiesBelieved == Spec => []CapabilitiesRight
<1>1. IInv => CapabilitiesRight
  BY DEF IInv
<1>2. QED
  BY <1>1, ExchangeInvariant, PTL

\* On a line that only delays, an answer is never taken for that of another command
\* (raspbootin.c:369-388).
THEOREM AnswerIsOwn == Spec => []AnswerBelongs
<1>1. ASSUME IInv PROVE AnswerBelongs
  <2>1. SUFFICES ASSUME pc = "cleanup", ret > 0, faults = 0
                 PROVE  \A i \in 4 .. Len(words) - 1 :
                          words[i][1] = "data" /\ words[i][2] = cmd
    BY DEF AnswerBelongs
  <2>2. TypeOK /\ calm \in BOOLEAN /\ misread \in BOOLEAN
    BY <1>1 DEF IInv, TypeOK
  <2>3. CASE Len(words) = 3
    BY <2>3
  <2>4. CASE \E c \in Answered : \E n \in Lengths(c) : words = Answer(c, n) /\ ret = 4 * n
    <3>1. PICK n \in Lengths(cmd) : words = Answer(cmd, n)
      BY <2>1, <2>4 DEF Answered
    <3>2. n \in Nat
      BY <2>2, LengthFacts DEF TypeOK
    <3>3. /\ Len(words) = 4 + n
          /\ \A i \in 4 .. 3 + n : words[i] = <<"data", cmd, i - 3>>
      BY <3>1, <3>2, AnswerFacts
    <3>4. QED
      BY <3>2, <3>3
  <2>5. QED
    BY <1>1, <2>1, <2>3, <2>4 DEF IInv, Accepted
<1>2. QED
  BY <1>1, ExchangeInvariant, PTL

================================================================================
