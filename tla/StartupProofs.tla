----------------------------- MODULE StartupProofs -----------------------------
(***************************************************************************)
(* Theorems about Startup and the modules it extends.                      *)
(***************************************************************************)
EXTENDS Startup, FiniteSetTheorems, SequenceTheorems, TLAPS

(***************************************************************************)
(* Least and greatest numbers.                                             *)
(***************************************************************************)
Below == {ss \in Nat \X Nat : ss[1] < ss[2]}

LEMMA BelowWF == IsWellFoundedOn(Below, Nat)
BY NatLessThanWellFounded DEF OpToRel, Below

LEMMA Least ==
  ASSUME NEW T \in SUBSET Nat, T # {}
  PROVE  \E m \in T : \A k \in T : m <= k
<1>1. \E m \in T : \A k \in T : ~(<<k, m>> \in Below)
  BY BelowWF, WFMin
<1>2. \A k, m \in T : ~(<<k, m>> \in Below) => m <= k
  BY DEF Below
<1> QED BY <1>1, <1>2

LEMMA Greatest ==
  ASSUME NEW T \in SUBSET Nat, T # {}, NEW b \in Nat, \A k \in T : k <= b
  PROVE  \E m \in T : \A k \in T : k <= m
<1> DEFINE U == {b - k : k \in T}
<1>1. \A k \in T : b - k \in Nat
  OBVIOUS
<1> U \in SUBSET Nat /\ U # {}
  BY <1>1
<1>2. PICK u \in U : \A v \in U : u <= v
  BY Least
<1>3. PICK m \in T : u = b - m
  OBVIOUS
<1>4. \A k \in T : b - m <= b - k
  BY <1>2, <1>3
<1> QED BY <1>3, <1>4

(***************************************************************************)
(* The lines of a configuration.                                           *)
(***************************************************************************)
LEMMA FirstFound ==
  ASSUME NEW s \in Seq(STRING), NEW i \in Nat \ {0}, NEW found \in SUBSET (i .. Len(s))
  PROVE  /\ First(s, found) = Len(s) + 1 \/ First(s, found) \in found
         /\ \A k \in found : First(s, found) <= k
<1>1. CASE found = {}
  BY <1>1 DEF First
<1>2. CASE found # {}
  <2>1. found \in SUBSET Nat
    OBVIOUS
  <2>2. PICK m \in found : \A j \in found : m <= j
    BY <1>2, <2>1, Least
  <2> QED BY <1>2, <2>2 DEF First
<1> QED BY <1>1, <1>2

LEMMA FirstNotInIs ==
  ASSUME NEW s \in Seq(STRING), NEW i \in Nat \ {0}, i <= Len(s) + 1, NEW chars
  PROVE  /\ FirstNotIn(s, i, chars) \in i .. Len(s) + 1
         /\ \A k \in i .. FirstNotIn(s, i, chars) - 1 : s[k] \in chars
         /\ FirstNotIn(s, i, chars) <= Len(s) => s[FirstNotIn(s, i, chars)] \notin chars
<1> DEFINE found == {k \in i .. Len(s) : s[k] \notin chars}
           u == FirstNotIn(s, i, chars)
<1>1. u = First(s, found)
  BY DEF FirstNotIn
<1>2. /\ u = Len(s) + 1 \/ u \in found
      /\ \A k \in found : u <= k
  <2>1. found \in SUBSET (i .. Len(s))
    OBVIOUS
  <2> HIDE DEF found
  <2> QED BY <1>1, <2>1, FirstFound
<1> HIDE DEF u
<1>3. u \in i .. Len(s) + 1 /\ (u <= Len(s) => s[u] \notin chars)
  BY <1>2
<1>4. \A k \in i .. u - 1 : s[k] \in chars
  BY <1>2, <1>3
<1> QED BY <1>3, <1>4 DEF u

LEMMA FirstInIs ==
  ASSUME NEW s \in Seq(STRING), NEW i \in Nat \ {0}, i <= Len(s) + 1, NEW chars
  PROVE  /\ FirstIn(s, i, chars) \in i .. Len(s) + 1
         /\ \A k \in i .. FirstIn(s, i, chars) - 1 : s[k] \notin chars
         /\ FirstIn(s, i, chars) <= Len(s) => s[FirstIn(s, i, chars)] \in chars
<1> DEFINE found == {k \in i .. Len(s) : s[k] \in chars}
           u == FirstIn(s, i, chars)
<1>1. u = First(s, found)
  BY DEF FirstIn
<1>2. /\ u = Len(s) + 1 \/ u \in found
      /\ \A k \in found : u <= k
  <2>1. found \in SUBSET (i .. Len(s))
    OBVIOUS
  <2> HIDE DEF found
  <2> QED BY <1>1, <2>1, FirstFound
<1> HIDE DEF u
<1>3. u \in i .. Len(s) + 1 /\ (u <= Len(s) => s[u] \in chars)
  BY <1>2
<1>4. \A k \in i .. u - 1 : s[k] \notin chars
  BY <1>2, <1>3
<1> QED BY <1>3, <1>4 DEF u

LEMMA Part ==
  ASSUME NEW s \in Seq(STRING), NEW a \in Nat \ {0}, NEW b \in Nat,
         a <= Len(s) + 1, a - 1 <= b, b <= Len(s)
  PROVE  /\ SubSeq(s, a, b) \in Seq(STRING)
         /\ Len(SubSeq(s, a, b)) = b - a + 1
         /\ \A k \in 1 .. b - a + 1 : SubSeq(s, a, b)[k] = s[a + k - 1]
<1>1. \A k \in a .. b : s[k] \in STRING
  OBVIOUS
<1>2. a \in Int /\ b \in Int /\ (a <= b \/ b - a + 1 = 0)
  OBVIOUS
<1> QED BY <1>1, <1>2, SubSeqProperties

Line(s) == Trimmed(Uncommented(Unindented(s)))

LEMMA TrimmedIs ==
  ASSUME NEW c \in Seq(STRING), c # <<>>, c[1] \notin Blanks
  PROVE  \E t \in 1 .. Len(c) : /\ Trimmed(c) = SubSeq(c, 1, t)
                                /\ c[t] \notin Blanks
                                /\ \A k \in t + 1 .. Len(c) : c[k] \in Blanks
<1> DEFINE kept == {k \in DOMAIN c : k = 1 \/ c[k] \notin Blanks}
<1>1. kept \in SUBSET Nat /\ 1 \in kept /\ Len(c) \in Nat /\ \A k \in kept : k <= Len(c)
  OBVIOUS
<1>2. PICK m \in kept : \A k \in kept : k <= m
  <2> HIDE DEF kept
  <2> QED BY <1>1, Greatest
<1> DEFINE t == CHOOSE k \in kept : \A j \in kept : j <= k
<1>3. t \in kept /\ \A k \in kept : k <= t
  BY <1>2
<1>4. Trimmed(c) = SubSeq(c, 1, t)
  BY DEF Trimmed
<1> HIDE DEF t
<1>5. t \in 1 .. Len(c) /\ c[t] \notin Blanks
  BY <1>3
<1>6. \A k \in t + 1 .. Len(c) : c[k] \in Blanks
  BY <1>3, <1>5
<1> QED BY <1>4, <1>5, <1>6

\* The words of a line are taken apart at the first space.
LEMMA Split ==
  ASSUME NEW w \in Seq(STRING), w # <<>>, w[1] \notin Blanks
  PROVE  LET method == split_string(w).method
             args == split_string(w).args
             gap == SubSeq(w, Len(method) + 1, Len(w) - Len(args))
         IN  /\ method # <<>> /\ w = method \o gap \o args
             /\ \A j \in DOMAIN method : method[j] # Space
             /\ \A j \in DOMAIN gap : gap[j] = Space
             /\ args # <<>> => gap # <<>> /\ args[1] # Space
<1> DEFINE n == Len(w)
           ms == FirstNotIn(w, 1, {Space})
           me == FirstIn(w, 1, {Space})
           ag == FirstNotIn(w, me, {Space})
<1>1. n \in Nat \ {0} /\ 1 \in Nat \ {0} /\ 1 <= n + 1
  OBVIOUS
<1>2. ms = 1
  <2>1. ms \in 1 .. n + 1 /\ \A k \in 1 .. ms - 1 : w[k] \in {Space}
    BY <1>1, FirstNotInIs
  <2> HIDE DEF ms
  <2>2. w[1] # Space
    BY DEF Blanks
  <2> QED BY <2>1, <2>2
<1>3. /\ me \in 1 .. n + 1
      /\ \A k \in 1 .. me - 1 : w[k] # Space
      /\ me <= n => w[me] = Space
  <2>1. /\ me \in 1 .. n + 1
        /\ \A k \in 1 .. me - 1 : w[k] \notin {Space}
        /\ me <= n => w[me] \in {Space}
    BY <1>1, FirstInIs
  <2> HIDE DEF me
  <2> QED BY <2>1
<1>4. me > 1
  <2> HIDE DEF me
  <2>1. w[1] # Space
    BY DEF Blanks
  <2> QED BY <1>1, <1>3, <2>1
<1>5. /\ ag \in me .. n + 1
      /\ \A k \in me .. ag - 1 : w[k] = Space
      /\ ag <= n => w[ag] # Space
  <2> HIDE DEF me
  <2>1. me \in Nat \ {0} /\ me <= Len(w) + 1
    BY <1>3
  <2>2. /\ ag \in me .. n + 1
        /\ \A k \in me .. ag - 1 : w[k] \in {Space}
        /\ ag <= n => w[ag] \notin {Space}
    BY <2>1, FirstNotInIs
  <2> HIDE DEF ag
  <2> QED BY <2>2
<1>6. split_string(w).method = SubSeq(w, 1, me - 1) /\ split_string(w).args = SubSeq(w, ag, n)
  BY <1>2 DEF split_string, MethodStart, MethodEnd, ArgsStart
<1> DEFINE method == SubSeq(w, 1, me - 1)
           args == SubSeq(w, ag, n)
           gap == SubSeq(w, me, ag - 1)
<1> HIDE DEF ms, me, ag
<1>7. /\ me \in Nat \ {0} /\ ag \in Nat \ {0} /\ 1 <= me - 1 /\ me - 1 <= n
      /\ me <= ag /\ ag - 1 <= n /\ me - 1 \in Nat /\ ag - 1 \in Nat /\ n = Len(w) /\ n \in Nat
      /\ me <= Len(w) + 1 /\ ag <= Len(w) + 1
  BY <1>3, <1>4, <1>5
<1> HIDE DEF n
<1>8. /\ method \in Seq(STRING) /\ Len(method) = me - 1
      /\ \A k \in 1 .. me - 1 : method[k] = w[k]
  <2>1. method = SubSeq(w, 1, me - 1) /\ 1 \in Nat \ {0} /\ 1 <= Len(w) + 1
    BY <1>7
  <2> HIDE DEF method
  <2> QED BY <1>7, <2>1
<1>9. /\ args \in Seq(STRING) /\ Len(args) = n - ag + 1
      /\ \A k \in 1 .. n - ag + 1 : args[k] = w[ag + k - 1]
  BY <1>7, Part
<1>10. /\ gap \in Seq(STRING) /\ Len(gap) = ag - me
       /\ \A k \in 1 .. ag - me : gap[k] = w[me + k - 1]
  <2>1. ag - 1 - me + 1 = ag - me
    BY <1>7
  <2> QED BY <1>7, <2>1, Part
<1>11. gap = SubSeq(w, Len(method) + 1, n - Len(args))
  <2>1. Len(method) + 1 = me /\ n - Len(args) = ag - 1
    <3> HIDE DEF method, args
    <3> QED BY <1>7, <1>8, <1>9
  <2> HIDE DEF method, args
  <2> QED BY <2>1
<1> HIDE DEF method, args, gap
<1>12. w = method \o gap \o args
  <2>1. 1 \in 1 .. Len(w) + 1 /\ me - 1 \in 0 .. Len(w) /\ ag - 1 \in me - 1 .. Len(w)
    BY <1>7
  <2>2. me - 1 + 1 = me /\ ag - 1 + 1 = ag /\ 1 - 1 = 0 /\ ag - 1 \in 0 .. Len(w) /\ n \in ag - 1 .. Len(w)
    BY <1>7
  <2>3. SubSeq(w, 1, me - 1) \o SubSeq(w, me - 1 + 1, ag - 1) = SubSeq(w, 1, ag - 1)
    BY <2>1, <2>2, ConcatAdjacentSubSeq
  <2>4. SubSeq(w, 1, ag - 1) \o SubSeq(w, ag - 1 + 1, n) = SubSeq(w, 1, n)
    BY <2>1, <2>2, ConcatAdjacentSubSeq
  <2>5. SubSeq(w, 1, n) = w
    BY <1>7, SubSeqFull
  <2> QED BY <2>2, <2>3, <2>4, <2>5 DEF method, gap, args
<1>13. method # <<>> /\ \A j \in DOMAIN method : method[j] # Space
  BY <1>3, <1>7, <1>8
<1>14. \A j \in DOMAIN gap : gap[j] = Space
  <2>1. ASSUME NEW j \in DOMAIN gap PROVE gap[j] = Space
    <3> DEFINE p == me + j - 1
    <3>1. j \in 1 .. ag - me /\ p \in me .. ag - 1
      BY <1>7, <1>10
    <3>2. gap[j] = w[p]
      BY <1>10, <3>1
    <3> HIDE DEF p
    <3> QED BY <1>5, <3>1, <3>2
  <2> QED BY <2>1
<1>15. args # <<>> => gap # <<>> /\ args[1] # Space
  <2>1. SUFFICES ASSUME args # <<>> PROVE gap # <<>> /\ args[1] # Space
    OBVIOUS
  <2>2. ag <= n
    BY <1>7, <1>9, <2>1
  <2>3. args[1] = w[ag]
    BY <1>7, <1>9, <2>2
  <2>4. ag # me
    BY <1>3, <1>5, <1>7, <2>2
  <2> QED BY <1>5, <1>7, <1>10, <2>2, <2>3, <2>4
<1> QED
  BY <1>6, <1>11, <1>12, <1>13, <1>14, <1>15 DEF method, args, n

Enclosed(s) ==
  \E i, k \in 0 .. Len(s) :
    /\ i < k /\ Line(s) = SubSeq(s, i + 1, k) /\ Words(Line(s))
    /\ AllBlank(SubSeq(s, 1, i)) /\ Ignored(SubSeq(s, k + 1, Len(s)))

\* A line that is not ignored is white space, words, and what is ignored.
LEMMA Strip ==
  ASSUME NEW s \in Seq(STRING)
  PROVE  (Ignored(s) /\ Line(s) = <<>>) \/ Enclosed(s)
<1> DEFINE n == Len(s)
           u == FirstNotIn(s, 1, Blanks)
           b == SubSeq(s, u, n)
           h == FirstIn(b, 1, {"#"})
           c == SubSeq(b, 1, h - 1)
<1>1. /\ u \in 1 .. n + 1
      /\ \A k \in 1 .. u - 1 : s[k] \in Blanks
      /\ u <= n => s[u] \notin Blanks
  <2>1. 1 \in Nat \ {0} /\ 1 <= Len(s) + 1
    OBVIOUS
  <2> QED BY <2>1, FirstNotInIs
<1>2. Line(s) = Trimmed(c)
  BY DEF Line, Uncommented, Unindented
<1> HIDE DEF u
<1>3. /\ n \in Nat /\ n = Len(s) /\ u \in Nat \ {0} /\ u <= Len(s) + 1 /\ u - 1 <= n
      /\ n - u + 1 \in Nat
  BY <1>1
<1> HIDE DEF n
<1>4. /\ b \in Seq(STRING) /\ Len(b) = n - u + 1
      /\ \A k \in 1 .. n - u + 1 : b[k] = s[u + k - 1]
  BY <1>3, Part
<1> HIDE DEF b
<1>5. /\ h \in 1 .. Len(b) + 1
      /\ \A k \in 1 .. h - 1 : b[k] # "#"
      /\ h <= Len(b) => b[h] = "#"
  <2>1. 1 \in Nat \ {0} /\ 1 <= Len(b) + 1
    BY <1>3, <1>4
  <2>2. /\ h \in 1 .. Len(b) + 1
        /\ \A k \in 1 .. h - 1 : b[k] \notin {"#"}
        /\ h <= Len(b) => b[h] \in {"#"}
    BY <1>4, <2>1, FirstInIs
  <2> QED BY <2>2
<1> HIDE DEF h
<1>6. /\ c \in Seq(STRING) /\ Len(c) = h - 1
      /\ \A k \in 1 .. h - 1 : c[k] = b[k]
  <2>1. h - 1 \in Nat /\ h - 1 <= Len(b) /\ 1 \in Nat \ {0} /\ 1 <= Len(b) + 1 /\ 1 - 1 <= h - 1
    BY <1>3, <1>4, <1>5
  <2>2. /\ c \in Seq(STRING) /\ Len(c) = h - 1 - 1 + 1
        /\ \A k \in 1 .. h - 1 - 1 + 1 : c[k] = b[1 + k - 1]
    BY <1>4, <2>1, Part
  <2>3. h - 1 - 1 + 1 = h - 1 /\ \A k \in 1 .. h - 1 : 1 + k - 1 = k
    BY <1>3, <1>4, <1>5
  <2> HIDE DEF c
  <2> QED BY <2>2, <2>3
<1> HIDE DEF c
\* The white space in front.
<1>7. AllBlank(SubSeq(s, 1, u - 1))
  <2>1. /\ SubSeq(s, 1, u - 1) \in Seq(STRING) /\ Len(SubSeq(s, 1, u - 1)) = u - 1 - 1 + 1
        /\ \A k \in 1 .. u - 1 - 1 + 1 : SubSeq(s, 1, u - 1)[k] = s[1 + k - 1]
    <3>1. 1 \in Nat \ {0} /\ u - 1 \in Nat /\ 1 <= Len(s) + 1 /\ 1 - 1 <= u - 1 /\ u - 1 <= Len(s)
      BY <1>3
    <3> QED BY <3>1, Part
  <2> DEFINE front == SubSeq(s, 1, u - 1)
  <2> HIDE DEF front
  <2>2. u - 1 - 1 + 1 = u - 1 /\ \A k \in 1 .. u - 1 : 1 + k - 1 = k
    BY <1>3
  <2>3. front \in Seq(STRING) /\ Len(front) = u - 1 /\ \A k \in 1 .. u - 1 : front[k] = s[k]
    BY <2>1, <2>2 DEF front
  <2>4. AllBlank(front)
    BY <1>1, <2>3 DEF AllBlank
  <2> QED BY <2>4 DEF front
<1>8. CASE c = <<>>
  <2>1. h = 1
    BY <1>4, <1>5, <1>6, <1>8
  <2>2. u - 1 = Len(s) \/ s[u - 1 + 1] = "#"
    <3>1. CASE Len(b) = 0
      BY <1>3, <1>4, <3>1
    <3>2. CASE Len(b) # 0
      <4>1. b[1] = "#" /\ 1 \in 1 .. n - u + 1 /\ u + 1 - 1 = u - 1 + 1
        BY <1>3, <1>4, <1>5, <2>1, <3>2
      <4> QED BY <1>4, <4>1
    <3> QED BY <3>1, <3>2
  <2>3. u - 1 \in 0 .. Len(s)
    BY <1>3
  <2>4. Ignored(s)
    BY <1>7, <2>2, <2>3 DEF Ignored
  <2>5. Trimmed(c) = <<>>
    BY <1>8 DEF Trimmed
  <2> QED BY <1>2, <2>4, <2>5
<1>9. CASE c # <<>>
  <2>1. h > 1 /\ u <= n /\ c[1] = s[u]
    <3>1. Len(c) > 0
      BY <1>6, <1>9
    <3>2. h > 1 /\ Len(b) > 0
      BY <1>4, <1>5, <1>6, <3>1
    <3>3. u <= n /\ 1 \in 1 .. n - u + 1 /\ u + 1 - 1 = u /\ 1 \in 1 .. h - 1
      BY <1>3, <1>4, <1>5, <3>2
    <3> QED BY <1>4, <1>6, <3>2, <3>3
  <2>2. c[1] \notin Blanks
    BY <1>1, <2>1
  <2>3. PICK t \in 1 .. Len(c) : /\ Trimmed(c) = SubSeq(c, 1, t)
                                 /\ c[t] \notin Blanks
                                 /\ \A k \in t + 1 .. Len(c) : c[k] \in Blanks
    BY <1>6, <1>9, <2>2, TrimmedIs
  <2> DEFINE w == SubSeq(c, 1, t)
             i == u - 1
             k == u - 1 + t
             r == SubSeq(s, k + 1, n)
  <2>4. t \in Nat /\ 1 <= t /\ t <= h - 1 /\ t <= n - u + 1 /\ h \in Nat
    BY <1>3, <1>4, <1>5, <1>6, <2>3
  <2>5. /\ w \in Seq(STRING) /\ Len(w) = t
        /\ \A j \in 1 .. t : w[j] = c[j]
    <3>1. 1 \in Nat \ {0} /\ t \in Nat /\ 1 <= Len(c) + 1 /\ 1 - 1 <= t /\ t <= Len(c)
      BY <1>6, <2>4
    <3>2. /\ w \in Seq(STRING) /\ Len(w) = t - 1 + 1
          /\ \A j \in 1 .. t - 1 + 1 : w[j] = c[1 + j - 1]
      BY <1>6, <3>1, Part
    <3>3. t - 1 + 1 = t /\ \A j \in 1 .. t : 1 + j - 1 = j
      BY <2>4
    <3> HIDE DEF w
    <3> QED BY <3>2, <3>3
  <2>6. /\ i \in 0 .. Len(s) /\ k \in 0 .. Len(s) /\ i < k /\ i + 1 = u
        /\ k + 1 \in Nat \ {0} /\ k + 1 <= Len(s) + 1 /\ k + 1 - 1 <= n /\ n <= Len(s)
    BY <1>3, <2>4
  <2>7. SubSeq(s, i + 1, k) = w
    <3>1. /\ SubSeq(s, u, k) \in Seq(STRING) /\ Len(SubSeq(s, u, k)) = k - u + 1
          /\ \A j \in 1 .. k - u + 1 : SubSeq(s, u, k)[j] = s[u + j - 1]
      <4>1. k \in Nat /\ u - 1 <= k /\ k <= Len(s)
        BY <1>3, <2>4
      <4> HIDE DEF k
      <4> QED BY <1>3, <4>1, Part
    <3> DEFINE x == SubSeq(s, u, k)
    <3>2. k - u + 1 = t
      BY <1>3, <2>4
    <3> HIDE DEF w, x, k
    <3>3. x \in Seq(STRING) /\ Len(x) = t /\ \A j \in 1 .. t : x[j] = s[u + j - 1]
      BY <3>1, <3>2 DEF x
    <3>4. ASSUME NEW j \in 1 .. t PROVE x[j] = w[j]
      <4>1. j \in 1 .. n - u + 1 /\ j \in 1 .. h - 1
        BY <1>3, <2>4
      <4> QED BY <1>4, <1>6, <2>5, <3>3, <4>1
    <3>5. x = w
      BY <2>5, <3>3, <3>4, SeqEqual
    <3> QED BY <2>6, <3>5 DEF x
  <2>8. Words(w)
    <3> HIDE DEF w
    <3>1. \A j \in DOMAIN w : w[j] # "#"
      <4>1. ASSUME NEW j \in 1 .. t PROVE w[j] # "#"
        <5>1. j \in 1 .. h - 1
          BY <1>3, <2>4
        <5> QED BY <1>5, <1>6, <2>5, <5>1
      <4> QED BY <2>5, <4>1
    <3>2. w[1] \notin Blanks /\ w[Len(w)] \notin Blanks
      <4>1. 1 \in 1 .. t /\ t \in 1 .. t
        BY <2>4
      <4> QED BY <2>2, <2>3, <2>5, <4>1
    <3> QED BY <3>1, <3>2 DEF Words
  <2>9. Ignored(r)
    <3> DEFINE m == h - 1 - t
    <3>1. /\ r \in Seq(STRING) /\ Len(r) = n - k
          /\ \A j \in 1 .. n - k : r[j] = s[k + j]
      <4>1. /\ r \in Seq(STRING) /\ Len(r) = n - (k + 1) + 1
            /\ \A j \in 1 .. n - (k + 1) + 1 : r[j] = s[k + 1 + j - 1]
        <5> DEFINE a == k + 1
        <5>1. a \in Nat \ {0} /\ a <= Len(s) + 1 /\ a - 1 <= n /\ n <= Len(s) /\ n \in Nat
          BY <1>3, <2>6
        <5> HIDE DEF a
        <5>2. /\ SubSeq(s, a, n) \in Seq(STRING) /\ Len(SubSeq(s, a, n)) = n - a + 1
              /\ \A j \in 1 .. n - a + 1 : SubSeq(s, a, n)[j] = s[a + j - 1]
          BY <5>1, Part
        <5> QED BY <5>2 DEF a
      <4>2. k \in Int
        BY <2>6
      <4> HIDE DEF r, k
      <4>3. n - (k + 1) + 1 = n - k /\ \A j \in 1 .. n - k : k + 1 + j - 1 = k + j
        BY <1>3, <4>2
      <4> QED BY <4>1, <4>3
    <3> HIDE DEF r
    <3>2. /\ m \in 0 .. Len(r) /\ m = h - 1 - t /\ (h <= Len(b) => m + 1 \in 1 .. n - k)
          /\ (h > Len(b) => m = Len(r))
      <4>1. k = u - 1 + t /\ Len(r) = n - k /\ Len(b) = n - u + 1 /\ h \in 1 .. n - u + 1 + 1
        BY <1>4, <1>5, <3>1
      <4> HIDE DEF k
      <4> QED BY <1>3, <2>4, <4>1
    <3> HIDE DEF m
    <3>3. \A j \in 1 .. m : r[j] \in Blanks
      <4>1. ASSUME NEW j \in 1 .. m PROVE r[j] \in Blanks
        <5> DEFINE p == t + j
        <5>1. /\ j \in 1 .. n - k /\ p \in t + 1 .. h - 1 /\ p \in 1 .. h - 1
              /\ p \in 1 .. n - u + 1 /\ k + j = u + p - 1
          BY <1>3, <1>4, <1>5, <2>4, <3>1, <3>2
        <5> HIDE DEF p, k
        <5> QED BY <1>4, <1>6, <2>3, <3>1, <5>1
      <4> QED BY <4>1
    <3>4. m = Len(r) \/ r[m + 1] = "#"
      <4>1. CASE h <= Len(b)
        <5> DEFINE p == m + 1
        <5>1. p \in 1 .. n - k /\ k + p = u + h - 1 /\ h \in 1 .. n - u + 1
          BY <1>3, <1>4, <1>5, <2>4, <3>2, <4>1
        <5> HIDE DEF p, k
        <5>2. r[p] = "#"
          BY <1>4, <1>5, <3>1, <4>1, <5>1
        <5> QED BY <5>2 DEF p
      <4> QED BY <1>4, <1>5, <3>2, <4>1
    <3>5. AllBlank(SubSeq(r, 1, m))
      <4>1. 1 \in Nat \ {0} /\ m \in Nat /\ 1 <= Len(r) + 1 /\ 1 - 1 <= m /\ m <= Len(r)
        BY <3>1, <3>2
      <4>2. /\ SubSeq(r, 1, m) \in Seq(STRING) /\ Len(SubSeq(r, 1, m)) = m - 1 + 1
            /\ \A j \in 1 .. m - 1 + 1 : SubSeq(r, 1, m)[j] = r[1 + j - 1]
        BY <3>1, <4>1, Part
      <4>3. m - 1 + 1 = m /\ \A j \in 1 .. m : 1 + j - 1 = j
        BY <4>1
      <4> DEFINE x == SubSeq(r, 1, m)
      <4> HIDE DEF x
      <4>4. x \in Seq(STRING) /\ Len(x) = m /\ \A j \in 1 .. m : x[j] = r[j]
        BY <4>2, <4>3 DEF x
      <4>5. AllBlank(x)
        BY <3>3, <4>4 DEF AllBlank
      <4> QED BY <4>5 DEF x
    <3> QED BY <3>2, <3>4, <3>5 DEF Ignored
  <2>10. Line(s) = w
    BY <1>2, <2>3
  <2>11. AllBlank(SubSeq(s, 1, i))
    BY <1>7
  <2> HIDE DEF w, i, k
  <2>12. Ignored(SubSeq(s, k + 1, Len(s)))
    BY <1>3, <2>9
  <2> QED BY <2>6, <2>7, <2>8, <2>10, <2>11, <2>12 DEF Enclosed
<1> QED BY <1>8, <1>9

\* Every line is taken apart as it is meant.
LEMMA LineMeans ==
  ASSUME NEW s \in Seq(STRING)
  PROVE  Means(s, split_string(Line(s)).method, split_string(Line(s)).args)
<1>1. CASE Ignored(s) /\ Line(s) = <<>>
  <2>1. split_string(<<>>) = [method |-> <<>>, args |-> <<>>]
    <3> DEFINE ms == FirstNotIn(<<>>, 1, {Space})
               me == FirstIn(<<>>, ms, {Space})
               ag == FirstNotIn(<<>>, me, {Space})
    <3>1. <<>> \in Seq(STRING) /\ Len(<<>>) = 0 /\ 1 \in Nat \ {0} /\ 1 <= 0 + 1 /\ 1 .. 0 + 1 = {1}
      OBVIOUS
    <3>2. ms = 1
      <4>1. ms \in 1 .. 0 + 1
        BY <3>1, FirstNotInIs
      <4> HIDE DEF ms
      <4> QED BY <4>1
    <3>3. me = 1
      <4>1. FirstIn(<<>>, 1, {Space}) \in 1 .. 0 + 1
        BY <3>1, FirstInIs
      <4> HIDE DEF ms
      <4>2. FirstIn(<<>>, 1, {Space}) = 1
        BY <4>1
      <4> QED BY <3>2, <4>2
    <3>4. ag = 1
      <4>1. FirstNotIn(<<>>, 1, {Space}) = 1
        BY <3>2
      <4> HIDE DEF me
      <4> QED BY <3>3, <4>1
    <3>5. split_string(<<>>) = [method |-> SubSeq(<<>>, ms, me - 1), args |-> SubSeq(<<>>, ag, 0)]
      BY <3>1 DEF split_string, MethodStart, MethodEnd, ArgsStart
    <3> HIDE DEF ms, me, ag
    <3>6. SubSeq(<<>>, 1, 0) = <<>> /\ me - 1 = 0
      BY <3>3, SubSeqEmpty
    <3> QED BY <3>2, <3>3, <3>4, <3>5, <3>6
  <2>2. Means(s, <<>>, <<>>)
    BY <1>1 DEF Means
  <2>3. split_string(Line(s)).method = <<>> /\ split_string(Line(s)).args = <<>>
    BY <1>1, <2>1
  <2> QED BY <2>2, <2>3
<1>2. CASE Enclosed(s)
  <2>1. PICK i \in 0 .. Len(s), k \in 0 .. Len(s) :
              /\ i < k /\ Line(s) = SubSeq(s, i + 1, k) /\ Words(Line(s))
              /\ AllBlank(SubSeq(s, 1, i)) /\ Ignored(SubSeq(s, k + 1, Len(s)))
    BY <1>2 DEF Enclosed
  <2> DEFINE w == SubSeq(s, i + 1, k)
             method == split_string(w).method
             args == split_string(w).args
             gap == SubSeq(w, Len(method) + 1, Len(w) - Len(args))
  <2>2. w \in Seq(STRING) /\ w # <<>>
    <3> DEFINE a == i + 1
    <3>1. a \in Nat \ {0} /\ k \in Nat /\ a <= Len(s) + 1 /\ a - 1 <= k /\ k <= Len(s) /\ k - a + 1 > 0
      BY <2>1
    <3> HIDE DEF a
    <3>2. SubSeq(s, a, k) \in Seq(STRING) /\ Len(SubSeq(s, a, k)) = k - a + 1
      BY <3>1, Part
    <3> DEFINE x == SubSeq(s, a, k)
    <3> HIDE DEF x
    <3>3. x \in Seq(STRING) /\ x # <<>>
      BY <3>1, <3>2 DEF x
    <3> QED BY <3>3 DEF x, a
  <2>3. Words(w)
    BY <2>1
  <2>4. w[1] \notin Blanks
    BY <2>2, <2>3 DEF Words
  <2>5. /\ method # <<>> /\ w = method \o gap \o args
        /\ \A j \in DOMAIN method : method[j] # Space
        /\ \A j \in DOMAIN gap : gap[j] = Space
        /\ args # <<>> => gap # <<>> /\ args[1] # Space
    BY <2>2, <2>4, Split
  <2>6. Line(s) = w
    BY <2>1
  <2>7. Means(s, method, args)
    BY <2>1, <2>3, <2>5 DEF Means
  <2> QED BY <2>6, <2>7
<1>3. (Ignored(s) /\ Line(s) = <<>>) \/ Enclosed(s)
  BY Strip
<1> QED BY <1>1, <1>2, <1>3

(***************************************************************************)
(* The steps of kernel_main, by what they change.                          *)
(***************************************************************************)
Preparing == {"source", "ranges", "describe", "screen"}

Prepares ==
  /\ pc \in Preparing /\ pc' \in {"ranges", "describe", "screen", "print"}
  /\ UNCHANGED <<machine, files, search, reading>>

\* Where the machine and its screen are found, no file is touched.
LEMMA Steps ==
  ASSUME [Next]_vars
  PROVE  \/ UNCHANGED <<machine, pc, files, search, reading>>
         \/ Prepares
         \/ libfs_init \/ ReadMbr \/ EmptySlot \/ Misaligned \/ RegisterPartition
         \/ TryName \/ NoConfig \/ ReadConfig \/ ReadLine \/ EndConfig \/ GuestOpens
<1>1. ASSUME FindSource \/ LoadRanges \/ EnableOutputs PROVE Prepares
  BY <1>1 DEF FindSource, LoadRanges, EnableOutputs, Prepares, Preparing, described
<1>2. ASSUME NEW r, NEW b, NEW a, NEW s, Described(r, b, a, s) PROVE Prepares
  BY <1>2 DEF Described, Prepares, Preparing
<1>3. ASSUME ReadTags \/ ReadTree \/ AssumeMachine PROVE Prepares
  <2>1. CASE ReadTags
    BY <1>2, <2>1 DEF ReadTags
  <2>2. CASE ReadTree
    BY <1>2, <2>2 DEF ReadTree
  <2>3. CASE AssumeMachine
    BY <1>2, <2>3 DEF AssumeMachine
  <2> QED BY <1>3, <2>1, <2>2, <2>3
<1>4. ASSUME SetUpScreen \/ Firmware \/ \E c \in Chars \cup {Newline} : split_putc(c)
      PROVE  UNCHANGED <<machine, pc, files, search, reading>>
  BY <1>4 DEF SetUpScreen, Firmware, split_putc, described
<1>5. ASSUME UNCHANGED vars PROVE UNCHANGED <<machine, pc, files, search, reading>>
  BY <1>5 DEF vars, described
<1> QED BY <1>1, <1>3, <1>4, <1>5 DEF Next, kernel_main

\* The other steps leave the machine alone.
LEMMA MachineStays ==
  ASSUME [Next]_vars
  PROVE  machine' = machine
<1>1. ASSUME libfs_init \/ ReadMbr \/ EmptySlot \/ Misaligned \/ RegisterPartition
      PROVE  machine' = machine
  BY <1>1 DEF libfs_init, ReadMbr, EmptySlot, Misaligned, RegisterPartition, Rests, described
<1>2. ASSUME TryName \/ NoConfig \/ ReadConfig \/ ReadLine \/ EndConfig \/ GuestOpens
      PROVE  machine' = machine
  BY <1>2 DEF TryName, NoConfig, ReadConfig, ReadLine, EndConfig, GuestOpens, described
<1> QED BY <1>1, <1>2, Steps DEF Prepares

MachineInv == machine \in DOMAIN Machines

LEMMA MachineHolds == Spec => []MachineInv
<1>1. Init => MachineInv
  BY DEF Init, MachineInv
<1>2. MachineInv /\ [Next]_vars => MachineInv'
  BY MachineStays DEF MachineInv
<1> QED BY <1>1, <1>2, PTL DEF Spec

(***************************************************************************)
(* The lines that are read.                                                *)
(***************************************************************************)
LineInv == buf \in Seq(STRING) /\ LinesRead

LEMMA LineStep ==
  ASSUME MachineInv, LineInv, [Next]_vars
  PROVE  LineInv'
<1>1. CASE ReadConfig
  <2>1. M.texts \subseteq Seq(STRING)
    BY StartupAssumption DEF MachineInv, M
  <2>2. buf' \in Seq(STRING) /\ line' = line
    BY <1>1, <2>1 DEF ReadConfig
  <2> QED BY <2>2 DEF LineInv, LinesRead
<1>2. CASE ReadLine
  <2> DEFINE n == Len(buf)
             e == EndOfLine(buf)
             s == read_line(buf)
  <2>1. n \in Nat /\ e \in 1 .. n + 1
    <3>1. 1 \in Nat \ {0} /\ 1 <= Len(buf) + 1
      BY DEF LineInv
    <3> QED BY <3>1, FirstInIs DEF LineInv, EndOfLine
  <2>2. s \in Seq(STRING)
    <3> HIDE DEF e
    <3>1. 1 \in Nat \ {0} /\ e - 1 \in Nat /\ 1 <= Len(buf) + 1 /\ 1 - 1 <= e - 1 /\ e - 1 <= Len(buf)
      BY <2>1
    <3>2. SubSeq(buf, 1, e - 1) \in Seq(STRING)
      BY <3>1, Part DEF LineInv
    <3> QED BY <3>2 DEF e, read_line
  <2>3. Behind(buf) \in Seq(STRING)
    <3> HIDE DEF e
    <3>1. \A i \in e + 1 .. n : buf[i] \in STRING
      BY <2>1 DEF LineInv
    <3>2. SubSeq(buf, e + 1, n) \in Seq(STRING)
      BY <2>1, <3>1, SubSeqProperties
    <3> QED BY <3>2 DEF e, Behind
  <2>4. buf' = Behind(buf)
    BY <1>2 DEF ReadLine
  <2>5. line' = [text |-> s, method |-> split_string(Line(s)).method, args |-> split_string(Line(s)).args]
    BY <1>2 DEF ReadLine, Line
  <2> HIDE DEF s
  <2>6. Means(s, split_string(Line(s)).method, split_string(Line(s)).args)
    BY <2>2, LineMeans
  <2>7. line'.text = s /\ line'.method = split_string(Line(s)).method
        /\ line'.args = split_string(Line(s)).args
    BY <2>5
  <2>8. Means(line'.text, line'.method, line'.args)
    BY <2>6, <2>7
  <2> QED BY <2>3, <2>4, <2>8 DEF LineInv, LinesRead
<1>3. CASE UNCHANGED <<buf, line>>
  BY <1>3 DEF LineInv, LinesRead
<1>4. ASSUME libfs_init \/ ReadMbr \/ EmptySlot \/ Misaligned \/ RegisterPartition
      PROVE  UNCHANGED <<buf, line>>
  BY <1>4 DEF libfs_init, ReadMbr, EmptySlot, Misaligned, RegisterPartition, Rests, reading
<1>5. ASSUME TryName \/ NoConfig \/ EndConfig \/ GuestOpens
      PROVE  UNCHANGED <<buf, line>>
  BY <1>5 DEF TryName, NoConfig, EndConfig, GuestOpens, reading
<1>6. ASSUME UNCHANGED reading PROVE UNCHANGED <<buf, line>>
  BY <1>6 DEF reading
<1> QED BY <1>1, <1>2, <1>3, <1>4, <1>5, <1>6, Steps DEF Prepares

\* Every line of a configuration is taken apart as its author meant it, whatever
\* the text (config_parse.c:28-127).
THEOREM LinesAreRead == Spec => []LinesRead
<1>1. Init => LineInv
  <2>1. Means(<<>>, <<>>, <<>>)
    <3>1. SubSeq(<<>>, 1, 0) = <<>> /\ 0 \in 0 .. Len(<<>>) /\ 0 = Len(<<>>)
      BY SubSeqEmpty
    <3>2. AllBlank(<<>>)
      BY DEF AllBlank
    <3>3. Ignored(<<>>)
      BY <3>1, <3>2 DEF Ignored
    <3> QED BY <3>3 DEF Means
  <2>2. ASSUME Init PROVE LineInv
    BY <2>1, <2>2 DEF Init, LineInv, LinesRead, NoLine
  <2> QED BY <2>2
<1>2. MachineInv /\ LineInv /\ [Next]_vars => LineInv'
  BY LineStep
<1>3. LineInv => LinesRead
  BY DEF LineInv
<1> QED BY <1>1, <1>2, <1>3, MachineHolds, PTL DEF Spec

(***************************************************************************)
(* The partitions of the card.                                             *)
(***************************************************************************)
GoodBlocks == M.card.blockSize >= 512 /\ M.card.blockSize % 512 = 0

\* The partition of slot p, as it is registered.
DeviceFor(p) ==
  [name |-> M.card.names[p], slot |-> p, start_block |-> M.card.table[p].start \div Sectors,
   blocks |-> M.card.table[p].length \div Sectors]

Whole(p) == M.card.table[p].start % Sectors = 0 /\ M.card.table[p].length % Sectors = 0

Registered == {p \in 1 .. 4 : M.card.present /\ GoodBlocks /\ Whole(p)}

\* The devices are those of slots in the order of the table, the first is the default.
FilesInv ==
  /\ pc \in Preparing \cup {"print", "mbr", "partitions", "search", "read", "lines", "done"}
  /\ pc \in Preparing \cup {"print", "mbr"} => entries = <<>> /\ part = 1
  /\ pc \in {"mbr", "partitions"} => M.card.present
  /\ pc = "partitions" => GoodBlocks /\ part \in 1 .. 4
  /\ entries \in Seq({DeviceFor(p) : p \in Registered})
  /\ \A i, j \in DOMAIN entries : i < j => entries[i].slot < entries[j].slot
  /\ \A i \in DOMAIN entries : pc = "partitions" => entries[i].slot < part
  /\ entries # <<>> => GoodBlocks /\ M.card.present
  /\ def = IF entries = <<>> THEN NoDevice ELSE entries[1]

LEMMA EntryIs ==
  ASSUME FilesInv, NEW i \in DOMAIN entries
  PROVE  /\ entries[i].slot \in Registered /\ entries[i] = DeviceFor(entries[i].slot)
         /\ entries[i].slot \in 1 .. 4
<1> DEFINE S == {DeviceFor(p) : p \in Registered}
<1>1. entries[i] \in S
  <2> HIDE DEF S
  <2>1. entries \in Seq(S)
    BY DEF S, FilesInv
  <2> QED BY <2>1
<1>2. PICK p \in Registered : entries[i] = DeviceFor(p)
  BY <1>1
<1>3. DeviceFor(p).slot = p
  BY DEF DeviceFor
<1> QED BY <1>2, <1>3 DEF Registered

LEMMA EntryNamed ==
  ASSUME MachineInv, FilesInv, NEW i \in DOMAIN entries
  PROVE  /\ entries[i].name = M.card.names[entries[i].slot]
         /\ entries[i].name \notin Punctuation \cup {Nameless}
         /\ entries[i] # NoDevice
<1>1. entries[i].slot \in 1 .. 4 /\ entries[i] = DeviceFor(entries[i].slot)
  BY EntryIs
<1>2. entries[i].name = M.card.names[entries[i].slot]
  BY <1>1 DEF DeviceFor
<1>3. M.card.present
  BY DEF FilesInv
<1>4. M.card.names[entries[i].slot] \notin Punctuation \cup {Nameless}
  BY <1>1, <1>3, StartupAssumption DEF MachineInv, M
<1>5. NoDevice.name = Nameless
  BY DEF NoDevice
<1> QED BY <1>2, <1>4, <1>5

LEMMA SlotRegistered ==
  ASSUME MachineInv, FilesInv, RegisterPartition, Registers
  PROVE  FilesInv'
<1> DEFINE e == Entry(Slot.start, Slot.length)
           S == {DeviceFor(p) : p \in Registered}
           n == Len(entries)
<1>1. /\ pc = "partitions" /\ Aligned /\ pc' \in {"search", "partitions"} /\ part' = part + 1
      /\ (pc' = "partitions" => part # 4)
  BY DEF RegisterPartition, NextSlot
<1>2. part \in 1 .. 4 /\ GoodBlocks /\ M.card.present
  BY <1>1 DEF FilesInv
<1>3. part \in Registered
  BY <1>1, <1>2 DEF Registered, Aligned, Whole, Slot
<1>4. e = DeviceFor(part)
  BY DEF Entry, DeviceFor, Slot
<1>5. e \in S /\ e.slot = part
  BY <1>3, <1>4 DEF DeviceFor
<1>6. entries' = Append(entries, e) /\ def' = Default(e)
  BY DEF Registers
<1>7. machine' = machine
  BY DEF RegisterPartition, Rests, described
<1> HIDE DEF e, S
<1>8. entries \in Seq(S) /\ n \in Nat
  BY DEF FilesInv, S
<1>9. /\ entries' \in Seq(S) /\ Len(entries') = n + 1 /\ entries' # <<>>
      /\ \A i \in 1 .. n : entries'[i] = entries[i]
      /\ entries'[n + 1] = e
  BY <1>5, <1>6, <1>8
<1>10. \A i, j \in DOMAIN entries' : i < j => entries'[i].slot < entries'[j].slot
  <2>1. ASSUME NEW i \in 1 .. n + 1, NEW j \in 1 .. n + 1, i < j
        PROVE  entries'[i].slot < entries'[j].slot
    <3>1. i \in 1 .. n /\ i \in DOMAIN entries
      BY <1>8, <2>1
    <3>2. CASE j = n + 1
      BY <1>1, <1>5, <1>9, <3>1, <3>2 DEF FilesInv
    <3>3. CASE j \in 1 .. n
      <4>1. j \in DOMAIN entries
        BY <1>8, <3>3
      <4> QED BY <1>9, <2>1, <3>1, <3>3, <4>1 DEF FilesInv
    <3> QED BY <1>8, <3>2, <3>3
  <2> QED BY <1>9, <2>1
<1>11. \A i \in DOMAIN entries' : entries'[i].slot < part + 1
  <2>1. ASSUME NEW i \in 1 .. n + 1 PROVE entries'[i].slot < part + 1
    <3>1. CASE i = n + 1
      BY <1>2, <1>5, <1>9, <3>1
    <3>2. CASE i \in 1 .. n
      <4>1. i \in DOMAIN entries
        BY <1>8, <3>2
      <4>2. entries[i].slot \in 1 .. 4
        BY <4>1, EntryIs
      <4>3. entries[i].slot < part
        BY <1>1, <4>1 DEF FilesInv
      <4> QED BY <1>2, <1>9, <3>2, <4>2, <4>3
    <3> QED BY <1>8, <3>1, <3>2
  <2> QED BY <1>9, <2>1
<1>12. def' = entries'[1]
  <2>1. CASE entries = <<>>
    <3>1. n = 0 /\ def = NoDevice
      BY <2>1 DEF FilesInv
    <3> QED BY <1>6, <1>9, <3>1 DEF Default
  <2>2. CASE entries # <<>>
    <3>1. 1 \in 1 .. n /\ 1 \in DOMAIN entries /\ def = entries[1]
      BY <1>8, <2>2 DEF FilesInv
    <3>2. entries[1] # NoDevice
      BY <3>1, EntryNamed
    <3> QED BY <1>6, <1>9, <3>1, <3>2 DEF Default
  <2> QED BY <2>1, <2>2
<1>13. /\ GoodBlocks' /\ M'.card.present /\ S = {DeviceFor(p) : p \in Registered}'
  BY <1>2, <1>7 DEF GoodBlocks, M, S, DeviceFor, Registered, Sectors, Whole
<1>14. pc' = "partitions" => part' \in 1 .. 4
  BY <1>1, <1>2
<1> QED BY <1>1, <1>9, <1>10, <1>11, <1>12, <1>13, <1>14 DEF FilesInv, Preparing

LEMMA FilesStep ==
  ASSUME MachineInv, FilesInv, [Next]_vars
  PROVE  FilesInv'
<1>1. machine' = machine
  BY MachineStays
<1>2. /\ M' = M /\ GoodBlocks' = GoodBlocks
      /\ {DeviceFor(p) : p \in Registered}' = {DeviceFor(p) : p \in Registered}
  BY <1>1 DEF GoodBlocks, M, DeviceFor, Registered, Sectors, Whole
<1>3. CASE Prepares
  BY <1>2, <1>3 DEF Prepares, files, FilesInv, Preparing
<1>4. CASE UNCHANGED <<machine, pc, files, search, reading>>
  BY <1>2, <1>4 DEF files, FilesInv
<1>5. CASE libfs_init
  BY <1>2, <1>5 DEF libfs_init, files, FilesInv, Preparing
<1>6. CASE ReadMbr
  BY <1>2, <1>6 DEF ReadMbr, files, FilesInv, Preparing, GoodBlocks
<1>7. CASE EmptySlot \/ Misaligned
  <2>1. pc = "partitions" /\ UNCHANGED <<entries, def>> /\ pc' \in {"partitions", "search"}
    BY <1>7 DEF EmptySlot, Misaligned, NextSlot, files
  <2>2. pc' = "partitions" => part' = part + 1 /\ part # 4
    BY <1>7 DEF EmptySlot, Misaligned, NextSlot
  <2>3. pc' = "partitions" => part' \in 1 .. 4 /\ \A i \in DOMAIN entries : entries[i].slot < part'
    <3>1. \A i \in DOMAIN entries : entries[i].slot \in 1 .. 4
      BY EntryIs
    <3>2. pc = "partitions" /\ part \in 1 .. 4 /\ \A i \in DOMAIN entries : entries[i].slot < part
      BY <2>1 DEF FilesInv
    <3> QED BY <2>1, <2>2, <3>1, <3>2
  <2> QED BY <1>2, <2>1, <2>3 DEF FilesInv, Preparing
<1>8. CASE RegisterPartition
  <2>1. CASE Registers
    BY <1>8, <2>1, SlotRegistered
  <2>2. CASE UNCHANGED <<entries, def>>
    <3>1. pc = "partitions" /\ pc' \in {"partitions", "search"}
      BY <1>8 DEF RegisterPartition, NextSlot
    <3>2. pc' = "partitions" => part' = part + 1 /\ part # 4
      BY <1>8 DEF RegisterPartition, NextSlot
    <3>3. pc' = "partitions" => part' \in 1 .. 4 /\ \A i \in DOMAIN entries : entries[i].slot < part'
      <4>1. \A i \in DOMAIN entries : entries[i].slot \in 1 .. 4
        BY EntryIs
      <4>2. pc = "partitions" /\ part \in 1 .. 4 /\ \A i \in DOMAIN entries : entries[i].slot < part
        BY <3>1 DEF FilesInv
      <4> QED BY <3>1, <3>2, <4>1, <4>2
    <3> QED BY <1>2, <2>2, <3>1, <3>3 DEF FilesInv, Preparing
  <2> QED BY <1>8, <2>1, <2>2 DEF RegisterPartition
<1>9. CASE TryName \/ NoConfig \/ ReadConfig \/ ReadLine \/ EndConfig \/ GuestOpens
  <2>1. UNCHANGED files /\ pc \in {"search", "read", "lines", "done"}
        /\ pc' \in {"search", "read", "lines", "done"}
    BY <1>9 DEF TryName, NoConfig, ReadConfig, ReadLine, EndConfig, GuestOpens
  <2> QED BY <1>2, <2>1 DEF files, FilesInv, Preparing
<1> QED BY <1>3, <1>4, <1>5, <1>6, <1>7, <1>8, <1>9, Steps

LEMMA FilesHold == Spec => [](MachineInv /\ FilesInv)
<1>1. Init => FilesInv
  BY DEF Init, FilesInv, Preparing
<1>2. MachineInv /\ FilesInv /\ [Next]_vars => FilesInv'
  BY FilesStep
<1> QED BY <1>1, <1>2, MachineHolds, PTL DEF Spec

\* The bytes of x sectors, counted in blocks of S.
BlockBytes(x, S) == (x \div S) * (512 * S)

\* Of whole blocks, a number of sectors is the bytes it was.
LEMMA WholeBlocks ==
  ASSUME NEW S \in Nat \ {0}, NEW x \in Nat, x % S = 0
  PROVE  BlockBytes(x, S) = x * 512
<1> DEFINE q == x \div S
<1>1. q \in Nat /\ x = (S * q) + (x % S)
  OBVIOUS
<1> HIDE DEF q
<1>2. x = q * S
  <2>1. S * q = q * S
    BY <1>1
  <2>2. q * S \in Nat
    BY <1>1
  <2> QED BY <1>1, <2>1, <2>2
<1>3. q * (512 * S) = (q * S) * 512
  BY <1>1
<1> QED BY <1>2, <1>3 DEF q, BlockBytes

\* Every device begins and ends at the bytes the table says, whatever the table and
\* the size of the card's blocks (mbr.c:167-188).
THEOREM PartitionsAreInPlace == Spec => []PartitionsInPlace
<1>1. MachineInv /\ FilesInv => PartitionsInPlace
  <2> SUFFICES ASSUME MachineInv, FilesInv, NEW i \in DOMAIN entries
               PROVE  LET e == entries[i]
                          slot == M.card.table[e.slot]
                      IN  /\ e.start_block * M.card.blockSize = slot.start * 512
                          /\ e.blocks * M.card.blockSize = slot.length * 512
    BY DEF PartitionsInPlace
  <2> DEFINE p == entries[i].slot
             B == M.card.blockSize
             start == M.card.table[p].start
             length == M.card.table[p].length
  <2>1. p \in 1 .. 4 /\ p \in Registered /\ entries[i] = DeviceFor(p)
    BY EntryIs
  <2>2. B >= 512 /\ B % 512 = 0 /\ M.card.present
    BY DEF FilesInv, GoodBlocks
  <2>3. B \in Nat /\ start \in Nat /\ length \in Nat
    BY <2>1, <2>2, StartupAssumption DEF MachineInv, M
  <2>4. start % Sectors = 0 /\ length % Sectors = 0
    BY <2>1 DEF Registered, Whole
  <2>5. entries[i].start_block = start \div Sectors /\ entries[i].blocks = length \div Sectors
    BY <2>1 DEF DeviceFor
  <2>6. Sectors \in Nat \ {0} /\ B = 512 * Sectors
    <3>1. Sectors = B \div 512
      BY DEF Sectors
    <3> HIDE DEF B
    <3>2. B \div 512 \in Nat \ {0} /\ B = 512 * (B \div 512)
      BY <2>2, <2>3
    <3> QED BY <3>1, <3>2
  <2> HIDE DEF B, start, length
  <2>7. BlockBytes(start, Sectors) = start * 512
    BY <2>3, <2>4, <2>6, WholeBlocks
  <2>8. BlockBytes(length, Sectors) = length * 512
    BY <2>3, <2>4, <2>6, WholeBlocks
  <2>9. entries[i].start_block * B = start * 512 /\ entries[i].blocks * B = length * 512
    BY <2>5, <2>6, <2>7, <2>8 DEF BlockBytes
  <2> QED BY <2>9 DEF B, start, length
<1> QED BY <1>1, FilesHold, PTL

(***************************************************************************)
(* The k-th of a set of positions.                                         *)
(***************************************************************************)
Until(S, i) == {j \in S : j < i}

LEMMA UntilFinite ==
  ASSUME NEW b \in Nat, NEW S \in SUBSET (0 .. b), NEW i
  PROVE  IsFiniteSet(S) /\ IsFiniteSet(Until(S, i)) /\ Cardinality(Until(S, i)) \in Nat
<1>1. IsFiniteSet(0 .. b)
  BY FS_Interval
<1>2. Until(S, i) \in SUBSET (0 .. b)
  BY DEF Until
<1>3. IsFiniteSet(S) /\ IsFiniteSet(Until(S, i))
  BY <1>1, <1>2, FS_Subset
<1> QED BY <1>3, FS_CardinalityType

LEMMA NextRank ==
  ASSUME NEW b \in Nat, NEW S \in SUBSET (0 .. b), NEW i \in Nat
  PROVE  /\ i \in S => Cardinality(Until(S, i + 1)) = Cardinality(Until(S, i)) + 1
         /\ i \notin S => Cardinality(Until(S, i + 1)) = Cardinality(Until(S, i))
<1> \A x \in S : x \in Nat
  OBVIOUS
<1>1. CASE i \in S
  <2>1. Until(S, i + 1) = Until(S, i) \cup {i} /\ i \notin Until(S, i)
    <3>1. ASSUME NEW x \in S PROVE x < i + 1 <=> (x < i \/ x = i)
      OBVIOUS
    <3>2. \A x : x \in Until(S, i + 1) <=> x \in Until(S, i) \/ x = i
      BY <1>1, <3>1 DEF Until
    <3>3. i \notin Until(S, i)
      BY DEF Until
    <3> QED BY <3>2, <3>3
  <2>2. IsFiniteSet(Until(S, i))
    BY UntilFinite
  <2> QED BY <1>1, <2>1, <2>2, FS_AddElement
<1>2. CASE i \notin S
  <2>1. Until(S, i + 1) = Until(S, i)
    <3>1. ASSUME NEW x \in S PROVE x < i + 1 <=> x < i
      BY <1>2
    <3>2. \A x : x \in Until(S, i + 1) <=> x \in Until(S, i)
      BY <3>1 DEF Until
    <3> QED BY <3>2
  <2> QED BY <1>2, <2>1
<1> QED BY <1>1, <1>2

LEMMA RankGrows ==
  ASSUME NEW b \in Nat, NEW S \in SUBSET (0 .. b), NEW i \in S, NEW j \in S, i < j
  PROVE  Cardinality(Until(S, i)) < Cardinality(Until(S, j))
<1>1. i \in Nat /\ \A x \in S : x \in Nat
  OBVIOUS
<1>2. Cardinality(Until(S, i + 1)) = Cardinality(Until(S, i)) + 1
  BY <1>1, NextRank
<1>3. Until(S, i + 1) \in SUBSET Until(S, j)
  <2>1. ASSUME NEW x \in S, x < i + 1 PROVE x < j
    BY <1>1, <2>1
  <2> QED BY <2>1 DEF Until
<1>4. Cardinality(Until(S, i + 1)) <= Cardinality(Until(S, j))
  BY <1>3, UntilFinite, FS_Subset
<1>5. Cardinality(Until(S, i)) \in Nat /\ Cardinality(Until(S, j)) \in Nat
  BY UntilFinite
<1> QED BY <1>2, <1>4, <1>5

\* There is a k-th of every set of as many numbers, and only one.
LEMMA NthIs ==
  ASSUME NEW b \in Nat, NEW S \in SUBSET (0 .. b), NEW k \in 1 .. Cardinality(S)
  PROVE  /\ Nth(S, k) \in S /\ Cardinality(Until(S, Nth(S, k))) = k - 1
         /\ \A i \in S : Cardinality(Until(S, i)) = k - 1 => i = Nth(S, k)
<1> DEFINE R(i) == Cardinality(Until(S, i))
           T == {x \in Nat : R(x) >= k}
<1>0. \A x \in S : x \in Nat /\ x <= b
  OBVIOUS
<1>1. \A x : R(x) \in Nat
  BY UntilFinite
<1>2. Cardinality(S) \in Nat
  BY UntilFinite, FS_CardinalityType
<1>3. b + 1 \in T
  <2>1. Until(S, b + 1) = S
    <3>1. \A x \in S : x < b + 1
      BY <1>0
    <3> QED BY <3>1 DEF Until
  <2> QED BY <1>2, <2>1
<1>4. R(0) = 0
  <2>1. Until(S, 0) = {}
    <3>1. \A x \in S : ~(x < 0)
      BY <1>0
    <3> QED BY <3>1 DEF Until
  <2> QED BY <2>1, FS_EmptySet
<1>5. PICK m \in T : \A x \in T : m <= x
  <2> HIDE DEF R
  <2>1. T \in SUBSET Nat /\ T # {}
    BY <1>3
  <2> HIDE DEF T
  <2> QED BY <2>1, Least
<1> DEFINE i == m - 1
<1>6. i \in Nat /\ i + 1 = m /\ R(m) >= k
  <2> HIDE DEF R
  <2> QED BY <1>2, <1>4, <1>5
<1>7. R(i) < k
  <2> HIDE DEF R
  <2>1. i \notin T
    BY <1>5, <1>6
  <2> QED BY <1>1, <1>2, <1>6, <2>1
<1>8. i \in S /\ R(i) = k - 1
  <2>1. /\ i \in S => R(i + 1) = R(i) + 1
        /\ i \notin S => R(i + 1) = R(i)
    BY <1>6, NextRank
  <2> HIDE DEF R, i
  <2> QED BY <1>1, <1>2, <1>6, <1>7, <2>1
<1>9. Nth(S, k) \in S /\ R(Nth(S, k)) = k - 1
  BY <1>8 DEF Nth, Until
<1>10. ASSUME NEW x \in S, NEW y \in S, R(x) = k - 1, R(y) = k - 1 PROVE x = y
  <2>1. ~(x < y)
    <3> SUFFICES ASSUME x < y PROVE R(x) < R(y)
      BY <1>1, <1>10
    <3> QED BY RankGrows
  <2>2. ~(y < x)
    <3> SUFFICES ASSUME y < x PROVE R(y) < R(x)
      BY <1>1, <1>10
    <3> QED BY RankGrows
  <2>3. x \in Nat /\ y \in Nat
    BY <1>0
  <2> QED BY <2>1, <2>2, <2>3
<1> QED BY <1>9, <1>10

LEMMA ShiftCard ==
  ASSUME NEW b \in Nat, NEW S \in SUBSET (0 .. b), NEW d \in Nat
  PROVE  Cardinality({i + d : i \in S}) = Cardinality(S)
<1> DEFINE T == {i + d : i \in S}
           F == [i \in S |-> i + d]
<1>1. F \in [S -> T] /\ \A x, y \in S : F[x] = F[y] => x = y
  OBVIOUS
<1>2. \A t \in T : \E s \in S : F[s] = t
  OBVIOUS
<1>3. F \in Bijection(S, T)
  <2> HIDE DEF F, T
  <2> QED BY <1>1, <1>2 DEF Bijection, Injection, IsInjective, Surjection
<1>4. ExistsBijection(S, T)
  BY <1>3 DEF ExistsBijection
<1>5. IsFiniteSet(S)
  BY UntilFinite
<1> QED BY <1>4, <1>5, FS_Bijection

\* Positions that are all moved by d keep their order.
LEMMA Shifted ==
  ASSUME NEW b \in Nat, NEW S \in SUBSET (0 .. b), NEW d \in Nat,
         NEW k \in 1 .. Cardinality(S)
  PROVE  Nth({i + d : i \in S}, k) = Nth(S, k) + d
<1> DEFINE i == Nth(S, k)
           T == {j + d : j \in S}
<1>1. i \in S /\ Cardinality(Until(S, i)) = k - 1
  BY NthIs
<1> HIDE DEF i
<1>2. T \in SUBSET (0 .. b + d) /\ b + d \in Nat
  OBVIOUS
<1>3. Cardinality(T) = Cardinality(S)
  BY ShiftCard
<1>4. Until(T, i + d) = {j + d : j \in Until(S, i)}
  <2>1. \A j \in S : j \in Nat /\ (j + d < i + d <=> j < i)
    BY <1>1
  <2> QED BY <2>1 DEF Until
<1>5. Until(S, i) \in SUBSET (0 .. b)
  BY DEF Until
<1>6. Cardinality(Until(T, i + d)) = k - 1
  BY <1>1, <1>4, <1>5, ShiftCard
<1>7. i + d \in T /\ k \in 1 .. Cardinality(T)
  BY <1>1, <1>3
<1> HIDE DEF T
<1>8. Nth(T, k) = i + d
  BY <1>2, <1>6, <1>7, NthIs
<1> QED BY <1>8 DEF T, i

(***************************************************************************)
(* What split_dir makes of a path without empty components.                *)
(***************************************************************************)
Skip(path) == IF HasDevice(path) THEN 3 ELSE 0
Lead(path) ==
  Skip(path) + IF Len(path) > Skip(path) /\ path[Skip(path) + 1] = "/" THEN 1 ELSE 0
NamePlaces(path) == {p \in Skip(path) + 1 .. Len(path) : path[p] # "/"}

LEMMA PathShape ==
  ASSUME NEW path, IsPath(path), ProperPath(path)
  PROVE  /\ path \in Seq(STRING) /\ Len(path) \in Nat
         /\ Skip(path) \in {0, 3} /\ Skip(path) <= Len(path)
         /\ Skip(path) = 3 => path[1] = "(" /\ path[2] \notin Punctuation /\ path[3] = ")"
         /\ \A i \in 1 .. Len(path) - 1 : path[i] \in Punctuation \/ path[i + 1] \in Punctuation
         /\ Rest(path) \in Seq(STRING) /\ Len(Rest(path)) = Len(path) - Skip(path)
         /\ \A i \in 1 .. Len(path) - Skip(path) : Rest(path)[i] = path[Skip(path) + i]
         /\ \A i \in Skip(path) + 1 .. Len(path) : path[i] # "(" /\ path[i] # ")"
         /\ \A i \in Skip(path) + 1 .. Len(path) - 1 : path[i] = "/" => path[i + 1] # "/"
<1> DEFINE n == Len(path)
           d == Skip(path)
           rest == Rest(path)
<1>1. /\ path \in Seq(STRING) /\ n \in Nat
      /\ \A i \in 1 .. n - 1 : path[i] \in Punctuation \/ path[i + 1] \in Punctuation
  BY DEF IsPath
<1>2. d \in {0, 3} /\ d <= n
  BY <1>1 DEF Skip, HasDevice
<1>3. d = 3 => path[1] = "(" /\ path[2] \notin Punctuation /\ path[3] = ")"
  BY DEF Skip, HasDevice
<1>4. rest \in Seq(STRING) /\ Len(rest) = n - d /\ \A i \in 1 .. n - d : rest[i] = path[d + i]
  <2>1. CASE HasDevice(path)
    <3>1. d = 3 /\ rest = SubSeq(path, 4, n)
      BY <2>1 DEF Skip, Rest
    <3>2. 4 \in Nat \ {0} /\ 4 <= Len(path) + 1 /\ 4 - 1 <= n /\ n <= Len(path)
      BY <1>1, <1>2, <3>1
    <3>3. /\ SubSeq(path, 4, n) \in Seq(STRING) /\ Len(SubSeq(path, 4, n)) = n - 4 + 1
          /\ \A i \in 1 .. n - 4 + 1 : SubSeq(path, 4, n)[i] = path[4 + i - 1]
      BY <1>1, <3>2, Part
    <3>4. n - 4 + 1 = n - 3 /\ \A i \in 1 .. n - 3 : 4 + i - 1 = 3 + i
      BY <1>1
    <3> HIDE DEF d, rest, n
    <3> QED BY <3>1, <3>3, <3>4
  <2>2. CASE ~HasDevice(path)
    <3>1. d = 0 /\ rest = path
      BY <2>2 DEF Skip, Rest
    <3>2. n - 0 = n /\ \A i \in 1 .. n : 0 + i = i
      BY <1>1
    <3> HIDE DEF d, rest
    <3> QED BY <1>1, <3>1, <3>2
  <2> QED BY <2>1, <2>2
<1>5. /\ \A i \in DOMAIN rest : rest[i] \notin {"(", ")"}
      /\ \A i \in 1 .. Len(rest) - 1 : rest[i] # "/" \/ rest[i + 1] # "/"
  BY DEF ProperPath
<1> HIDE DEF d, rest, n
<1>6. \A i \in d + 1 .. n : path[i] # "(" /\ path[i] # ")"
  <2>1. ASSUME NEW i \in d + 1 .. n PROVE path[i] # "(" /\ path[i] # ")"
    <3> DEFINE j == i - d
    <3>1. j \in 1 .. n - d /\ j \in DOMAIN rest /\ d + j = i
      BY <1>1, <1>2, <1>4
    <3> HIDE DEF j
    <3> QED BY <1>4, <1>5, <3>1
  <2> QED BY <2>1
<1>7. \A i \in d + 1 .. n - 1 : path[i] = "/" => path[i + 1] # "/"
  <2>1. ASSUME NEW i \in d + 1 .. n - 1 PROVE path[i] = "/" => path[i + 1] # "/"
    <3> DEFINE j == i - d
    <3>1. /\ j \in 1 .. n - d /\ j + 1 \in 1 .. n - d /\ j \in 1 .. Len(rest) - 1
          /\ d + j = i /\ d + (j + 1) = i + 1
      BY <1>1, <1>2, <1>4
    <3> HIDE DEF j
    <3>2. rest[j] = path[i]
      BY <1>4, <3>1
    <3>3. rest[j + 1] = path[i + 1]
      BY <1>4, <3>1
    <3> QED BY <1>5, <3>1, <3>2, <3>3
  <2> QED BY <2>1
<1> QED BY <1>1, <1>2, <1>3, <1>4, <1>6, <1>7 DEF n, d, rest

LEMMA StartIs ==
  ASSUME NEW path, IsPath(path), ProperPath(path)
  PROVE  StartOf(path) = 1 + Lead(path) /\ Lead(path) \in Skip(path) .. Len(path)
<1> DEFINE n == Len(path)
           d == Skip(path)
           m == Lead(path)
           named == {i \in DOMAIN path : \E j \in i .. Len(path) : path[j] = ")"}
           slashes == {i \in DOMAIN path \ named : \A j \in 1 .. i : j \in named \/ path[j] = "/"}
<1>1. /\ path \in Seq(STRING) /\ n \in Nat /\ DOMAIN path = 1 .. n /\ n = Len(path)
      /\ d \in {0, 3} /\ d <= n
      /\ d = 3 => path[3] = ")"
      /\ \A i \in d + 1 .. n : path[i] # ")"
      /\ \A i \in d + 1 .. n - 1 : path[i] = "/" => path[i + 1] # "/"
  BY PathShape
<1>2. m = d + IF n > d /\ path[d + 1] = "/" THEN 1 ELSE 0
  BY DEF Lead
<1> HIDE DEF n, d, m
<1>3. m \in d .. n /\ m \in Nat
  BY <1>1, <1>2
<1>4. named = 1 .. d
  <2>1. ASSUME NEW i \in 1 .. n, NEW j \in i .. Len(path), path[j] = ")" PROVE i \in 1 .. d
    <3>1. j \in 1 .. n /\ ~(j \in d + 1 .. n)
      BY <1>1, <2>1
    <3> QED BY <1>1, <3>1
  <2>2. ASSUME NEW i \in 1 .. d PROVE i \in DOMAIN path /\ 3 \in i .. Len(path) /\ path[3] = ")"
    BY <1>1
  <2> QED BY <1>1, <2>1, <2>2
<1> HIDE DEF named
<1>5. named \cup slashes = 1 .. m
  <2>1. ASSUME NEW i \in slashes PROVE i \in 1 .. m
    <3>1. i \in d + 1 .. n /\ \A j \in d + 1 .. i : path[j] = "/"
      BY <1>1, <1>4
    <3>2. path[d + 1] = "/" /\ n > d
      BY <1>1, <3>1
    <3>3. m = d + 1
      BY <1>2, <3>2
    <3>4. i = d + 1
      <4>1. SUFFICES ASSUME i > d + 1 PROVE FALSE
        BY <1>1, <3>1
      <4>2. d + 1 \in d + 1 .. n - 1 /\ d + 1 + 1 \in d + 1 .. i
        BY <1>1, <3>1, <4>1
      <4> QED BY <1>1, <3>1, <3>2, <4>2
    <3> QED BY <1>1, <3>3, <3>4
  <2>2. ASSUME NEW i \in 1 .. m PROVE i \in named \cup slashes
    <3>1. CASE i \in 1 .. d
      BY <1>4, <3>1
    <3>2. CASE ~(i \in 1 .. d)
      <4>1. i = d + 1 /\ m = d + 1 /\ path[d + 1] = "/" /\ n > d
        BY <1>1, <1>2, <1>3, <3>2
      <4>2. i \in DOMAIN path \ named
        BY <1>1, <1>4, <4>1
      <4>3. \A j \in 1 .. i : j \in 1 .. d \/ j = d + 1
        BY <1>1, <4>1
      <4>4. \A j \in 1 .. i : j \in named \/ path[j] = "/"
        BY <1>4, <4>1, <4>3
      <4> QED BY <4>2, <4>4
    <3> QED BY <3>1, <3>2
  <2>3. named \subseteq 1 .. m
    BY <1>1, <1>3, <1>4
  <2> HIDE DEF slashes
  <2> QED BY <2>1, <2>2, <2>3
<1>6. StartOf(path) = 1 + Cardinality(1 .. m)
  <2>1. StartOf(path) = 1 + Cardinality(named \cup slashes)
    BY DEF StartOf, named
  <2> QED BY <1>5, <2>1
<1>7. Cardinality(1 .. m) = m
  <2>1. Cardinality(1 .. m) = IF 1 > m THEN 0 ELSE m - 1 + 1
    BY <1>3, FS_Interval
  <2> QED BY <1>3, <2>1
<1> QED BY <1>3, <1>6, <1>7 DEF m, n, d

\* A component ends behind each name.
LEMMA EndsAre ==
  ASSUME NEW path, IsPath(path), ProperPath(path)
  PROVE  \A e : e \in Ends(path) <=> \E p \in NamePlaces(path) : e = p + 1
<1> DEFINE n == Len(path)
           d == Skip(path)
           m == Lead(path)
<1>1. /\ path \in Seq(STRING) /\ n \in Nat /\ DOMAIN path = 1 .. n /\ n = Len(path)
      /\ d \in {0, 3} /\ d <= n
      /\ d = 3 => path[1] = "(" /\ path[2] \notin Punctuation /\ path[3] = ")"
      /\ \A i \in 1 .. n - 1 : path[i] \in Punctuation \/ path[i + 1] \in Punctuation
      /\ \A i \in d + 1 .. n : path[i] # "(" /\ path[i] # ")"
      /\ \A i \in d + 1 .. n - 1 : path[i] = "/" => path[i + 1] # "/"
  BY PathShape
<1>2. m = d + IF n > d /\ path[d + 1] = "/" THEN 1 ELSE 0
  BY DEF Lead
<1>3. StartOf(path) = m + 1 /\ m \in d .. n
  BY StartIs
<1>4. NamePlaces(path) = {p \in d + 1 .. n : path[p] # "/"}
  BY DEF NamePlaces
<1> HIDE DEF n, d, m
<1>5. \A e : e \in Ends(path) <=>
               \/ e \in 1 .. n /\ path[e] = "/" /\ e > m + 1
               \/ n # 0 /\ path[n] \notin Punctuation /\ e = n + 1
  <2>1. path # <<>> <=> n # 0
    BY <1>1
  <2> QED BY <1>1, <1>3, <2>1 DEF Ends, Positions
<1>6. ASSUME NEW e, e \in 1 .. n, path[e] = "/", e > m + 1
      PROVE  e - 1 \in NamePlaces(path) /\ e = e - 1 + 1
  <2> DEFINE p == e - 1
  <2>1. p \in d + 1 .. n - 1 /\ p + 1 = e
    BY <1>1, <1>3, <1>6
  <2> HIDE DEF p
  <2>2. path[p] # "/"
    BY <1>1, <1>6, <2>1
  <2>3. p \in d + 1 .. n
    BY <1>1, <2>1
  <2> QED BY <1>4, <2>1, <2>2, <2>3 DEF p
<1>7. ASSUME n # 0, path[n] \notin Punctuation
      PROVE  n \in NamePlaces(path)
  <2>1. n > d
    BY <1>1, <1>7 DEF Punctuation
  <2> QED BY <1>1, <1>4, <1>7, <2>1 DEF Punctuation
<1>8. ASSUME NEW p \in NamePlaces(path) PROVE p + 1 \in Ends(path)
  <2>1. p \in d + 1 .. n /\ path[p] # "/" /\ path[p] \notin Punctuation
    BY <1>1, <1>4 DEF Punctuation
  <2>2. CASE p = n
    BY <1>1, <1>5, <2>1, <2>2
  <2>3. CASE p # n
    <3>1. p \in 1 .. n - 1 /\ p + 1 \in d + 1 .. n /\ p + 1 \in 1 .. n
      <4>1. n \in Nat /\ d \in Nat
        BY <1>1
      <4>2. p \in d + 1 .. n
        BY <2>1
      <4> QED BY <2>3, <4>1, <4>2
    <3>2. path[p + 1] = "/"
      BY <1>1, <2>1, <3>1 DEF Punctuation
    <3>3. p + 1 > m + 1
      BY <1>1, <1>2, <1>3, <2>1
    <3> QED BY <1>5, <3>1, <3>2, <3>3
  <2> QED BY <2>2, <2>3
<1>9. ASSUME NEW e \in Ends(path) PROVE \E p \in NamePlaces(path) : e = p + 1
  <2>1. CASE e \in 1 .. n /\ path[e] = "/" /\ e > m + 1
    BY <1>6, <2>1
  <2>2. CASE n # 0 /\ path[n] \notin Punctuation /\ e = n + 1
    BY <1>7, <2>2
  <2> QED BY <1>5, <2>1, <2>2
<1> QED BY <1>8, <1>9

\* The component of a name begins with it.
LEMMA BeforeIs ==
  ASSUME NEW path, IsPath(path), ProperPath(path), NEW p \in NamePlaces(path)
  PROVE  Before(path, p + 1) = p
<1> DEFINE n == Len(path)
           d == Skip(path)
           m == Lead(path)
           earlier == {e \in Ends(path) : e < p + 1}
<1>1. /\ path \in Seq(STRING) /\ n \in Nat /\ DOMAIN path = 1 .. n /\ n = Len(path)
      /\ d \in {0, 3} /\ d <= n
      /\ \A i \in 1 .. n - 1 : path[i] \in Punctuation \/ path[i + 1] \in Punctuation
      /\ \A i \in d + 1 .. n : path[i] # "(" /\ path[i] # ")"
      /\ \A i \in d + 1 .. n - 1 : path[i] = "/" => path[i + 1] # "/"
  BY PathShape
<1>2. m = d + IF n > d /\ path[d + 1] = "/" THEN 1 ELSE 0
  BY DEF Lead
<1>3. StartOf(path) = m + 1 /\ m \in d .. n
  BY StartIs
<1>4. NamePlaces(path) = {q \in d + 1 .. n : path[q] # "/"}
  BY DEF NamePlaces
<1>5. Before(path, p + 1) = IF earlier = {} THEN StartOf(path)
                            ELSE 1 + CHOOSE e \in earlier : \A f \in earlier : f <= e
  BY DEF Before
<1> HIDE DEF n, d, m
<1>6. p \in d + 1 .. n /\ path[p] # "/" /\ path[p] \notin Punctuation /\ p > m
  BY <1>1, <1>2, <1>3, <1>4 DEF Punctuation
<1>7. p - 1 > m + 1 => p - 1 \in earlier
  <2> SUFFICES ASSUME p - 1 > m + 1 PROVE p - 1 \in earlier
    OBVIOUS
  <2> DEFINE q == p - 1
  <2>1. q \in 1 .. n - 1 /\ q \in d + 1 .. n /\ q + 1 = p /\ q > m + 1 /\ q < p + 1 /\ q \in d + 1 .. n - 1
    BY <1>1, <1>3, <1>6
  <2> HIDE DEF q
  <2>2. path[q] = "/"
    BY <1>1, <1>6, <2>1 DEF Punctuation
  <2>3. q - 1 \in d + 1 .. n - 1 /\ q - 1 + 1 = q
    BY <1>1, <1>3, <2>1
  <2>4. path[q - 1] # "/"
    <3> DEFINE r == q - 1
    <3>1. r \in d + 1 .. n - 1 /\ r + 1 = q
      BY <2>3
    <3> HIDE DEF r
    <3>2. path[r] # "/"
      BY <1>1, <2>2, <3>1
    <3> QED BY <3>2 DEF r
  <2>5. q - 1 \in NamePlaces(path)
    BY <1>1, <1>4, <2>3, <2>4
  <2>6. q \in Ends(path)
    BY <2>3, <2>5, EndsAre
  <2> QED BY <2>1, <2>6 DEF q
<1>8. \A e \in earlier : e \in Nat /\ e <= p - 1 /\ p - 1 > m + 1
  <2> SUFFICES ASSUME NEW e \in Ends(path), e < p + 1
               PROVE  e \in Nat /\ e <= p - 1 /\ p - 1 > m + 1
    OBVIOUS
  <2>1. PICK r \in NamePlaces(path) : e = r + 1
    BY EndsAre
  <2>2. r \in d + 1 .. n /\ path[r] # "/" /\ path[r] \notin Punctuation /\ r > m
    BY <1>1, <1>2, <1>3, <1>4 DEF Punctuation
  <2>3. r < p
    BY <1>1, <1>6, <2>1, <2>2
  <2>4. r + 1 # p
    <3>1. r \in 1 .. n - 1
      BY <1>1, <1>6, <2>2, <2>3
    <3> QED BY <1>1, <1>6, <2>2, <3>1
  <2> QED BY <1>1, <1>3, <1>6, <2>1, <2>2, <2>3, <2>4
<1>9. CASE earlier = {}
  <2>1. ~(p - 1 > m + 1)
    BY <1>7, <1>9
  <2>2. p # m + 2
    <3> SUFFICES ASSUME p = m + 2 PROVE FALSE
      OBVIOUS
    <3>1. m + 1 \in d + 1 .. n - 1 /\ m + 1 \in 1 .. n - 1 /\ m + 1 + 1 = p /\ m + 1 \in d + 1 .. n
      BY <1>1, <1>3, <1>6
    <3>2. path[m + 1] = "/"
      BY <1>1, <1>6, <3>1 DEF Punctuation
    <3>3. m = d + 1
      BY <1>1, <1>2, <1>3, <1>6, <3>2
    <3>4. path[d + 1] = "/" /\ d + 1 + 1 = m + 1 /\ d + 1 \in d + 1 .. n - 1
      BY <1>1, <1>2, <1>3, <1>6, <3>3
    <3> QED BY <1>1, <3>2, <3>4
  <2>3. p = m + 1
    BY <1>1, <1>3, <1>6, <2>1, <2>2
  <2> QED BY <1>3, <1>5, <1>9, <2>3
<1>10. CASE earlier # {}
  <2>1. p - 1 \in earlier /\ p \in Nat
    BY <1>1, <1>6, <1>7, <1>8, <1>10
  <2> DEFINE last == CHOOSE e \in earlier : \A f \in earlier : f <= e
  <2>2. last \in earlier /\ \A f \in earlier : f <= last
    BY <1>8, <2>1
  <2> HIDE DEF last, earlier
  <2>3. last = p - 1
    BY <1>8, <2>1, <2>2
  <2>4. Before(path, p + 1) = 1 + last
    BY <1>5, <1>10 DEF last
  <2> QED BY <2>1, <2>3, <2>4
<1> QED BY <1>9, <1>10

LEMMA NoError ==
  ASSUME NEW path, IsPath(path), ProperPath(path), NEW es, NEW dv
  PROVE  /\ ~DirError(path)
         /\ DeviceOf(path, es, dv) = IF HasDevice(path) THEN find_ve(es, path[2]) ELSE dv
<1> DEFINE n == Len(path)
           d == Skip(path)
<1>1. /\ path \in Seq(STRING) /\ n \in Nat /\ DOMAIN path = 1 .. n /\ n = Len(path)
      /\ d \in {0, 3} /\ d <= n
      /\ d = 3 => path[1] = "(" /\ path[2] \notin Punctuation /\ path[3] = ")"
      /\ \A i \in d + 1 .. n : path[i] # "(" /\ path[i] # ")"
  BY PathShape
<1>2. d = IF HasDevice(path) THEN 3 ELSE 0
  BY DEF Skip
<1> HIDE DEF n, d
<1>3. CASE d = 3
  <2>1. \A i \in 1 .. n : i = 1 \/ i = 2 \/ i = 3 \/ i \in d + 1 .. n
    BY <1>1, <1>3
  <2>2. path[2] # "(" /\ path[2] # ")" /\ path[2] # "/"
    BY <1>1, <1>3 DEF Punctuation
  <2>3. Positions(path, "(") = {1} /\ Positions(path, ")") = {3}
    BY <1>1, <1>3, <2>1, <2>2 DEF Positions
  <2>4. ReadingDevice(path, 3)
    BY <1>1, <1>3, <2>2 DEF ReadingDevice
  <2>5. \A i \in Positions(path, "/") : ~ReadingDevice(path, i)
    <3>1. ASSUME NEW i \in Positions(path, "/") PROVE 3 \in 2 .. i - 1
      <4>1. i \in 1 .. n /\ path[i] = "/"
        BY <1>1 DEF Positions
      <4>2. i # 1 /\ i # 2 /\ i # 3
        BY <1>1, <1>3, <2>2, <4>1
      <4> QED BY <1>1, <4>1, <4>2
    <3> QED BY <1>1, <1>3, <3>1 DEF ReadingDevice
  <2>6. ~DirError(path)
    BY <2>3, <2>4, <2>5 DEF DirError
  <2>7. (CHOOSE i \in Positions(path, ")") : TRUE) = 3
    BY <2>3
  <2>8. DeviceOf(path, es, dv) = find_ve(es, path[2])
    BY <2>3, <2>7 DEF DeviceOf, DeviceAt
  <2> QED BY <1>2, <1>3, <2>6, <2>8
<1>4. CASE d = 0
  <2>1. \A i \in 1 .. n : i \in d + 1 .. n
    BY <1>1, <1>4
  <2>2. Positions(path, "(") = {} /\ Positions(path, ")") = {}
    BY <1>1, <2>1 DEF Positions
  <2>3. \A i \in Positions(path, "/") : ~ReadingDevice(path, i)
    BY <1>1, <2>1 DEF Positions, ReadingDevice
  <2>4. ~DirError(path)
    BY <2>2, <2>3 DEF DirError
  <2>5. DeviceOf(path, es, dv) = dv
    BY <2>2 DEF DeviceOf
  <2> QED BY <1>2, <1>4, <2>4, <2>5
<1> QED BY <1>1, <1>3, <1>4

LEMMA PartsAre ==
  ASSUME NEW path, IsPath(path), ProperPath(path)
  PROVE  [k \in 1 .. Cardinality(Ends(path)) |->
            SubSeq(path, Before(path, Nth(Ends(path), k)), Nth(Ends(path), k) - 1)]
           = Names(Rest(path))
<1> DEFINE n == Len(path)
           d == Skip(path)
           rest == Rest(path)
           N == {i \in DOMAIN rest : rest[i] # "/"}
           E == Ends(path)
<1>1. /\ path \in Seq(STRING) /\ n \in Nat /\ DOMAIN path = 1 .. n /\ n = Len(path)
      /\ d \in Nat /\ d <= n
      /\ rest \in Seq(STRING) /\ Len(rest) = n - d
      /\ \A i \in 1 .. n - d : rest[i] = path[d + i]
  BY PathShape
<1>2. NamePlaces(path) = {p \in d + 1 .. n : path[p] # "/"}
  BY DEF NamePlaces
<1>3. \A e : e \in E <=> \E p \in NamePlaces(path) : e = p + 1
  BY EndsAre
<1>4. \A p \in NamePlaces(path) : Before(path, p + 1) = p
  BY BeforeIs
<1>5. Names(rest) = [k \in 1 .. Cardinality(N) |-> <<rest[Nth(N, k)]>>]
  BY DEF Names
<1> HIDE DEF n, d, rest, E
<1>6. N \in SUBSET (0 .. n)
  BY <1>1
<1>7. ASSUME NEW i \in N PROVE d + i \in NamePlaces(path) /\ rest[i] = path[d + i]
  <2>1. i \in 1 .. n - d /\ d + i \in d + 1 .. n
    BY <1>1
  <2>2. rest[i] = path[d + i] /\ rest[i] # "/"
    BY <1>1, <2>1
  <2> QED BY <1>2, <2>1, <2>2
<1>8. ASSUME NEW p \in NamePlaces(path) PROVE p - d \in N /\ p \in Nat
  <2> DEFINE i == p - d
  <2>1. i \in 1 .. n - d /\ d + i = p /\ p \in Nat
    BY <1>1, <1>2
  <2> HIDE DEF i
  <2>2. path[p] # "/"
    BY <1>2
  <2>3. i \in DOMAIN rest /\ rest[i] # "/"
    <3>1. rest[i] = path[p]
      BY <1>1, <2>1
    <3>2. i \in DOMAIN rest
      BY <1>1, <2>1
    <3> QED BY <2>2, <3>1, <3>2
  <2> QED BY <2>1, <2>3 DEF i
<1>9. \A i \in N : i \in Nat
  BY <1>6
<1>10. E = {i + (d + 1) : i \in N}
  <2>1. ASSUME NEW e \in E PROVE \E i \in N : e = i + (d + 1)
    <3>1. PICK p \in NamePlaces(path) : e = p + 1
      BY <1>3
    <3>2. p - d \in N /\ e = (p - d) + (d + 1)
      BY <1>1, <1>8, <3>1
    <3> QED BY <3>2
  <2>2. ASSUME NEW i \in N PROVE i + (d + 1) \in E
    <3>1. d + i \in NamePlaces(path) /\ i + (d + 1) = d + i + 1
      BY <1>1, <1>7, <1>9
    <3> QED BY <1>3, <3>1
  <2> HIDE DEF N
  <2> QED BY <2>1, <2>2
<1> HIDE DEF N
<1>11. Cardinality(E) = Cardinality(N)
  <2>1. d + 1 \in Nat
    BY <1>1
  <2> QED BY <1>1, <1>6, <1>10, <2>1, ShiftCard
<1>12. ASSUME NEW k \in 1 .. Cardinality(N)
       PROVE  SubSeq(path, Before(path, Nth(E, k)), Nth(E, k) - 1) = <<rest[Nth(N, k)]>>
  <2> DEFINE i == Nth(N, k)
             p == d + i
  <2>1. i \in N
    BY <1>1, <1>6, NthIs
  <2>2. Nth(E, k) = i + (d + 1)
    <3>1. d + 1 \in Nat
      BY <1>1
    <3>2. Nth({j + (d + 1) : j \in N}, k) = Nth(N, k) + (d + 1)
      BY <1>1, <1>6, <3>1, Shifted
    <3> QED BY <1>10, <3>2
  <2> HIDE DEF i
  <2>3. p \in NamePlaces(path) /\ rest[i] = path[p] /\ Nth(E, k) = p + 1
    BY <1>1, <1>7, <1>9, <2>1, <2>2
  <2>4. p \in 1 .. n
    BY <1>1, <1>2, <2>3
  <2> HIDE DEF p
  <2>5. Before(path, Nth(E, k)) = p /\ Nth(E, k) - 1 = p
    BY <1>4, <2>3, <2>4
  <2>6. SubSeq(path, p, p) = <<path[p]>>
    <3>1. p \in Nat \ {0} /\ p \in Nat /\ p <= Len(path) + 1 /\ p - 1 <= p /\ p <= Len(path)
      BY <1>1, <2>4
    <3>2. /\ SubSeq(path, p, p) \in Seq(STRING) /\ Len(SubSeq(path, p, p)) = p - p + 1
          /\ \A j \in 1 .. p - p + 1 : SubSeq(path, p, p)[j] = path[p + j - 1]
      BY <1>1, <3>1, Part
    <3> DEFINE x == SubSeq(path, p, p)
    <3>3. p - p + 1 = 1 /\ p + 1 - 1 = p
      BY <3>1
    <3> HIDE DEF x
    <3>4. x \in Seq(STRING) /\ Len(x) = 1 /\ x[1] = path[p]
      BY <3>2, <3>3 DEF x
    <3>5. <<path[p]>> \in Seq(STRING) /\ Len(<<path[p]>>) = 1 /\ <<path[p]>>[1] = path[p]
      BY <1>1, <2>4
    <3>6. \A j \in 1 .. Len(x) : x[j] = <<path[p]>>[j]
      BY <3>4, <3>5
    <3>7. x = <<path[p]>>
      BY <3>4, <3>5, <3>6, SeqEqual
    <3> QED BY <3>7 DEF x
  <2> QED BY <2>3, <2>5, <2>6 DEF i
<1> QED BY <1>5, <1>11, <1>12 DEF E, rest

\* split_dir leads to the device and the names of a path.
LEMMA Resolves ==
  ASSUME NEW path, IsPath(path), ProperPath(path), NEW es, NEW dv
  PROVE  LET meant == Named(path, es, dv)
         IN  IF meant.ve = NoDevice THEN split_dir(path, es, dv).ve = NoDevice
             ELSE split_dir(path, es, dv) = meant
<1> DEFINE meant == Named(path, es, dv)
<1>1. /\ ~DirError(path)
      /\ DeviceOf(path, es, dv) = IF HasDevice(path) THEN find_ve(es, path[2]) ELSE dv
  BY NoError
<1>2. meant = [ve |-> DeviceOf(path, es, dv), parts |-> Names(Rest(path))]
  BY <1>1 DEF Named
<1>3. meant.ve = DeviceOf(path, es, dv)
  BY <1>2
<1> HIDE DEF meant
<1>4. CASE DeviceOf(path, es, dv) = NoDevice
  BY <1>3, <1>4 DEF split_dir, meant
<1>5. CASE DeviceOf(path, es, dv) # NoDevice
  <2>1. split_dir(path, es, dv) =
          [ve |-> DeviceOf(path, es, dv),
           parts |-> [k \in 1 .. Cardinality(Ends(path)) |->
                        SubSeq(path, Before(path, Nth(Ends(path), k)), Nth(Ends(path), k) - 1)]]
    BY <1>1, <1>5 DEF split_dir
  <2>2. split_dir(path, es, dv) = meant
    BY <1>2, <2>1, PartsAre
  <2> QED BY <1>3, <1>5, <2>2 DEF meant
<1> QED BY <1>4, <1>5

PathInv == opened # None => pc = "done" /\ IsPath(opened[1]) /\ opened[2] = On(opened[1])

LEMMA PathStep ==
  ASSUME MachineInv, PathInv, [Next]_vars
  PROVE  PathInv'
<1>1. CASE GuestOpens
  <2>1. PICK path \in M.paths : opened' = <<path, On(path)>>
    BY <1>1 DEF GuestOpens
  <2>2. IsPath(path)
    BY StartupAssumption DEF MachineInv, M
  <2>3. UNCHANGED <<entries, def>> /\ pc' = "done"
    BY <1>1 DEF GuestOpens, files
  <2>4. opened'[1] = path /\ opened'[2] = split_dir(path, entries, def)
    BY <2>1 DEF On
  <2> QED BY <2>2, <2>3, <2>4 DEF PathInv, On
<1>2. CASE UNCHANGED <<machine, pc, files, search, reading>>
  BY <1>2 DEF PathInv, On, files, reading
<1>3. ASSUME pc # "done", opened' = opened PROVE PathInv'
  BY <1>3 DEF PathInv
<1>4. CASE Prepares
  BY <1>3, <1>4 DEF Prepares, Preparing, reading
<1>5. CASE libfs_init \/ ReadMbr \/ EmptySlot \/ Misaligned \/ RegisterPartition
  BY <1>3, <1>5 DEF libfs_init, ReadMbr, EmptySlot, Misaligned, RegisterPartition, Rests, reading
<1>6. CASE TryName \/ NoConfig \/ ReadConfig \/ ReadLine \/ EndConfig
  BY <1>3, <1>6 DEF TryName, NoConfig, ReadConfig, ReadLine, EndConfig, reading
<1> QED BY <1>1, <1>2, <1>4, <1>5, <1>6, Steps

\* Every path a guest opens leads to the device and the names it is made of, however
\* long it is and wherever its slashes are (vfs.c:98-185).
THEOREM PathsAreResolved == Spec => []PathsResolve
<1>1. Init => PathInv
  BY DEF Init, PathInv
<1>2. MachineInv /\ PathInv /\ [Next]_vars => PathInv'
  BY PathStep
<1>3. PathInv => PathsResolve
  <2> SUFFICES ASSUME PathInv, opened # None, ProperPath(opened[1])
               PROVE  LET meant == Named(opened[1], entries, def)
                      IN  IF meant.ve = NoDevice THEN opened[2].ve = NoDevice
                          ELSE opened[2] = meant
    BY DEF PathsResolve
  <2>1. IsPath(opened[1]) /\ opened[2] = split_dir(opened[1], entries, def)
    BY DEF PathInv, On
  <2> QED BY <2>1, Resolves
<1> QED BY <1>1, <1>2, <1>3, MachineHolds, PTL DEF Spec

(***************************************************************************)
(* The search for a configuration.                                         *)
(***************************************************************************)
LEMMA FindsEntry ==
  ASSUME MachineInv, FilesInv, NEW i \in DOMAIN entries
  PROVE  find_ve(entries, entries[i].name) = entries[i]
<1> DEFINE found == {j \in DOMAIN entries : entries[j].name = entries[i].name}
<1>1. ASSUME NEW j \in DOMAIN entries, entries[j].name = entries[i].name PROVE j = i
  <2>1. /\ entries[j].slot \in 1 .. 4 /\ entries[i].slot \in 1 .. 4
    BY EntryIs
  <2>2. M.card.names[entries[j].slot] = M.card.names[entries[i].slot]
    BY <1>1, EntryNamed
  <2>3. M.card.present
    BY DEF FilesInv
  <2>4. entries[j].slot = entries[i].slot
    BY <2>1, <2>2, <2>3, StartupAssumption DEF MachineInv, M
  <2>5. i \in Nat /\ j \in Nat
    BY DEF FilesInv
  <2>6. ~(i < j) /\ ~(j < i)
    BY <2>1, <2>4 DEF FilesInv
  <2> QED BY <2>5, <2>6
<1>2. found = {i}
  BY <1>1
<1>3. i \in Nat
  BY DEF FilesInv
<1>4. (CHOOSE j \in found : \A k \in found : k <= j) = i
  BY <1>2, <1>3
<1> QED BY <1>2, <1>4 DEF find_ve

LEMMA ThreeTokens ==
  ASSUME NEW S, NEW a \in S, NEW b \in S, NEW c \in S
  PROVE  /\ <<a, b, c>> \in Seq(S) /\ Len(<<a, b, c>>) = 3
         /\ <<a, b, c>>[1] = a /\ <<a, b, c>>[2] = b /\ <<a, b, c>>[3] = c
OBVIOUS

LEMMA FourTokens ==
  ASSUME NEW S, NEW a \in S, NEW b \in S, NEW c \in S, NEW d \in S
  PROVE  /\ <<a, b, c, d>> \in Seq(S) /\ Len(<<a, b, c, d>>) = 4
         /\ <<a, b, c, d>>[1] = a /\ <<a, b, c, d>>[2] = b
         /\ <<a, b, c, d>>[3] = c /\ <<a, b, c, d>>[4] = d
OBVIOUS

LEMMA SixTokens ==
  ASSUME NEW S, NEW a \in S, NEW b \in S, NEW c \in S, NEW d \in S, NEW e \in S, NEW f \in S
  PROVE  /\ <<a, b, c, d, e, f>> \in Seq(S) /\ Len(<<a, b, c, d, e, f>>) = 6
         /\ <<a, b, c, d, e, f>>[1] = a /\ <<a, b, c, d, e, f>>[2] = b
         /\ <<a, b, c, d, e, f>>[3] = c /\ <<a, b, c, d, e, f>>[4] = d
         /\ <<a, b, c, d, e, f>>[5] = e /\ <<a, b, c, d, e, f>>[6] = f
OBVIOUS

\* Every name of the list is a path without a device, whose slashes are apart.
LEMMA BootNames ==
  ASSUME NEW n \in 1 .. 3
  PROVE  /\ boot_cfg_names[n] \in Seq(STRING) /\ Len(boot_cfg_names[n]) >= 1
         /\ boot_cfg_names[n][1] = "/" /\ IsPath(boot_cfg_names[n])
         /\ \A i \in 1 .. Len(boot_cfg_names[n]) : boot_cfg_names[n][i] \notin {"(", ")"}
         /\ \A i \in 1 .. Len(boot_cfg_names[n]) - 1 :
              boot_cfg_names[n][i] # "/" \/ boot_cfg_names[n][i + 1] # "/"
<1> DEFINE s == boot_cfg_names[n]
<1>1. \/ /\ s \in Seq(STRING) /\ Len(s) = 4
         /\ s[1] = "/" /\ s[2] = "boot" /\ s[3] = "/" /\ s[4] \in {"rpi_boot.cfg", "rpi-boot.cfg"}
      \/ /\ s \in Seq(STRING) /\ Len(s) = 6
         /\ s[1] = "/" /\ s[2] = "boot" /\ s[3] = "/" /\ s[4] = "grub" /\ s[5] = "/"
         /\ s[6] = "grub.cfg"
  <2>1. /\ "/" \in STRING /\ "boot" \in STRING /\ "grub" \in STRING /\ "rpi_boot.cfg" \in STRING
        /\ "rpi-boot.cfg" \in STRING /\ "grub.cfg" \in STRING
    BY TokensAssumption DEF Punctuation
  <2>2. CASE n = 1
    <3>1. s = <<"/", "boot", "/", "rpi_boot.cfg">>
      BY <2>2 DEF boot_cfg_names
    <3> QED BY <2>1, <3>1, FourTokens
  <2>3. CASE n = 2
    <3>1. s = <<"/", "boot", "/", "rpi-boot.cfg">>
      BY <2>3 DEF boot_cfg_names
    <3> QED BY <2>1, <3>1, FourTokens
  <2>4. CASE n = 3
    <3>1. s = <<"/", "boot", "/", "grub", "/", "grub.cfg">>
      BY <2>4 DEF boot_cfg_names
    <3> QED BY <2>1, <3>1, SixTokens
  <2> QED BY <2>2, <2>3, <2>4
<1> HIDE DEF s
<1>2. \A i \in 1 .. Len(s) : s[i] \notin {"(", ")"}
  BY <1>1
<1>3. \A i \in 1 .. Len(s) - 1 : s[i] # "/" \/ s[i + 1] # "/"
  BY <1>1
<1>4. \A i \in 1 .. Len(s) - 1 : s[i] \in Punctuation \/ s[i + 1] \in Punctuation
  BY <1>1 DEF Punctuation
<1>5. IsPath(s)
  BY <1>1, <1>4 DEF IsPath
<1> QED BY <1>1, <1>2, <1>3, <1>5 DEF s

\* A name of the list, on the default device.
LEMMA BootNamed ==
  ASSUME NEW n \in 1 .. 3
  PROVE  /\ ~HasDevice(boot_cfg_names[n]) /\ Rest(boot_cfg_names[n]) = boot_cfg_names[n]
         /\ ProperPath(boot_cfg_names[n])
<1>1. ~HasDevice(boot_cfg_names[n])
  BY BootNames DEF HasDevice
<1>2. Rest(boot_cfg_names[n]) = boot_cfg_names[n]
  BY <1>1 DEF Rest
<1>3. ProperPath(boot_cfg_names[n])
  BY <1>2, BootNames DEF ProperPath
<1> QED BY <1>1, <1>2, <1>3

\* A name of the list behind a device.
LEMMA DeviceNamed ==
  ASSUME NEW n \in 1 .. 3, NEW device \in STRING, device \notin Punctuation
  PROVE  LET path == <<"(", device, ")">> \o boot_cfg_names[n]
         IN  /\ IsPath(path) /\ ProperPath(path) /\ HasDevice(path) /\ path[2] = device
             /\ Rest(path) = boot_cfg_names[n]
<1> DEFINE name == boot_cfg_names[n]
           front == <<"(", device, ")">>
           path == front \o name
           m == Len(name)
<1>1. /\ name \in Seq(STRING) /\ m >= 1 /\ m \in Nat /\ name[1] = "/"
      /\ \A i \in 1 .. m : name[i] \notin {"(", ")"}
      /\ \A i \in 1 .. m - 1 : name[i] # "/" \/ name[i + 1] # "/"
      /\ \A i \in 1 .. m - 1 : name[i] \in Punctuation \/ name[i + 1] \in Punctuation
  <2>1. /\ name \in Seq(STRING) /\ Len(name) >= 1 /\ name[1] = "/" /\ IsPath(name)
        /\ \A i \in 1 .. Len(name) : name[i] \notin {"(", ")"}
        /\ \A i \in 1 .. Len(name) - 1 : name[i] # "/" \/ name[i + 1] # "/"
    BY BootNames
  <2> HIDE DEF name
  <2>2. m \in Nat
    BY <2>1
  <2>3. \A i \in 1 .. m - 1 : name[i] \in Punctuation \/ name[i + 1] \in Punctuation
    BY <2>1 DEF IsPath
  <2> QED BY <2>1, <2>2, <2>3
<1>2. /\ front \in Seq(STRING) /\ Len(front) = 3
      /\ front[1] = "(" /\ front[2] = device /\ front[3] = ")"
  <2>1. "(" \in STRING /\ ")" \in STRING
    BY TokensAssumption DEF Punctuation
  <2> QED BY <2>1, ThreeTokens
<1> HIDE DEF name, front
<1>3. /\ path \in Seq(STRING) /\ Len(path) = 3 + m
      /\ \A i \in 1 .. 3 + m : path[i] = IF i <= 3 THEN front[i] ELSE name[i - 3]
  <2>1. front \in Seq(STRING) /\ name \in Seq(STRING)
    BY <1>1, <1>2
  <2>2. /\ path \in Seq(STRING) /\ Len(path) = Len(front) + Len(name)
        /\ \A i \in 1 .. Len(front) + Len(name) :
             path[i] = IF i <= Len(front) THEN front[i] ELSE name[i - Len(front)]
    BY <2>1, ConcatProperties
  <2> HIDE DEF path
  <2> QED BY <1>2, <2>2
<1> HIDE DEF path
<1>4. path[1] = "(" /\ path[2] = device /\ path[3] = ")"
  BY <1>1, <1>2, <1>3
<1>5. \A i \in 1 .. m : path[3 + i] = name[i]
  <2>1. ASSUME NEW i \in 1 .. m PROVE path[3 + i] = name[i]
    <3> DEFINE j == 3 + i
    <3>1. j \in 1 .. 3 + m /\ ~(j <= 3) /\ j - 3 = i
      BY <1>1
    <3> HIDE DEF j
    <3>2. path[j] = name[j - 3]
      BY <1>3, <3>1
    <3> QED BY <3>1, <3>2 DEF j
  <2> QED BY <2>1
<1>6. HasDevice(path)
  BY <1>1, <1>3, <1>4 DEF HasDevice
<1>7. Rest(path) = name
  <2>1. 4 \in Nat \ {0} /\ 3 + m \in Nat /\ 4 <= Len(path) + 1 /\ 4 - 1 <= 3 + m /\ 3 + m <= Len(path)
    BY <1>1, <1>3
  <2> DEFINE b == 3 + m
             x == SubSeq(path, 4, b)
  <2> HIDE DEF b
  <2>2. /\ x \in Seq(STRING) /\ Len(x) = b - 4 + 1
        /\ \A i \in 1 .. b - 4 + 1 : x[i] = path[4 + i - 1]
    BY <1>3, <2>1, Part DEF b
  <2>3. b - 4 + 1 = m /\ \A i \in 1 .. m : 4 + i - 1 = 3 + i
    BY <1>1 DEF b
  <2>4. Rest(path) = x
    BY <1>3, <1>6 DEF Rest, b
  <2> HIDE DEF x
  <2>5. x \in Seq(STRING) /\ Len(x) = Len(name) /\ \A i \in 1 .. Len(x) : x[i] = name[i]
    BY <1>1, <1>5, <2>2, <2>3
  <2> QED BY <1>1, <2>4, <2>5, SeqEqual
<1>8. ProperPath(path)
  BY <1>1, <1>7 DEF ProperPath
<1>9. IsPath(path)
  <2>1. ASSUME NEW i \in 1 .. Len(path) - 1
        PROVE  path[i] \in Punctuation \/ path[i + 1] \in Punctuation
    <3>1. CASE i <= 3
      BY <1>1, <1>3, <1>4, <3>1 DEF Punctuation
    <3>2. CASE i > 3
      <4> DEFINE j == i - 3
      <4>1. j \in 1 .. m - 1 /\ j \in 1 .. m /\ j + 1 \in 1 .. m /\ 3 + j = i /\ 3 + (j + 1) = i + 1
        BY <1>1, <1>3, <3>2
      <4> HIDE DEF j
      <4>2. path[i] = name[j]
        BY <1>5, <4>1
      <4>3. path[i + 1] = name[j + 1]
        BY <1>5, <4>1
      <4> QED BY <1>1, <4>1, <4>2, <4>3
    <3> QED BY <1>1, <1>3, <3>1, <3>2
  <2> QED BY <1>3, <2>1 DEF IsPath
<1> QED BY <1>4, <1>6, <1>7, <1>8, <1>9 DEF path, front, name

At(k) == On(Tried(k))

\* A configuration the k-th name leads to is among those that could not be read.
Missed(k) == Holds(At(k).ve, At(k).parts) => <<At(k).ve.slot, At(k).parts>> \in missed

\* What the search has come to is the first it could come to.
SearchInv ==
  /\ pc \in Preparing \cup {"print", "mbr", "partitions"} => tries = 0
  /\ pc \in Preparing \cup {"print", "mbr", "partitions", "search"} => config = None
  /\ pc \in {"read", "lines"} => config # None
  /\ pc = "search" => tries \in 0 .. Tries /\ \A k \in 0 .. tries - 1 : Missed(k)
  /\ config # None =>
       \E k \in 0 .. Tries - 1 :
         /\ config = At(k) /\ Holds(At(k).ve, At(k).parts)
         /\ \A j \in 0 .. k - 1 : Missed(j)
  /\ pc = "done" /\ config = None => \A k \in 0 .. Tries - 1 : Missed(k)

LEMMA SearchStays ==
  ASSUME machine' = machine, entries' = entries, def' = def, missed \subseteq missed',
         NEW k, Missed(k)
  PROVE  Missed(k)'
<1>1. At(k)' = At(k) /\ Holds(At(k).ve, At(k).parts)' = Holds(At(k).ve, At(k).parts)
  BY DEF At, On, Tried, Holds, M
<1> QED BY <1>1 DEF Missed

LEMMA TriesIs ==
  ASSUME FilesInv
  PROVE  Tries \in Nat /\ Tries = 3 * (1 + Len(entries)) /\ Len(entries) \in Nat
<1>1. Len(boot_cfg_names) = 3
  BY DEF boot_cfg_names
<1>2. Len(entries) \in Nat
  BY DEF FilesInv
<1> QED BY <1>1, <1>2 DEF Tries

LEMMA TryNameSearches ==
  ASSUME FilesInv, SearchInv, TryName
  PROVE  SearchInv'
<1>1. /\ pc = "search" /\ tries < Tries
      /\ machine' = machine /\ entries' = entries /\ def' = def
  BY DEF TryName, described, files
<1>2. /\ tries \in 0 .. Tries /\ config = None /\ Tries \in Nat
      /\ \A k \in 0 .. tries - 1 : Missed(k)
  BY <1>1, TriesIs DEF SearchInv
<1>3. Tries' = Tries
  BY <1>1 DEF Tries
<1>4. CASE /\ Holds(At(tries).ve, At(tries).parts)
           /\ config' = At(tries) /\ pc' = "read" /\ UNCHANGED <<tries, missed>>
  <2>1. config' # None
    <3>1. At(tries).ve # NoDevice
      BY <1>4 DEF Holds
    <3>2. ASSUME At(tries) = <<>> PROVE FALSE
      BY <3>2 DEF At, On, split_dir
    <3> QED BY <1>4, <3>2 DEF None
  <2>2. \A k : At(k)' = At(k) /\ Holds(At(k).ve, At(k).parts)' = Holds(At(k).ve, At(k).parts)
    BY <1>1 DEF At, On, Tried, Holds, M
  <2>3. \A k \in 0 .. tries - 1 : Missed(k)'
    BY <1>1, <1>2, <1>4, SearchStays
  <2>4. tries \in 0 .. Tries - 1
    BY <1>1, <1>2
  <2>5. \E k \in 0 .. Tries - 1 :
          /\ config' = At(k)' /\ Holds(At(k).ve, At(k).parts)'
          /\ \A j \in 0 .. k - 1 : Missed(j)'
    BY <1>4, <2>2, <2>3, <2>4
  <2> QED BY <1>3, <1>4, <2>1, <2>5 DEF SearchInv, Preparing
<1>5. CASE /\ missed' = IF Holds(At(tries).ve, At(tries).parts)
                        THEN missed \cup {<<At(tries).ve.slot, At(tries).parts>>} ELSE missed
           /\ tries' = tries + 1 /\ UNCHANGED <<config, pc>>
  <2>1. missed \subseteq missed'
    BY <1>5
  <2>2. \A k \in 0 .. tries - 1 : Missed(k)'
    BY <1>1, <1>2, <2>1, SearchStays
  <2>3. \A k : k = tries => Missed(k)'
    <3>1. \A k : At(k)' = At(k) /\ Holds(At(k).ve, At(k).parts)' = Holds(At(k).ve, At(k).parts)
      BY <1>1 DEF At, On, Tried, Holds, M
    <3> QED BY <1>5, <3>1 DEF Missed
  <2>4. tries' \in 0 .. Tries /\ \A k \in 0 .. tries' - 1 : k \in 0 .. tries - 1 \/ k = tries
    BY <1>1, <1>2, <1>5
  <2>5. \A k \in 0 .. tries' - 1 : Missed(k)'
    BY <2>2, <2>3, <2>4
  <2> QED BY <1>1, <1>2, <1>3, <1>5, <2>4, <2>5 DEF SearchInv, Preparing
<1> QED BY <1>4, <1>5 DEF TryName, At

LEMMA SearchStep ==
  ASSUME MachineInv, FilesInv, SearchInv, [Next]_vars
  PROVE  SearchInv'
<1> DEFINE Early == Preparing \cup {"print", "mbr", "partitions"}
<1>1. Tries \in Nat /\ Tries = 3 * (1 + Len(entries)) /\ Len(entries) \in Nat
  BY TriesIs
<1>2. machine' = machine
  BY MachineStays
<1>3. ASSUME UNCHANGED <<entries, def, missed>>
      PROVE  /\ Tries' = Tries
             /\ \A k : At(k)' = At(k)
             /\ \A k : Holds(At(k).ve, At(k).parts)' = Holds(At(k).ve, At(k).parts)
             /\ \A k : Missed(k)' = Missed(k)
  BY <1>2, <1>3 DEF Tries, At, On, Tried, Holds, M, Missed
<1>4. ASSUME pc \in Early, UNCHANGED <<tries, config>>, pc' \in Early \cup {"search"}
      PROVE  SearchInv'
  <2>1. tries = 0 /\ config = None
    BY <1>4 DEF SearchInv
  <2>2. FilesInv'
    BY FilesStep
  <2>3. Tries' \in Nat
    BY <2>2, TriesIs DEF Tries
  <2>4. tries' = 0 /\ config' = None
    BY <1>4, <2>1
  <2>5. pc' = "search" => tries' \in 0 .. Tries' /\ \A k \in 0 .. tries' - 1 : Missed(k)'
    BY <2>3, <2>4
  <2>6. pc' # "done" /\ pc' \notin {"read", "lines"}
    BY <1>4 DEF Preparing
  <2> QED BY <2>4, <2>5, <2>6 DEF SearchInv
<1>5. CASE Prepares
  BY <1>4, <1>5 DEF Prepares, search, Preparing
<1>6. CASE libfs_init \/ ReadMbr \/ EmptySlot \/ Misaligned \/ RegisterPartition
  BY <1>4, <1>6
  DEF libfs_init, ReadMbr, EmptySlot, Misaligned, RegisterPartition, NextSlot, Rests, search
<1>7. CASE UNCHANGED <<machine, pc, files, search, reading>>
  BY <1>3, <1>7 DEF SearchInv, files, search
<1>8. CASE TryName
  BY <1>8, TryNameSearches
<1>9. CASE NoConfig
  <2>1. /\ pc = "search" /\ tries = Tries /\ pc' = "done"
        /\ UNCHANGED <<entries, def, missed, tries, config>>
    BY <1>9 DEF NoConfig, files, search
  <2>2. config' = None /\ \A k \in 0 .. Tries - 1 : Missed(k)
    BY <2>1 DEF SearchInv
  <2> QED BY <1>3, <2>1, <2>2 DEF SearchInv, Preparing
<1>10. CASE ReadConfig \/ ReadLine \/ EndConfig
  <2>1. /\ pc \in {"read", "lines"} /\ pc' \in {"lines", "done"}
        /\ UNCHANGED <<entries, def, missed, tries, config>>
    BY <1>10 DEF ReadConfig, ReadLine, EndConfig, files, search
  <2> QED BY <1>3, <2>1 DEF SearchInv, Preparing
<1>11. CASE GuestOpens
  <2>1. pc = "done" /\ pc' = "done" /\ UNCHANGED <<entries, def, missed, tries, config>>
    BY <1>11 DEF GuestOpens, files, search
  <2> QED BY <1>3, <2>1 DEF SearchInv, Preparing
<1> QED BY <1>5, <1>6, <1>7, <1>8, <1>9, <1>10, <1>11, Steps

\* The device and the name of the k-th try.
Which(k) == <<IF k \div 3 = 0 THEN 1 ELSE k \div 3, (k % 3) + 1>>

\* The first names are tried on the default device, which is the first one.
LEMMA AtIs ==
  ASSUME MachineInv, FilesInv, NEW k \in 0 .. Tries - 1
  PROVE  IF entries = <<>> THEN At(k).ve = NoDevice
         ELSE /\ Which(k) \in (DOMAIN entries) \X (DOMAIN boot_cfg_names)
              /\ At(k) = [ve |-> entries[Which(k)[1]], parts |-> Names(boot_cfg_names[Which(k)[2]])]
<1> DEFINE d == k \div 3
           r == (k % 3) + 1
           n == Len(entries)
<1>1. Len(boot_cfg_names) = 3 /\ DOMAIN boot_cfg_names = 1 .. 3
  BY DEF boot_cfg_names
<1>2. n \in Nat /\ DOMAIN entries = 1 .. n /\ Tries = 3 * (1 + n)
  BY TriesIs DEF FilesInv
<1>3. d \in 0 .. n /\ r \in 1 .. 3
  BY <1>2
<1> HIDE DEF d, r
<1>4. Tried(k) = IF d = 0 THEN boot_cfg_names[r]
                 ELSE <<"(", entries[d].name, ")">> \o boot_cfg_names[r]
  BY <1>1 DEF Tried, d, r
<1>5. /\ IsPath(boot_cfg_names[r]) /\ ProperPath(boot_cfg_names[r])
      /\ ~HasDevice(boot_cfg_names[r]) /\ Rest(boot_cfg_names[r]) = boot_cfg_names[r]
  BY <1>3, BootNames, BootNamed
<1>6. CASE d = 0
  <2>1. At(k) = split_dir(boot_cfg_names[r], entries, def)
    BY <1>4, <1>6 DEF At, On
  <2>2. Named(boot_cfg_names[r], entries, def) = [ve |-> def, parts |-> Names(boot_cfg_names[r])]
    BY <1>5 DEF Named
  <2>3. IF def = NoDevice THEN At(k).ve = NoDevice
        ELSE At(k) = [ve |-> def, parts |-> Names(boot_cfg_names[r])]
    BY <1>5, <2>1, <2>2, Resolves
  <2>4. CASE entries = <<>>
    BY <2>3, <2>4 DEF FilesInv
  <2>5. CASE entries # <<>>
    <3>1. 1 \in DOMAIN entries /\ def = entries[1]
      BY <1>2, <2>5 DEF FilesInv
    <3>2. def # NoDevice
      BY <3>1, EntryNamed
    <3>3. Which(k) = <<1, r>>
      BY <1>6 DEF Which, d, r
    <3> QED BY <1>1, <1>3, <2>3, <2>5, <3>1, <3>2, <3>3
  <2> QED BY <2>4, <2>5
<1>7. CASE d # 0
  <2> DEFINE path == <<"(", entries[d].name, ")">> \o boot_cfg_names[r]
  <2>1. d \in DOMAIN entries /\ entries # <<>>
    BY <1>2, <1>3, <1>7
  <2>2. entries[d].name \in STRING /\ entries[d].name \notin Punctuation /\ entries[d] # NoDevice
    <3>1. /\ entries[d].slot \in 1 .. 4 /\ entries[d].name = M.card.names[entries[d].slot]
          /\ entries[d].name \notin Punctuation /\ entries[d] # NoDevice
      BY <2>1, EntryIs, EntryNamed
    <3>2. M.card.present
      BY <2>1 DEF FilesInv
    <3>3. entries[d].name \in STRING
      BY <3>1, <3>2, StartupAssumption DEF MachineInv, M
    <3> QED BY <3>1, <3>3
  <2>3. /\ IsPath(path) /\ ProperPath(path) /\ HasDevice(path) /\ path[2] = entries[d].name
        /\ Rest(path) = boot_cfg_names[r]
    BY <1>3, <2>2, DeviceNamed
  <2>4. At(k) = split_dir(path, entries, def)
    BY <1>4, <1>7 DEF At, On
  <2> HIDE DEF path
  <2>5. find_ve(entries, entries[d].name) = entries[d]
    BY <2>1, FindsEntry
  <2>6. Named(path, entries, def) = [ve |-> entries[d], parts |-> Names(boot_cfg_names[r])]
    BY <2>3, <2>5 DEF Named
  <2>7. At(k) = [ve |-> entries[d], parts |-> Names(boot_cfg_names[r])]
    BY <2>2, <2>3, <2>4, <2>6, Resolves
  <2>8. Which(k) = <<d, r>>
    BY <1>7 DEF Which, d, r
  <2> QED BY <1>1, <1>3, <2>1, <2>7, <2>8
<1> QED BY <1>6, <1>7

LEMMA ConfigIs ==
  ASSUME MachineInv, FilesInv, NEW k \in 0 .. Tries - 1
  PROVE  /\ Holds(At(k).ve, At(k).parts) => Which(k) \in Configs
         /\ Which(k) \in Configs =>
              /\ Holds(At(k).ve, At(k).parts)
              /\ Key(Which(k)) = <<At(k).ve.slot, At(k).parts>>
<1>1. CASE entries = <<>>
  <2>1. At(k).ve = NoDevice
    BY <1>1, AtIs
  <2>2. DOMAIN entries = {}
    BY <1>1
  <2> QED BY <2>1, <2>2 DEF Holds, Configs
<1>2. CASE entries # <<>>
  <2> DEFINE c == Which(k)
             name == boot_cfg_names[c[2]]
  <2>1. /\ c \in (DOMAIN entries) \X (DOMAIN boot_cfg_names)
        /\ At(k) = [ve |-> entries[c[1]], parts |-> Names(name)]
    BY <1>2, AtIs
  <2>2. DOMAIN boot_cfg_names = 1 .. 3
    BY DEF boot_cfg_names
  <2> HIDE DEF c
  <2>3. c[2] \in 1 .. 3
    BY <2>1, <2>2
  <2>4. ~HasDevice(name) /\ Rest(name) = name
    BY <2>3, BootNamed
  <2>5. \A e : Named(name, entries, e) = [ve |-> e, parts |-> Names(name)]
    BY <2>4 DEF Named
  <2>6. c \in Configs <=> Holds(At(k).ve, At(k).parts)
    BY <2>1, <2>5 DEF Configs
  <2>7. Key(c) = <<At(k).ve.slot, At(k).parts>>
    BY <2>1, <2>5 DEF Key
  <2> QED BY <2>6, <2>7 DEF c
<1> QED BY <1>1, <1>2

\* Where a configuration is found: on its own device, and on the first without its name.
LEMMA IndexOf ==
  ASSUME FilesInv, NEW c \in Configs
  PROVE  /\ c = <<c[1], c[2]>> /\ c[1] \in 1 .. Len(entries) /\ c[2] \in 1 .. 3
         /\ 3 * c[1] + c[2] - 1 \in 0 .. Tries - 1 /\ Which(3 * c[1] + c[2] - 1) = c
         /\ c[1] = 1 => c[2] - 1 \in 0 .. Tries - 1 /\ Which(c[2] - 1) = c
<1> DEFINE x == c[1]
           y == c[2]
           n == Len(entries)
<1>1. DOMAIN boot_cfg_names = 1 .. 3
  BY DEF boot_cfg_names
<1>2. n \in Nat /\ DOMAIN entries = 1 .. n /\ Tries = 3 * (1 + n)
  BY TriesIs DEF FilesInv
<1>3. c = <<x, y>> /\ x \in 1 .. n /\ y \in 1 .. 3
  BY <1>1, <1>2 DEF Configs
<1> HIDE DEF x, y, n
<1>4. 3 * x + y - 1 \in 0 .. Tries - 1 /\ y - 1 \in 0 .. Tries - 1
  BY <1>2, <1>3
<1>5. (3 * x + y - 1) \div 3 = x /\ (3 * x + y - 1) % 3 = y - 1
  BY <1>2, <1>3
<1>6. (y - 1) \div 3 = 0 /\ (y - 1) % 3 = y - 1 /\ (y - 1) + 1 = y /\ x # 0
  BY <1>2, <1>3
<1>7. Which(3 * x + y - 1) = <<x, y>>
  BY <1>5, <1>6 DEF Which
<1>8. x = 1 => Which(y - 1) = <<x, y>>
  BY <1>6 DEF Which
<1> QED BY <1>3, <1>4, <1>7, <1>8 DEF x, y, n

\* The configuration that is run is the first name on the first partition that has one,
\* among any number of them, and whichever devices fail while they are looked for
\* (main.c:87-161).
THEOREM FirstConfigIsRun == Spec => []FirstConfigRuns
<1>1. Init => SearchInv
  BY DEF Init, SearchInv, Preparing
<1>2. MachineInv /\ FilesInv /\ SearchInv /\ [Next]_vars => SearchInv'
  BY SearchStep
<1>3. ASSUME MachineInv, FilesInv, SearchInv PROVE FirstConfigRuns
  <2>1. Tries \in Nat /\ Len(entries) \in Nat
    BY <1>3, TriesIs
  <2>2. ASSUME NEW d \in Configs, NEW j \in 0 .. Tries - 1, Which(j) = d, Missed(j)
        PROVE  Key(d) \in missed
    BY <1>3, <2>2, ConfigIs DEF Missed
  <2>3. ASSUME config # None
        PROVE  \E c \in Configs :
                 /\ Key(c) = <<config.ve.slot, config.parts>>
                 /\ \A d \in Configs : Earlier(d, c) => Key(d) \in missed
    <3>1. PICK k \in 0 .. Tries - 1 :
            /\ config = At(k) /\ Holds(At(k).ve, At(k).parts)
            /\ \A j \in 0 .. k - 1 : Missed(j)
      BY <1>3, <2>3 DEF SearchInv
    <3> DEFINE c == Which(k)
    <3>2. c \in Configs /\ Key(c) = <<config.ve.slot, config.parts>>
      BY <1>3, <3>1, ConfigIs
    <3>3. ASSUME NEW d \in Configs, Earlier(d, c) PROVE Key(d) \in missed
      <4>1. /\ d[1] \in 1 .. Len(entries) /\ d[2] \in 1 .. 3
            /\ 3 * d[1] + d[2] - 1 \in 0 .. Tries - 1 /\ Which(3 * d[1] + d[2] - 1) = d
            /\ d[1] = 1 => d[2] - 1 \in 0 .. Tries - 1 /\ Which(d[2] - 1) = d
        BY <1>3, IndexOf
      <4>2. c[1] = (IF k \div 3 = 0 THEN 1 ELSE k \div 3) /\ c[2] = (k % 3) + 1
        BY DEF Which
      <4>3. d[1] < c[1] \/ (d[1] = c[1] /\ d[2] < c[2])
        BY <3>3 DEF Earlier
      <4> DEFINE p == d[1]
                 q == d[2]
      <4> HIDE DEF c, p, q
      <4>4. p < c[1] \/ (p = c[1] /\ q < c[2])
        BY <4>3 DEF p, q
      <4>5. p \in 1 .. Len(entries) /\ q \in 1 .. 3
        BY <4>1 DEF p, q
      <4>6. CASE k \div 3 = 0
        <5>1. p = 1 /\ q - 1 \in 0 .. k - 1
          BY <2>1, <4>2, <4>4, <4>5, <4>6
        <5>2. Missed(q - 1) /\ q - 1 \in 0 .. Tries - 1 /\ Which(q - 1) = d
          BY <3>1, <4>1, <5>1 DEF p, q
        <5> QED BY <2>2, <5>2
      <4>7. CASE k \div 3 # 0
        <5>1. 3 * p + q - 1 \in 0 .. k - 1
          BY <2>1, <4>2, <4>4, <4>5, <4>7
        <5>2. /\ Missed(3 * p + q - 1) /\ 3 * p + q - 1 \in 0 .. Tries - 1
              /\ Which(3 * p + q - 1) = d
          BY <3>1, <4>1, <5>1 DEF p, q
        <5> QED BY <2>2, <5>2
      <4> QED BY <4>6, <4>7
    <3> QED BY <3>2, <3>3
  <2>4. ASSUME pc = "done", config = None, NEW c \in Configs PROVE Key(c) \in missed
    <3>1. \A k \in 0 .. Tries - 1 : Missed(k)
      BY <1>3, <2>4 DEF SearchInv
    <3> DEFINE j == 3 * c[1] + c[2] - 1
    <3>2. j \in 0 .. Tries - 1 /\ Which(j) = c
      BY <1>3, IndexOf
    <3> HIDE DEF j
    <3> QED BY <2>2, <3>1, <3>2
  <2> QED BY <2>3, <2>4 DEF FirstConfigRuns
<1> QED BY <1>1, <1>2, <1>3, FilesHold, PTL DEF Spec

(***************************************************************************)
(* The screen.                                                             *)
(***************************************************************************)
LEMMA Quotient ==
  ASSUME NEW a \in Nat, NEW d \in Nat \ {0}
  PROVE  /\ a \div d \in Nat /\ a % d \in 0 .. d - 1
         /\ a = ((a \div d) * d) + (a % d)
<1> DEFINE q == a \div d
<1>1. q \in Nat /\ a = (d * q) + (a % d) /\ a % d \in 0 .. d - 1
  OBVIOUS
<1> HIDE DEF q
<1>2. d * q = q * d
  BY <1>1
<1> QED BY <1>1, <1>2 DEF q

LEMMA RowsApart ==
  ASSUME NEW d \in Nat \ {0}, NEW p \in Nat, NEW q \in Nat, p < q
  PROVE  (p * d) + d <= q * d
OBVIOUS

LEMMA OnePlace ==
  ASSUME NEW d \in Nat \ {0}, NEW p \in Nat, NEW q \in Nat,
         NEW r \in 0 .. d - 1, NEW s \in 0 .. d - 1, (p * d) + r = (q * d) + s
  PROVE  p = q /\ r = s
<1>1. p * d \in Nat /\ q * d \in Nat
  OBVIOUS
<1>2. ~(p < q)
  BY <1>1, RowsApart
<1>3. ~(q < p)
  BY <1>1, RowsApart
<1>4. p = q
  BY <1>2, <1>3
<1> QED BY <1>1, <1>4

LEMMA PlaceOf ==
  ASSUME NEW d \in Nat \ {0}, NEW q \in Nat, NEW r \in 0 .. d - 1
  PROVE  /\ (q * d) + r \in Nat
         /\ ((q * d) + r) \div d = q /\ ((q * d) + r) % d = r
<1> DEFINE a == (q * d) + r
           m == a \div d
           n == a % d
<1>1. a \in Nat
  <2>1. q * d \in Nat
    OBVIOUS
  <2> QED BY <2>1
<1> HIDE DEF a
<1>2. m \in Nat /\ n \in 0 .. d - 1 /\ a = (m * d) + n
  BY <1>1, Quotient
<1> HIDE DEF m, n
<1>3. (m * d) + n = (q * d) + r
  BY <1>2 DEF a
<1>4. m = q /\ n = r
  BY <1>2, <1>3, OnePlace
<1> QED BY <1>1, <1>4 DEF m, n, a

\* The pixels of the screen have places of their own in the framebuffer.
Pixel(i, j) == j * pitch + i

Screened ==
  /\ {virt_w, virt_h, pitch} \subseteq Nat
  /\ virt_w >= CHAR_W /\ virt_h >= CHAR_H /\ pitch >= virt_w
  /\ DOMAIN fb = 0 .. pitch * virt_h - 1

LEMMA Sizes ==
  ASSUME Screened
  PROVE  /\ CHAR_W \in Nat \ {0} /\ CHAR_H \in Nat \ {0} /\ pitch \in Nat \ {0}
         /\ virt_w \in Nat /\ virt_h \in Nat /\ virt_w <= pitch
         /\ Columns \in Nat \ {0} /\ Rows \in Nat \ {0}
         /\ Columns * CHAR_W <= virt_w /\ Rows * CHAR_H <= virt_h
<1>1. /\ CHAR_W \in Nat \ {0} /\ CHAR_H \in Nat \ {0} /\ pitch \in Nat \ {0}
      /\ virt_w \in Nat /\ virt_h \in Nat /\ virt_w <= pitch
      /\ virt_w >= CHAR_W /\ virt_h >= CHAR_H
  BY DisplayAssumption DEF Screened
<1>2. /\ Columns \in Nat /\ virt_w % CHAR_W \in 0 .. CHAR_W - 1
      /\ virt_w = (Columns * CHAR_W) + (virt_w % CHAR_W)
  BY <1>1, Quotient DEF Columns
<1>3. /\ Rows \in Nat /\ virt_h % CHAR_H \in 0 .. CHAR_H - 1
      /\ virt_h = (Rows * CHAR_H) + (virt_h % CHAR_H)
  BY <1>1, Quotient DEF Rows
<1> HIDE DEF Columns, Rows
<1>4. Columns # 0 /\ Columns * CHAR_W <= virt_w
  <2>1. Columns = 0 => Columns * CHAR_W = 0
    BY <1>1
  <2>2. Columns * CHAR_W \in Nat
    BY <1>1, <1>2
  <2> QED BY <1>1, <1>2, <2>1, <2>2
<1>5. Rows # 0 /\ Rows * CHAR_H <= virt_h
  <2>1. Rows = 0 => Rows * CHAR_H = 0
    BY <1>1
  <2>2. Rows * CHAR_H \in Nat
    BY <1>1, <1>3
  <2> QED BY <1>1, <1>3, <2>1, <2>2
<1> QED BY <1>1, <1>2, <1>3, <1>4, <1>5

LEMMA PixelIs ==
  ASSUME Screened, NEW i \in 0 .. virt_w - 1, NEW j \in 0 .. virt_h - 1
  PROVE  /\ Pixel(i, j) \in DOMAIN fb
         /\ Pixel(i, j) \div pitch = j /\ Pixel(i, j) % pitch = i
<1>1. i \in 0 .. pitch - 1 /\ j \in Nat /\ pitch \in Nat \ {0} /\ virt_h \in Nat /\ j < virt_h
  BY Sizes
<1>2. /\ Pixel(i, j) \in Nat /\ Pixel(i, j) \div pitch = j /\ Pixel(i, j) % pitch = i
  BY <1>1, PlaceOf DEF Pixel
<1>3. Pixel(i, j) \in DOMAIN fb
  <2>1. (j * pitch) + pitch <= virt_h * pitch
    BY <1>1, RowsApart
  <2>2. virt_h * pitch = pitch * virt_h /\ pitch * virt_h \in Nat /\ j * pitch \in Nat
    BY <1>1
  <2>3. Pixel(i, j) <= pitch * virt_h - 1
    BY <1>1, <2>1, <2>2 DEF Pixel
  <2> QED BY <1>2, <2>2, <2>3 DEF Screened
<1> QED BY <1>2, <1>3

LEMMA InsideCell ==
  ASSUME NEW d \in Nat \ {0}, NEW n \in Nat, NEW w \in Nat, n * d <= w,
         NEW q \in 0 .. n - 1, NEW r \in 0 .. d - 1
  PROVE  (q * d) + r \in 0 .. w - 1
<1>1. q \in Nat /\ q < n
  OBVIOUS
<1>2. (q * d) + d <= n * d
  BY <1>1, RowsApart
<1>3. q * d \in Nat /\ n * d \in Nat
  BY <1>1
<1> QED BY <1>2, <1>3

\* A glyph is the pixels of one cell of the screen.
LEMMA GlyphIs ==
  ASSUME Screened, NEW x \in 0 .. Columns - 1, NEW y \in 0 .. Rows - 1
  PROVE  Glyph(x, y) = {Pixel((x * CHAR_W) + i, (y * CHAR_H) + j) :
                          i \in 0 .. CHAR_W - 1, j \in 0 .. CHAR_H - 1}
<1>1. ASSUME NEW i \in 0 .. CHAR_W - 1, NEW j \in 0 .. CHAR_H - 1
      PROVE  (y * CHAR_H + j) * pitch + x * CHAR_W + i = Pixel((x * CHAR_W) + i, (y * CHAR_H) + j)
  <2> DEFINE a == (y * CHAR_H + j) * pitch
             b == x * CHAR_W
  <2>1. /\ x \in Nat /\ y \in Nat /\ i \in Nat /\ j \in Nat /\ pitch \in Nat
        /\ CHAR_W \in Nat /\ CHAR_H \in Nat
    BY Sizes
  <2>2. y * CHAR_H \in Nat /\ b \in Nat
    BY <2>1
  <2>3. y * CHAR_H + j \in Nat
    BY <2>1, <2>2
  <2>4. a \in Nat
    BY <2>1, <2>3
  <2> HIDE DEF a, b
  <2>5. a + b + i = a + (b + i)
    BY <2>1, <2>2, <2>4
  <2> QED BY <2>5 DEF a, b, Pixel
<1> QED BY <1>1 DEF Glyph

LEMMA GlyphInside ==
  ASSUME Screened, NEW x \in 0 .. Columns - 1, NEW y \in 0 .. Rows - 1
  PROVE  Glyph(x, y) \subseteq DOMAIN fb
<1>1. ASSUME NEW i \in 0 .. CHAR_W - 1, NEW j \in 0 .. CHAR_H - 1
      PROVE  Pixel((x * CHAR_W) + i, (y * CHAR_H) + j) \in DOMAIN fb
  <2>1. (x * CHAR_W) + i \in 0 .. virt_w - 1
    BY Sizes, InsideCell
  <2>2. (y * CHAR_H) + j \in 0 .. virt_h - 1
    BY Sizes, InsideCell
  <2> QED BY <2>1, <2>2, PixelIs
<1> QED BY <1>1, GlyphIs

LEMMA GlyphCell ==
  ASSUME Screened, NEW x \in 0 .. Columns - 1, NEW y \in 0 .. Rows - 1,
         NEW i \in 0 .. virt_w - 1, NEW j \in 0 .. virt_h - 1
  PROVE  Pixel(i, j) \in Glyph(x, y) <=> i \div CHAR_W = x /\ j \div CHAR_H = y
<1>1. /\ CHAR_W \in Nat \ {0} /\ CHAR_H \in Nat \ {0} /\ i \in Nat /\ j \in Nat
      /\ x \in Nat /\ y \in Nat
  BY Sizes
<1>2. ASSUME NEW a \in 0 .. CHAR_W - 1, NEW b \in 0 .. CHAR_H - 1,
             Pixel(i, j) = Pixel((x * CHAR_W) + a, (y * CHAR_H) + b)
      PROVE  i \div CHAR_W = x /\ j \div CHAR_H = y
  <2> DEFINE k == (x * CHAR_W) + a
             l == (y * CHAR_H) + b
  <2>1. k \in 0 .. virt_w - 1 /\ k \div CHAR_W = x
    BY <1>1, Sizes, InsideCell, PlaceOf
  <2>2. l \in 0 .. virt_h - 1 /\ l \div CHAR_H = y
    BY <1>1, Sizes, InsideCell, PlaceOf
  <2> HIDE DEF k, l
  <2>3. Pixel(i, j) = Pixel(k, l)
    BY <1>2 DEF k, l
  <2>4. Pixel(i, j) \div pitch = j /\ Pixel(i, j) % pitch = i
    BY PixelIs
  <2>5. Pixel(k, l) \div pitch = l /\ Pixel(k, l) % pitch = k
    BY <2>1, <2>2, PixelIs
  <2> QED BY <2>1, <2>2, <2>3, <2>4, <2>5
<1>3. ASSUME i \div CHAR_W = x, j \div CHAR_H = y PROVE Pixel(i, j) \in Glyph(x, y)
  <2> DEFINE a == i % CHAR_W
             b == j % CHAR_H
  <2>1. a \in 0 .. CHAR_W - 1 /\ i = (x * CHAR_W) + a
    BY <1>1, <1>3, Quotient
  <2>2. b \in 0 .. CHAR_H - 1 /\ j = (y * CHAR_H) + b
    BY <1>1, <1>3, Quotient
  <2> HIDE DEF a, b
  <2> QED BY <2>1, <2>2, GlyphIs
<1> QED BY <1>2, <1>3, GlyphIs

(***************************************************************************)
(* What a terminal shows, and what is drawn.                               *)
(***************************************************************************)
\* How many rows have scrolled away, and what is where nothing was printed.
Gone(n) == IF n > Rows THEN n - Rows ELSE 0
Under(rs, j) == Ground(j, Gone(Len(rs)))

\* The pixel at column i of line j, for the rows rs.
Meant(rs, i, j) ==
  LET y == j \div CHAR_H + 1 + (IF Len(rs) > Rows THEN Len(rs) - Rows ELSE 0)
      x == i \div CHAR_W + 1
  IN  IF y <= Len(rs) /\ x <= Len(rs[y]) THEN <<rs[y][x], j % CHAR_H, i % CHAR_W>> ELSE Under(rs, j)

Shows(f, rs) == \A i \in 0 .. virt_w - 1, j \in 0 .. virt_h - 1 : f[Pixel(i, j)] = Meant(rs, i, j)

\* The line of the cursor, for the rows rs.
LineFor(rs) == (IF Len(rs) > Rows THEN Rows ELSE Len(rs)) - 1

LEMMA LineInside ==
  ASSUME Screened, NEW rs \in Seq(Seq(Chars)), rs # <<>>
  PROVE  LineFor(rs) \in 0 .. Rows - 1
<1>1. Rows \in Nat \ {0}
  BY Sizes
<1>2. Len(rs) \in Nat \ {0}
  OBVIOUS
<1> HIDE DEF Rows
<1> QED BY <1>1, <1>2 DEF LineFor

\* The last row with a character more.
Longer(rs, c) == [rs EXCEPT ![Len(rs)] = Append(@, c)]

LEMMA LongerIs ==
  ASSUME NEW rs \in Seq(Seq(Chars)), rs # <<>>, NEW c \in Chars
  PROVE  LET n == Len(rs)
         IN  /\ n \in Nat \ {0} /\ rs[n] \in Seq(Chars) /\ Len(rs[n]) \in Nat
             /\ Longer(rs, c) \in Seq(Seq(Chars)) /\ Len(Longer(rs, c)) = n
             /\ Longer(rs, c) # <<>>
             /\ Longer(rs, c)[n] = Append(rs[n], c)
             /\ \A y \in 1 .. n : y # n => Longer(rs, c)[y] = rs[y]
<1> DEFINE n == Len(rs)
           row == Append(rs[n], c)
<1>1. n \in Nat \ {0} /\ n \in 1 .. n /\ rs[n] \in Seq(Chars) /\ DOMAIN rs = 1 .. n
  OBVIOUS
<1>2. row \in Seq(Chars) /\ Len(rs[n]) \in Nat
  BY <1>1
<1> HIDE DEF row
<1>3. Longer(rs, c) = [rs EXCEPT ![n] = row]
  BY DEF Longer, row
<1>4. /\ Longer(rs, c) \in Seq(Seq(Chars)) /\ Len(Longer(rs, c)) = n
      /\ Longer(rs, c)[n] = row /\ \A y \in 1 .. n : y # n => Longer(rs, c)[y] = rs[y]
  <2> DEFINE S == Seq(Chars)
  <2> HIDE DEF S
  <2>1. rs \in Seq(S) /\ row \in S
    BY <1>2 DEF S
  <2>2. [rs EXCEPT ![n] = row] \in Seq(S) /\ Len([rs EXCEPT ![n] = row]) = n
    BY <1>1, <2>1, ExceptSeq
  <2> QED BY <1>1, <1>3, <2>2 DEF S
<1> QED BY <1>1, <1>2, <1>4 DEF row

\* A character drawn at the cursor is what the terminal adds to its last row.
LEMMA DrawShows ==
  ASSUME Screened, NEW rs \in Seq(Seq(Chars)), rs # <<>>, Len(rs[Len(rs)]) < Columns,
         NEW c \in Chars, NEW f, DOMAIN f = DOMAIN fb, Shows(f, rs)
  PROVE  LET g == draw_char(c, Len(rs[Len(rs)]), LineFor(rs), f)
         IN  DOMAIN g = DOMAIN fb /\ Shows(g, Longer(rs, c))
<1> DEFINE n == Len(rs)
           cx == Len(rs[n])
           ly == LineFor(rs)
           g == draw_char(c, cx, ly, f)
           new == Longer(rs, c)
<1>1. /\ n \in Nat \ {0} /\ rs[n] \in Seq(Chars) /\ cx \in Nat /\ Len(new) = n
      /\ new[n] = Append(rs[n], c) /\ \A y \in 1 .. n : y # n => new[y] = rs[y]
  BY LongerIs
<1>2. Columns \in Nat \ {0} /\ Rows \in Nat \ {0} /\ CHAR_W \in Nat \ {0} /\ CHAR_H \in Nat \ {0}
  BY Sizes
<1>3. cx \in 0 .. Columns - 1 /\ ly \in 0 .. Rows - 1
  BY <1>1, <1>2, LineInside
<1>4. /\ Len(new[n]) = cx + 1 /\ new[n][cx + 1] = c
      /\ \A x \in 1 .. cx : new[n][x] = rs[n][x]
  <2> DEFINE last == rs[n]
  <2>1. last \in Seq(Chars) /\ new[n] = Append(last, c)
    BY <1>1
  <2> HIDE DEF last
  <2>2. /\ Len(Append(last, c)) = Len(last) + 1 /\ Append(last, c)[Len(last) + 1] = c
        /\ \A x \in 1 .. Len(last) : Append(last, c)[x] = last[x]
    BY <2>1, AppendProperties
  <2> QED BY <2>1, <2>2 DEF last
<1>5. DOMAIN g = DOMAIN fb
  BY DEF draw_char
<1>6. ASSUME NEW i \in 0 .. virt_w - 1, NEW j \in 0 .. virt_h - 1
      PROVE  g[Pixel(i, j)] = Meant(new, i, j)
  <2> DEFINE s == IF n > Rows THEN n - Rows ELSE 0
             u == i \div CHAR_W
             v == j \div CHAR_H
             a == i % CHAR_W
             b == j % CHAR_H
  <2>1. i \in Nat /\ j \in Nat /\ u \in Nat /\ v \in Nat
    <3>1. i \in Nat /\ j \in Nat
      BY Sizes
    <3> QED BY <1>2, <3>1, Quotient
  <2>2. /\ Pixel(i, j) \in DOMAIN fb /\ Pixel(i, j) \div pitch = j /\ Pixel(i, j) % pitch = i
        /\ Pixel(i, j) \in Glyph(cx, ly) <=> u = cx /\ v = ly
    BY <1>3, PixelIs, GlyphCell
  <2>3. g[Pixel(i, j)] = IF u = cx /\ v = ly THEN <<c, b, a>> ELSE f[Pixel(i, j)]
    BY <2>2 DEF draw_char
  <2>4. f[Pixel(i, j)] = Meant(rs, i, j)
    BY DEF Shows
  <2>5. Meant(rs, i, j) = IF v + 1 + s <= n /\ u + 1 <= Len(rs[v + 1 + s])
                          THEN <<rs[v + 1 + s][u + 1], b, a>> ELSE Under(rs, j)
    BY DEF Meant
  <2>6. Meant(new, i, j) = IF v + 1 + s <= n /\ u + 1 <= Len(new[v + 1 + s])
                           THEN <<new[v + 1 + s][u + 1], b, a>> ELSE Under(rs, j)
    BY <1>1 DEF Meant, Under
  <2>7. s \in Nat /\ (v = ly <=> v + 1 + s = n)
    <3>1. ly = (IF n > Rows THEN Rows ELSE n) - 1
      BY DEF LineFor
    <3> HIDE DEF v, n, ly, Rows
    <3> QED BY <1>1, <1>2, <2>1, <3>1
  <2> HIDE DEF s, u, v, a, b, n, cx, ly, g, new
  <2> DEFINE y == v + 1 + s
  <2>8. y \in Nat \ {0}
    BY <2>1, <2>7
  <2>9. (y <= n /\ y # n) => new[y] = rs[y]
    BY <1>1, <2>8
  <2>10. CASE y = n
    <3>1. v = ly /\ y <= n
      BY <1>1, <2>7, <2>10
    <3> HIDE DEF y
    <3>2. CASE u = cx
      <4>1. u + 1 <= Len(new[y]) /\ new[y][u + 1] = c
        BY <1>1, <1>4, <2>10, <3>2
      <4>2. Meant(new, i, j) = <<c, b, a>>
        BY <2>6, <3>1, <4>1 DEF y
      <4> QED BY <2>3, <3>1, <3>2, <4>2
    <3>3. CASE u # cx
      <4>1. g[Pixel(i, j)] = Meant(rs, i, j)
        BY <2>3, <2>4, <3>3
      <4>2. u + 1 <= Len(new[y]) <=> u + 1 <= cx
        <5>1. Len(new[y]) = cx + 1
          BY <1>4, <2>10
        <5>2. cx \in Nat
          BY <1>2, <1>3
        <5> QED BY ONLY <2>1, <3>3, <5>1, <5>2
      <4>3. u + 1 <= cx => new[y][u + 1] = rs[y][u + 1]
        <5>1. \A x \in 1 .. cx : new[y][x] = rs[y][x]
          BY <1>4, <2>10
        <5>2. cx \in Nat
          BY <1>2, <1>3
        <5>3. u + 1 <= cx => u + 1 \in 1 .. cx
          BY ONLY <2>1, <5>2
        <5> QED BY ONLY <5>1, <5>3
      <4>4. Len(rs[y]) = cx
        BY <2>10 DEF cx
      <4> QED BY <2>5, <2>6, <4>1, <4>2, <4>3, <4>4 DEF y
    <3> QED BY <3>2, <3>3
  <2>11. CASE y # n
    <3>1. g[Pixel(i, j)] = Meant(rs, i, j)
      BY <2>3, <2>4, <2>7, <2>11
    <3> QED BY <2>5, <2>6, <2>9, <2>11, <3>1
  <2> QED BY <2>10, <2>11
<1> QED BY <1>5, <1>6 DEF Shows

\* The line of a pixel, and the same line of the row below.
LEMMA LineBelow ==
  ASSUME NEW d \in Nat \ {0}, NEW j \in Nat
  PROVE  (j + d) \div d = j \div d + 1 /\ (j + d) % d = j % d
<1> DEFINE q == j \div d
           r == j % d
<1>1. q \in Nat /\ r \in 0 .. d - 1 /\ j = (q * d) + r
  BY Quotient
<1> HIDE DEF q, r
<1>2. (q + 1) * d = (q * d) + d /\ q * d \in Nat
  BY <1>1
<1>3. j + d = ((q + 1) * d) + r
  BY <1>1, <1>2
<1>4. ((q + 1) * d + r) \div d = q + 1 /\ ((q + 1) * d + r) % d = r
  BY <1>1, PlaceOf
<1> QED BY <1>3, <1>4 DEF q, r

LEMMA LastLines ==
  ASSUME NEW d \in Nat \ {0}, NEW n \in Nat, NEW h \in Nat, n * d <= h,
         NEW j \in Nat, ~(j < h - d)
  PROVE  n <= j \div d + 1
<1> DEFINE q == j \div d
           r == j % d
<1>1. q \in Nat /\ r \in 0 .. d - 1 /\ j = (q * d) + r
  BY Quotient
<1> HIDE DEF q, r
<1>2. ASSUME q + 1 < n PROVE FALSE
  <2>1. ((q + 1) * d) + d <= n * d
    BY <1>1, <1>2, RowsApart
  <2>2. (q + 1) * d = (q * d) + d /\ q * d \in Nat /\ n * d \in Nat
    BY <1>1
  <2> QED BY <1>1, <2>1, <2>2
<1> QED BY <1>1, <1>2 DEF q

\* A new line scrolls the last rows up when there is no room below.
LEMMA NewlineShows ==
  ASSUME Screened, NEW rs \in Seq(Seq(Chars)), rs # <<>>,
         NEW f, DOMAIN f = DOMAIN fb, Shows(f, rs)
  PROVE  LET new == Append(rs, <<>>)
             full == LineFor(rs) + 1 = Rows
             g == IF full THEN Scrolled(f) ELSE f
         IN  /\ new \in Seq(Seq(Chars)) /\ new # <<>> /\ new[Len(new)] = <<>>
             /\ LineFor(new) = IF full THEN LineFor(rs) ELSE LineFor(rs) + 1
             /\ DOMAIN g = DOMAIN fb /\ Shows(g, new)
<1> DEFINE n == Len(rs)
           new == Append(rs, <<>>)
           full == LineFor(rs) + 1 = Rows
           g == IF full THEN Scrolled(f) ELSE f
<1>1. /\ n \in Nat \ {0} /\ new \in Seq(Seq(Chars)) /\ new # <<>> /\ Len(new) = n + 1
      /\ new[n + 1] = <<>> /\ \A y \in 1 .. n : new[y] = rs[y]
  <2> DEFINE S == Seq(Chars)
  <2>1. <<>> \in S
    OBVIOUS
  <2> HIDE DEF S
  <2>2. /\ new \in Seq(S) /\ new # <<>> /\ Len(new) = Len(rs) + 1
        /\ new[Len(rs) + 1] = <<>> /\ \A y \in 1 .. Len(rs) : new[y] = rs[y]
    BY <2>1, AppendProperties DEF S
  <2>3. n \in Nat \ {0}
    OBVIOUS
  <2> QED BY <2>2, <2>3 DEF S
<1>2. Rows \in Nat \ {0} /\ CHAR_W \in Nat \ {0} /\ CHAR_H \in Nat \ {0} /\ Rows * CHAR_H <= virt_h
  BY Sizes
<1>3. full <=> n >= Rows
  <2>1. LineFor(rs) = (IF n > Rows THEN Rows ELSE n) - 1
    BY DEF LineFor
  <2> HIDE DEF n, Rows
  <2> QED BY <1>1, <1>2, <2>1
<1>4. LineFor(new) = IF full THEN LineFor(rs) ELSE LineFor(rs) + 1
  <2>1. /\ LineFor(rs) = (IF n > Rows THEN Rows ELSE n) - 1
        /\ LineFor(new) = (IF n + 1 > Rows THEN Rows ELSE n + 1) - 1
    BY <1>1 DEF LineFor
  <2>2. n \in Nat /\ Rows \in Nat
    BY <1>1, <1>2
  <2> HIDE DEF n, Rows, new, full
  <2>3. CASE n >= Rows
    <3>1. full
      BY <1>3, <2>3
    <3>2. LineFor(new) = Rows - 1 /\ LineFor(rs) = Rows - 1
      BY <2>1, <2>2, <2>3
    <3> QED BY <3>1, <3>2
  <2>4. CASE ~(n >= Rows)
    <3>1. ~full
      BY <1>3, <2>4
    <3>2. LineFor(rs) = n - 1 /\ LineFor(new) = n
      BY <2>1, <2>2, <2>4
    <3>3. LineFor(rs) + 1 = n
      BY <2>2, <3>2
    <3> QED BY <3>1, <3>2, <3>3
  <2> QED BY <2>3, <2>4
<1>5. DOMAIN g = DOMAIN fb
  BY DEF Scrolled
<1>6. ASSUME NEW i \in 0 .. virt_w - 1, NEW j \in 0 .. virt_h - 1
      PROVE  g[Pixel(i, j)] = Meant(new, i, j)
  <2> DEFINE s == IF n > Rows THEN n - Rows ELSE 0
             t == IF n + 1 > Rows THEN n + 1 - Rows ELSE 0
             u == i \div CHAR_W
             v == j \div CHAR_H
             a == i % CHAR_W
             b == j % CHAR_H
             y == v + 1 + t
  <2>1. i \in Nat /\ j \in Nat /\ virt_w \in Nat /\ virt_h \in Nat /\ i < virt_w /\ j < virt_h
    BY Sizes
  <2>2. u \in Nat /\ v \in Nat
    BY <1>2, <2>1, Quotient
  <2>3. Pixel(i, j) \in DOMAIN fb /\ Pixel(i, j) \div pitch = j /\ Pixel(i, j) % pitch = i
    BY PixelIs
  <2>4. Meant(new, i, j) = IF y <= n + 1 /\ u + 1 <= Len(new[y])
                           THEN <<new[y][u + 1], b, a>> ELSE Under(new, j)
    <3> DEFINE w == v + 1 + (IF Len(new) > Rows THEN Len(new) - Rows ELSE 0)
    <3>1. Meant(new, i, j) = IF w <= Len(new) /\ u + 1 <= Len(new[w])
                             THEN <<new[w][u + 1], b, a>> ELSE Under(new, j)
      BY DEF Meant
    <3>2. Len(new) = n + 1
      BY <1>1
    <3>3. n \in Nat /\ Rows \in Nat /\ v \in Nat
      BY <1>1, <1>2, <2>2
    <3> HIDE DEF new, n, v, Rows
    <3>4. w = y
      BY <3>2, <3>3
    <3> HIDE DEF w, y
    <3> QED BY <3>1, <3>2, <3>4
  <2>5. t \in Nat /\ y \in Nat \ {0}
    <3> HIDE DEF n, Rows, v
    <3> QED BY <1>1, <1>2, <2>2
  <2>9. Under(new, j) = Ground(j, t)
    <3>1. Len(new) = n + 1
      BY <1>1
    <3> HIDE DEF new, n
    <3>2. Gone(Len(new)) = t
      BY <1>1, <1>2, <3>1 DEF Gone
    <3>3. Under(new, j) = Ground(j, Gone(Len(new)))
      BY DEF Under
    <3> HIDE DEF t
    <3> QED BY <3>2, <3>3
  \* The new row is empty, and the others are what they were.
  <2>6. Meant(new, i, j) = IF y <= n /\ u + 1 <= Len(rs[y])
                           THEN <<rs[y][u + 1], b, a>> ELSE Under(new, j)
    <3>1. ~(u + 1 <= Len(<<>>))
      BY <2>2
    <3> HIDE DEF n, y, u, a, b, new
    <3>2. CASE y = n + 1
      BY <1>1, <2>4, <3>1, <3>2
    <3>3. CASE y # n + 1
      <4>1. y <= n + 1 <=> y <= n
        BY <1>1, <2>5, <3>3
      <4>2. y <= n => new[y] = rs[y]
        BY <1>1, <2>5
      <4> QED BY <2>4, <4>1, <4>2
    <3> QED BY <3>2, <3>3
  <2>7. CASE full
    <3>1. t = n + 1 - Rows /\ s = n - Rows
      <4> HIDE DEF n, Rows
      <4> QED BY <1>1, <1>2, <1>3, <2>7
    <3>2. g[Pixel(i, j)] = IF j < virt_h - CHAR_H THEN f[Pixel(i, j) + CHAR_H * pitch] ELSE Black
      <4>1. g = Scrolled(f) /\ Pixel(i, j) \in DOMAIN f
        BY <2>3, <2>7
      <4>2. ~(i >= virt_w)
        BY <2>1
      <4> HIDE DEF g
      <4> QED BY <2>3, <4>1, <4>2 DEF Scrolled
    <3>3. CASE j < virt_h - CHAR_H
      <4> DEFINE k == j + CHAR_H
      <4>1. k \in 0 .. virt_h - 1
        BY <1>2, <2>1, <3>3
      <4>2. k \div CHAR_H = v + 1 /\ k % CHAR_H = b
        BY <1>2, <2>1, LineBelow
      <4>3. Pixel(i, j) + CHAR_H * pitch = Pixel(i, k)
        <5>1. pitch \in Nat
          BY Sizes
        <5>2. (j + CHAR_H) * pitch = j * pitch + CHAR_H * pitch
          BY <1>2, <2>1, <5>1
        <5>3. j * pitch \in Nat /\ CHAR_H * pitch \in Nat
          BY <1>2, <2>1, <5>1
        <5>4. (j * pitch + i) + CHAR_H * pitch = (j * pitch + CHAR_H * pitch) + i
          BY <2>1, <5>3
        <5> QED BY <5>2, <5>4 DEF Pixel
      <4> HIDE DEF k
      <4>4. f[Pixel(i, k)] = Meant(rs, i, k)
        BY <4>1 DEF Shows
      <4>5. Meant(rs, i, k) = IF v + 1 + 1 + s <= n /\ u + 1 <= Len(rs[v + 1 + 1 + s])
                              THEN <<rs[v + 1 + 1 + s][u + 1], b, a>> ELSE Under(rs, k)
        BY <4>2 DEF Meant
      <4>6. v + 1 + 1 + s = y
        <5> HIDE DEF n, Rows, v, s, t
        <5> QED BY <1>1, <1>2, <2>2, <3>1
      <4>7. Under(rs, k) = Under(new, j)
        <5>1. Under(rs, k) = Ground(j + CHAR_H, s)
          BY DEF Under, Gone, k
        <5>2. (j + CHAR_H) + s * CHAR_H = j + t * CHAR_H
          <6>1. s \in Nat /\ t = s + 1
            <7> HIDE DEF n, Rows, s, t
            <7> QED BY <1>1, <1>2, <1>3, <2>7, <3>1
          <6> HIDE DEF s, t
          <6>2. t * CHAR_H = s * CHAR_H + CHAR_H /\ s * CHAR_H \in Nat
            BY <1>2, <6>1
          <6> HIDE DEF v, u, a, b, y, g, new
          <6> QED BY <1>2, <2>1, <6>2
        <5> QED BY <2>9, <5>1, <5>2 DEF Ground
      <4> QED BY <2>6, <3>2, <3>3, <4>3, <4>4, <4>5, <4>6, <4>7
    <3>4. CASE ~(j < virt_h - CHAR_H)
      <4>1. Rows <= v + 1
        BY <1>2, <2>1, <3>4, LastLines
      <4>2. ~(y <= n)
        <5> HIDE DEF n, Rows, v, t
        <5> QED BY <1>1, <1>2, <2>2, <3>1, <4>1
      <4>3. Under(new, j) = Black
        <5>1. t \in Nat \ {0}
          <6> HIDE DEF n, Rows, t
          <6> QED BY <1>1, <1>2, <1>3, <2>7, <3>1
        <5> HIDE DEF t, new
        <5>2. t * CHAR_H >= CHAR_H /\ t * CHAR_H \in Nat
          <6>1. (0 * CHAR_H) + CHAR_H <= t * CHAR_H
            BY <1>2, <5>1, RowsApart
          <6> QED BY <1>2, <5>1, <6>1
        <5>3. ~(j + t * CHAR_H < virt_h)
          BY <1>2, <2>1, <3>4, <5>2
        <5> QED BY <2>9, <5>3 DEF Ground
      <4> QED BY <2>6, <3>2, <3>4, <4>2, <4>3
    <3> QED BY <3>3, <3>4
  <2>8. CASE ~full
    <3>1. s = 0 /\ t = 0
      <4> HIDE DEF n, Rows
      <4> QED BY <1>1, <1>2, <1>3, <2>8
    <3>2. g[Pixel(i, j)] = Meant(rs, i, j)
      BY <2>8 DEF Shows
    <3>3. Meant(rs, i, j) = IF v + 1 + s <= n /\ u + 1 <= Len(rs[v + 1 + s])
                            THEN <<rs[v + 1 + s][u + 1], b, a>> ELSE Under(rs, j)
      BY DEF Meant
    <3>4. v + 1 + s = y
      BY <3>1
    <3>5. Under(rs, j) = Under(new, j)
      BY <2>9, <3>1 DEF Under, Gone
    <3> HIDE DEF g, new, n, s, t, u, v, a, b, y
    <3>6. Meant(rs, i, j) = IF y <= n /\ u + 1 <= Len(rs[y])
                            THEN <<rs[y][u + 1], b, a>> ELSE Under(rs, j)
      BY ONLY <3>3, <3>4
    <3>7. Meant(rs, i, j) = Meant(new, i, j)
      BY ONLY <2>6, <3>5, <3>6
    <3> QED BY ONLY <3>2, <3>7
  <2> QED BY <2>7, <2>8
<1> QED BY <1>1, <1>4, <1>5, <1>6 DEF Shows

\* The cursor stands behind the last row a terminal shows.
CursorIs ==
  /\ rows \in Seq(Seq(Chars)) /\ rows # <<>>
  /\ cur_x = Len(rows[Len(rows)]) /\ cur_x < Columns /\ cur_y = LineFor(rows)

ScreenInv ==
  /\ exchange \in {"resolution", "allocate", "pitch", "done", "failed"}
  /\ exchange \in {"resolution", "allocate", "pitch"} =>
       rows = <<<<>>>> /\ cur_x = 0 /\ cur_y = 0
  /\ exchange \in {"allocate", "pitch"} =>
       virt_w \in Nat /\ virt_h \in Nat /\ virt_w >= CHAR_W /\ virt_h >= CHAR_H
  /\ exchange = "pitch" => fb = [p \in 0 .. Pitch(M.display) * virt_h - 1 |-> Old]
  /\ exchange = "done" => Screened /\ CursorIs /\ Shows(fb, rows)

\* The steps of the display, and those that leave it alone.
LEMMA DisplaySteps ==
  ASSUME [Next]_vars
  PROVE  \/ UNCHANGED displayVars
         \/ fb_init(M.display) \/ Refused \/ FirmwareAnswers \/ OtherChannel
         \/ \E c \in Chars \cup {Newline} : console_putc(c)
<1>1. ASSUME FindSource \/ LoadRanges \/ EnableOutputs PROVE UNCHANGED displayVars
  BY <1>1 DEF FindSource, LoadRanges, EnableOutputs
<1>2. ASSUME NEW r, NEW b, NEW a, NEW s, Described(r, b, a, s) PROVE UNCHANGED displayVars
  BY <1>2 DEF Described
<1>3. ASSUME ReadTags \/ ReadTree \/ AssumeMachine PROVE UNCHANGED displayVars
  <2>1. CASE ReadTags
    BY <1>2, <2>1 DEF ReadTags
  <2>2. CASE ReadTree
    BY <1>2, <2>2 DEF ReadTree
  <2>3. CASE AssumeMachine
    BY <1>2, <2>3 DEF AssumeMachine
  <2> QED BY <1>3, <2>1, <2>2, <2>3
<1>4. ASSUME libfs_init \/ ReadMbr \/ EmptySlot \/ Misaligned \/ RegisterPartition
      PROVE  UNCHANGED displayVars
  BY <1>4 DEF libfs_init, ReadMbr, EmptySlot, Misaligned, RegisterPartition, Rests
<1>5. ASSUME TryName \/ NoConfig \/ ReadConfig \/ ReadLine \/ EndConfig \/ GuestOpens
      PROVE  UNCHANGED displayVars
  BY <1>5 DEF TryName, NoConfig, ReadConfig, ReadLine, EndConfig, GuestOpens
<1>6. ASSUME SetUpScreen PROVE fb_init(M.display) \/ Refused
  BY <1>6 DEF SetUpScreen
<1>7. ASSUME Firmware PROVE FirmwareAnswers \/ OtherChannel
  BY <1>7 DEF Firmware
<1>8. ASSUME NEW c \in Chars \cup {Newline}, split_putc(c) PROVE console_putc(c)
  BY <1>8 DEF split_putc
<1>9. ASSUME UNCHANGED vars PROVE UNCHANGED displayVars
  BY <1>9 DEF vars
<1> QED BY <1>1, <1>3, <1>4, <1>5, <1>6, <1>7, <1>8, <1>9 DEF Next, kernel_main

LEMMA DisplayKnown ==
  ASSUME MachineInv
  PROVE  LET d == M.display
         IN  /\ d.width \in Nat /\ d.height \in Nat /\ d.padding \in Nat
             /\ d.width = 0 \/ d.width >= CHAR_W
             /\ d.height = 0 \/ d.height >= CHAR_H
<1>1. machine \in DOMAIN Machines
  BY DEF MachineInv
<1> QED BY <1>1, StartupAssumption DEF M

\* Nothing has been printed on a new framebuffer, and nothing has scrolled away.
LEMMA EmptyScreen ==
  ASSUME Screened, \A p \in DOMAIN fb : fb[p] = Old
  PROVE  Shows(fb, <<<<>>>>)
<1>1. ASSUME NEW i \in 0 .. virt_w - 1, NEW j \in 0 .. virt_h - 1
      PROVE  fb[Pixel(i, j)] = Meant(<<<<>>>>, i, j)
  <2> DEFINE rs == <<<<>>>>
             y == j \div CHAR_H + 1 + (IF Len(rs) > Rows THEN Len(rs) - Rows ELSE 0)
             x == i \div CHAR_W + 1
  <2>1. i \in Nat /\ CHAR_W \in Nat \ {0} /\ j \in Nat /\ CHAR_H \in Nat \ {0} /\ Rows \in Nat \ {0}
    BY Sizes
  <2>2. i \div CHAR_W \in Nat /\ j \div CHAR_H \in Nat
    BY <2>1, Quotient
  <2>3. Len(rs) = 1 /\ rs[1] = <<>> /\ Len(<<>>) = 0
    OBVIOUS
  <2> HIDE DEF rs
  <2>4. y \in Nat \ {0} /\ x \in Nat \ {0}
    <3> HIDE DEF Rows
    <3> QED BY <2>1, <2>2, <2>3
  <2>5. Meant(rs, i, j) = IF y <= Len(rs) /\ x <= Len(rs[y])
                          THEN <<rs[y][x], j % CHAR_H, i % CHAR_W>> ELSE Under(rs, j)
    BY DEF Meant
  <2> HIDE DEF x, y
  <2>6. ~(y <= Len(rs) /\ x <= Len(rs[y]))
    BY <2>3, <2>4
  <2>7. fb[Pixel(i, j)] = Old
    BY PixelIs
  <2>8. Under(rs, j) = Old
    <3>1. Gone(Len(rs)) = 0
      <4> HIDE DEF Rows
      <4> QED BY <2>1, <2>3 DEF Gone
    <3>2. j + 0 * CHAR_H < virt_h
      BY <2>1, Sizes
    <3> QED BY <3>1, <3>2 DEF Under, Ground
  <2> QED BY <2>5, <2>6, <2>7, <2>8 DEF rs
<1> QED BY <1>1 DEF Shows

\* Where the sizes stay, what the console leaves behind is right when it is right now.
LEMMA ConsoleLeaves ==
  ASSUME UNCHANGED <<virt_w, virt_h, pitch, exchange>>, exchange = "done", Screened,
         NEW g, NEW new, fb' = g, rows' = new, DOMAIN g = DOMAIN fb, Shows(g, new),
         new \in Seq(Seq(Chars)), new # <<>>,
         cur_x' = Len(new[Len(new)]), cur_x' < Columns, cur_y' = LineFor(new)
  PROVE  ScreenInv'
<1>1. Screened'
  BY DEF Screened
<1>2. CursorIs'
  BY DEF CursorIs, Columns, LineFor, Rows
<1>3. Shows(fb, rows)'
  BY DEF Shows, Meant, Under, Gone, Ground, Pixel, Rows
<1>4. exchange' = "done"
  OBVIOUS
<1> QED BY <1>1, <1>2, <1>3, <1>4 DEF ScreenInv

LEMMA PutIs ==
  ASSUME NEW rs \in Seq(Seq(Chars)), rs # <<>>, NEW c \in Chars \cup {Newline}
  PROVE  Put(rs, c) = IF c = Newline THEN Append(rs, <<>>)
                      ELSE IF Len(rs[Len(rs)]) + 1 = Columns THEN Append(Longer(rs, c), <<>>)
                      ELSE Longer(rs, c)
BY DEF Put, Longer

LEMMA ConsolePrints ==
  ASSUME ScreenInv, NEW c \in Chars \cup {Newline}, console_putc(c)
  PROVE  ScreenInv'
<1> DEFINE n == Len(rows)
           cx == Len(rows[n])
           long == Longer(rows, c)
           drawn == draw_char(c, cx, LineFor(rows), fb)
<1>1. /\ exchange = "done" /\ UNCHANGED <<virt_w, virt_h, pitch, exchange>>
      /\ rows' = Put(rows, c)
  BY DEF console_putc
<1>2. Screened /\ CursorIs /\ Shows(fb, rows)
  BY <1>1 DEF ScreenInv
<1>3. /\ rows \in Seq(Seq(Chars)) /\ rows # <<>>
      /\ cur_x = cx /\ cx < Columns /\ cur_y = LineFor(rows)
  BY <1>2 DEF CursorIs
<1>4. Columns \in Nat \ {0} /\ Rows \in Nat \ {0}
  BY <1>2, Sizes
<1>5. Len(<<>>) = 0 /\ 0 < Columns
  BY <1>4
<1>6. CASE c = Newline
  <2> DEFINE new == Append(rows, <<>>)
             full == LineFor(rows) + 1 = Rows
             g == IF full THEN Scrolled(fb) ELSE fb
  <2>1. rows' = new
    BY <1>1, <1>3, <1>6, PutIs
  <2>2. newline(fb)
    BY <1>6, DisplayAssumption DEF console_putc
  <2>3. /\ new \in Seq(Seq(Chars)) /\ new # <<>> /\ new[Len(new)] = <<>>
        /\ LineFor(new) = IF full THEN LineFor(rows) ELSE LineFor(rows) + 1
        /\ DOMAIN g = DOMAIN fb /\ Shows(g, new)
    BY <1>2, <1>3, NewlineShows
  <2>4. fb' = g /\ cur_x' = 0 /\ cur_y' = IF full THEN LineFor(rows) ELSE LineFor(rows) + 1
    BY <1>3, <2>2 DEF newline
  <2> HIDE DEF new, g, full
  <2>5. cur_x' = Len(new[Len(new)]) /\ cur_x' < Columns /\ cur_y' = LineFor(new)
    BY <1>5, <2>3, <2>4
  <2> QED BY <1>1, <1>2, <2>1, <2>3, <2>4, <2>5, ConsoleLeaves
<1>7. CASE c # Newline
  <2>1. c \in Chars
    BY <1>7
  <2>2. DOMAIN drawn = DOMAIN fb /\ Shows(drawn, long)
    BY <1>2, <1>3, <2>1, DrawShows
  <2>3. /\ n \in Nat \ {0} /\ rows[n] \in Seq(Chars) /\ cx \in Nat
        /\ long \in Seq(Seq(Chars)) /\ Len(long) = n /\ long # <<>>
        /\ long[n] = Append(rows[n], c)
    BY <1>3, <2>1, LongerIs
  <2>4. LineFor(long) = LineFor(rows)
    BY <2>3 DEF LineFor
  <2>5. CASE LineFull
    <3> DEFINE new == Append(long, <<>>)
               full == LineFor(long) + 1 = Rows
               g == IF full THEN Scrolled(drawn) ELSE drawn
    <3>1. rows' = new
      BY <1>1, <1>3, <1>7, <2>5, PutIs DEF LineFull
    <3>2. newline(drawn)
      BY <1>3, <1>7, <2>5 DEF console_putc
    <3>3. /\ new \in Seq(Seq(Chars)) /\ new # <<>> /\ new[Len(new)] = <<>>
          /\ LineFor(new) = IF full THEN LineFor(long) ELSE LineFor(long) + 1
          /\ DOMAIN g = DOMAIN fb /\ Shows(g, new)
      BY <1>2, <2>2, <2>3, NewlineShows
    <3>4. fb' = g /\ cur_x' = 0 /\ cur_y' = IF full THEN LineFor(long) ELSE LineFor(long) + 1
      BY <1>3, <2>4, <3>2 DEF newline
    <3> HIDE DEF new, g, full
    <3>5. cur_x' = Len(new[Len(new)]) /\ cur_x' < Columns /\ cur_y' = LineFor(new)
      BY <1>5, <3>3, <3>4
    <3> QED BY <1>1, <1>2, <3>1, <3>3, <3>4, <3>5, ConsoleLeaves
  <2>6. CASE ~LineFull
    <3>1. rows' = long
      BY <1>1, <1>3, <1>7, <2>6, PutIs DEF LineFull
    <3>2. fb' = drawn /\ cur_x' = cx + 1 /\ cur_y' = LineFor(rows)
      BY <1>3, <1>7, <2>6 DEF console_putc
    <3>3. Len(long[Len(long)]) = cx + 1
      <4> DEFINE last == rows[n]
      <4>1. last \in Seq(Chars) /\ cx = Len(last) /\ long[Len(long)] = Append(last, c)
        BY <2>3
      <4> HIDE DEF last, n, long, cx
      <4> QED BY <2>1, <4>1, AppendProperties
    <3>4. cx + 1 < Columns
      <4>1. cx + 1 # Columns
        BY <1>3, <2>6 DEF LineFull
      <4> HIDE DEF cx, Columns
      <4> QED BY <1>3, <1>4, <2>3, <4>1
    <3> HIDE DEF drawn, long, cx
    <3>5. cur_x' = Len(long[Len(long)]) /\ cur_x' < Columns /\ cur_y' = LineFor(long)
      BY <2>4, <3>2, <3>3, <3>4
    <3> QED BY <1>1, <1>2, <2>2, <2>3, <3>1, <3>2, <3>5, ConsoleLeaves
  <2> QED BY <2>5, <2>6
<1> QED BY <1>6, <1>7

\* The same of the state behind a step.
LEMMA EmptyScreenBehind ==
  (Screened /\ (\A p \in DOMAIN fb : fb[p] = Old) => Shows(fb, <<<<>>>>))'
<1>1. Screened /\ (\A p \in DOMAIN fb : fb[p] = Old) => Shows(fb, <<<<>>>>)
  BY EmptyScreen
<1> QED BY <1>1, PTL

LEMMA SizesBehind == (Screened => Columns \in Nat \ {0} /\ Rows \in Nat \ {0})'
<1>1. Screened => Columns \in Nat \ {0} /\ Rows \in Nat \ {0}
  BY Sizes
<1> QED BY <1>1, PTL

LEMMA FramebufferStep ==
  ASSUME MachineInv, ScreenInv, fb_init(M.display), machine' = machine
  PROVE  ScreenInv'
<1> DEFINE d == M.display
<1>1. /\ d.width \in Nat /\ d.height \in Nat /\ d.padding \in Nat
      /\ d.width = 0 \/ d.width >= CHAR_W
      /\ d.height = 0 \/ d.height >= CHAR_H
  BY DisplayKnown
<1>2. M' = M
  BY DEF M
<1> HIDE DEF d
<1>3. /\ CHAR_W \in Nat \ {0} /\ CHAR_H \in Nat \ {0} /\ WIDTH \in Nat /\ HEIGHT \in Nat
      /\ WIDTH >= CHAR_W /\ HEIGHT >= CHAR_H
  BY DisplayAssumption, StartupAssumption
<1>4. CASE mbox_write \/ PassOver
  <2>1. exchange \in {"resolution", "allocate", "pitch"} /\ UNCHANGED <<exchange, screen, cursor>>
    BY <1>4 DEF mbox_write, PassOver, Exchanging
  <2> QED BY <1>2, <2>1 DEF ScreenInv, screen, cursor, Pitch
<1>5. CASE GetResolution(d)
  <2>1. exchange = "resolution" /\ UNCHANGED <<fb, cursor>> /\ exchange' \in {"allocate", "failed"}
    BY <1>5 DEF GetResolution, Answered, HasRead, screen
  <2>2. exchange' = "allocate" =>
          /\ virt_w' \in Nat /\ virt_h' \in Nat /\ virt_w' >= CHAR_W /\ virt_h' >= CHAR_H
    BY <1>1, <1>3, <1>5 DEF GetResolution
  <2> QED BY <2>1, <2>2 DEF ScreenInv, cursor
<1>6. CASE AllocateBuffer(d)
  <2>1. /\ exchange = "allocate" /\ exchange' = "pitch" /\ UNCHANGED <<virt_w, virt_h, cursor>>
        /\ fb' = [p \in 0 .. Pitch(d) * virt_h - 1 |-> Old]
    BY <1>6 DEF AllocateBuffer, Answered, HasRead
  <2>2. fb' = [p \in 0 .. Pitch(M'.display) * virt_h - 1 |-> Old]
    BY <1>2, <2>1 DEF d
  <2> QED BY <2>1, <2>2 DEF ScreenInv, cursor, Pitch
<1>7. CASE GetPitch(d)
  <2>1. /\ exchange = "pitch" /\ exchange' = "done" /\ UNCHANGED <<virt_w, virt_h, fb, cursor>>
        /\ pitch' = Pitch(d)
    BY <1>7 DEF GetPitch, Answered, HasRead
  <2>2. /\ virt_w \in Nat /\ virt_h \in Nat /\ virt_w >= CHAR_W /\ virt_h >= CHAR_H
        /\ fb = [p \in 0 .. Pitch(d) * virt_h - 1 |-> Old]
        /\ rows = <<<<>>>> /\ cur_x = 0 /\ cur_y = 0
    BY <2>1 DEF ScreenInv, d
  <2>3. Pitch(d) \in Nat /\ Pitch(d) >= virt_w
    <3>1. Pitch(d) = virt_w + d.padding
      BY DEF Pitch
    <3> DEFINE padding == d.padding
    <3>2. padding \in Nat /\ virt_w \in Nat
      BY <1>1, <2>2
    <3> HIDE DEF padding
    <3>3. virt_w + padding \in Nat /\ virt_w + padding >= virt_w
      BY <3>2
    <3> QED BY <3>1, <3>3 DEF padding
  <2>4. Screened'
    BY <2>1, <2>2, <2>3 DEF Screened
  <2>5. \A p \in DOMAIN fb' : fb'[p] = Old
    BY <2>1, <2>2
  <2>6. Shows(fb, <<<<>>>>)'
    BY <2>4, <2>5, EmptyScreenBehind
  <2>7. rows' = <<<<>>>> /\ cur_x' = 0 /\ cur_y' = 0
    BY <2>1, <2>2 DEF cursor
  <2>8. Shows(fb, rows)'
    BY <2>6, <2>7
  <2>9. CursorIs'
    <3>1. Columns' \in Nat \ {0} /\ Rows' \in Nat \ {0}
      BY <2>4, SizesBehind
    <3>2. rows' \in Seq(Seq(Chars)) /\ rows' # <<>> /\ Len(rows') = 1 /\ rows'[1] = <<>>
      BY <2>7
    <3>3. LineFor(rows)' = 0
      BY <3>1, <3>2 DEF LineFor
    <3> QED BY <2>7, <3>1, <3>2, <3>3 DEF CursorIs
  <2> QED BY <2>1, <2>4, <2>8, <2>9 DEF ScreenInv
<1> QED BY <1>4, <1>5, <1>6, <1>7 DEF fb_init, d

LEMMA ScreenStep ==
  ASSUME MachineInv, ScreenInv, [Next]_vars
  PROVE  ScreenInv'
<1>1. machine' = machine /\ M' = M
  BY MachineStays DEF M
<1>2. ASSUME UNCHANGED <<exchange, screen, cursor>> PROVE ScreenInv'
  BY <1>1, <1>2
  DEF ScreenInv, Screened, CursorIs, Shows, Meant, Under, Gone, Ground, Pixel, Columns, Rows,
      LineFor, Pitch, screen, cursor
<1>3. CASE UNCHANGED displayVars
  BY <1>2, <1>3 DEF displayVars
<1>4. CASE FirmwareAnswers \/ OtherChannel
  BY <1>2, <1>4 DEF FirmwareAnswers, OtherChannel
<1>5. CASE Refused
  BY <1>5 DEF Refused, ScreenInv
<1>6. CASE fb_init(M.display)
  BY <1>1, <1>6, FramebufferStep
<1>7. CASE \E c \in Chars \cup {Newline} : console_putc(c)
  BY <1>7, ConsolePrints
<1> QED BY <1>3, <1>4, <1>5, <1>6, <1>7, DisplaySteps

\* Whatever is printed, however long it is and wherever its lines end, every pixel that is
\* set is in the framebuffer, and the screen shows the last rows of a terminal of its
\* width: for every font, resolution and pitch (console.c:84-159, fb.c:56-205).
THEOREM ScreenIsRight == Spec => []ScreenRight
<1>1. Init => ScreenInv
  BY DEF Init, DisplayInit, ScreenInv
<1>2. MachineInv /\ ScreenInv /\ [Next]_vars => ScreenInv'
  BY ScreenStep
<1>3. ASSUME ScreenInv PROVE ScreenRight
  <2>1. ASSUME exchange = "done" PROVE Glyph(cur_x, cur_y) \subseteq DOMAIN fb
    <3>1. Screened /\ CursorIs
      BY <1>3, <2>1 DEF ScreenInv
    <3>2. cur_y \in 0 .. Rows - 1
      BY <3>1, LineInside DEF CursorIs
    <3>3. cur_x \in Nat
      <4> DEFINE n == Len(rows)
      <4>1. n \in 1 .. n /\ DOMAIN rows = 1 .. n /\ rows \in Seq(Seq(Chars)) /\ cur_x = Len(rows[n])
        BY <3>1 DEF CursorIs
      <4> HIDE DEF n
      <4>2. rows[n] \in Seq(Chars)
        BY <4>1
      <4> QED BY <4>1, <4>2
    <3>4. Columns \in Nat /\ cur_x < Columns
      BY <3>1, Sizes DEF CursorIs
    <3>5. cur_x \in 0 .. Columns - 1
      <4> HIDE DEF Columns
      <4> QED BY <3>3, <3>4
    <3> QED BY <3>1, <3>2, <3>5, GlyphInside
  <2>2. ASSUME exchange = "done", NEW i \in 0 .. virt_w - 1, NEW j \in 0 .. virt_h - 1
        PROVE  fb[j * pitch + i] = Expected(i, j)
    <3>1. Shows(fb, rows)
      BY <1>3, <2>2 DEF ScreenInv
    <3>2. fb[Pixel(i, j)] = Meant(rows, i, j)
      BY <3>1 DEF Shows
    <3>3. Meant(rows, i, j) = Expected(i, j)
      BY DEF Meant, Expected, Under, Gone
    <3> QED BY <3>2, <3>3 DEF Pixel
  <2> QED BY <2>1, <2>2 DEF ScreenRight, DrawsInside, ShowsText
<1> QED BY <1>1, <1>2, <1>3, MachineHolds, PTL DEF Spec
================================================================================
