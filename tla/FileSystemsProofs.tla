--------------------------- MODULE FileSystemsProofs ---------------------------
(***************************************************************************)
(* The safety theorems of FileSystems: for every path, every sequence of   *)
(* calls, and every volume on which the files are as its maker says, on a  *)
(* reliable device and on one that may fail any read.                      *)
(***************************************************************************)
EXTENDS FileSystems, FiniteSetTheorems, FunctionTheorems, TLAPS

Offset == 0 .. BlockSize - 1

(***************************************************************************)
(* Numbers and sequences.                                                  *)
(***************************************************************************)

\* Division with a remainder.
LEMMA Division ==
  ASSUME NEW d \in Nat \ {0}, NEW n \in Int
  PROVE  /\ n \div d \in Int /\ n % d \in 0 .. d - 1
         /\ n = (n \div d) * d + (n % d)
  OBVIOUS

\* Multiples are ordered as what they are multiples of.
LEMMA Multiples ==
  ASSUME NEW d \in Nat \ {0}, NEW a \in Int, NEW b \in Int, a < b
  PROVE  a * d + d <= b * d /\ a * d \in Int /\ b * d \in Int
  OBVIOUS

\* There is one quotient and one remainder.
LEMMA DivisionIsUnique ==
  ASSUME NEW d \in Nat \ {0}, NEW q \in Int, NEW r \in 0 .. d - 1
  PROVE  (q * d + r) \div d = q /\ (q * d + r) % d = r
  OBVIOUS

\* Blocks divide the numbers: an unsigned number lies at the same offset of its block
\* as the number it stands for.
LEMMA Aligned ==
  ASSUME NEW p \in Int
  PROVE  /\ (p % Word) \div BlockSize \in Nat /\ p % BlockSize \in Offset
         /\ ((p % Word) \div BlockSize) * BlockSize + (p % BlockSize) = p % Word
<1> DEFINE r == p % Word
           q == p \div Word
           k == Word \div BlockSize
           b == r \div BlockSize
           i == r % BlockSize
<1>1. Word \in Nat \ {0} /\ BlockSize \in Nat \ {0} /\ Word % BlockSize = 0
  BY StreamAssumption
<1>2. q \in Int /\ r \in 0 .. Word - 1 /\ p = q * Word + r
  BY <1>1, Division
<1>3. b \in Int /\ i \in 0 .. BlockSize - 1 /\ r = b * BlockSize + i
  BY <1>1, <1>2, Division
<1>4. k \in Int /\ Word = k * BlockSize + 0
  BY <1>1, Division
<1> HIDE DEF r, q, k, b, i
<1>5. p = (q * k + b) * BlockSize + i /\ q * k + b \in Int
  BY <1>1, <1>2, <1>3, <1>4
<1>6. p % BlockSize = i
  <2> DEFINE c == q * k + b
  <2>1. c \in Int /\ p = c * BlockSize + i
    BY <1>5
  <2> HIDE DEF c
  <2>2. QED
    BY <1>1, <1>3, <2>1, DivisionIsUnique
<1>7. b >= 0
  <2>1. b < 0 => b * BlockSize + BlockSize <= 0 * BlockSize
    BY <1>1, <1>3, Multiples
  <2>2. b * BlockSize \in Int
    BY <1>1, <1>3
  <2>3. QED
    BY <1>1, <1>2, <1>3, <2>1, <2>2
<1>8. QED
  BY <1>3, <1>6, <1>7 DEF r, b, Offset

\* Small numbers do not wrap, and larger ones become smaller.
LEMMA NoWrap ==
  ASSUME NEW p \in Nat
  PROVE  p % Word <= p /\ (p < Word => p % Word = p)
<1>1. Word \in Nat \ {0}
  BY StreamAssumption
<1>2. p \div Word \in Int /\ p % Word \in 0 .. Word - 1 /\ p = (p \div Word) * Word + (p % Word)
  BY <1>1, Division
<1>3. p \div Word < 0 => (p \div Word) * Word + Word <= 0 * Word
  BY <1>1, <1>2, Multiples
<1>4. 0 < p \div Word => 0 * Word + Word <= (p \div Word) * Word
  BY <1>1, <1>2, Multiples
<1> DEFINE q == p \div Word
           r == p % Word
<1> HIDE DEF q, r
<1>5. q \in Int /\ r \in 0 .. Word - 1 /\ p = q * Word + r
  BY <1>2 DEF q, r
<1>6. q * Word \in Int
  BY <1>1, <1>5
<1>7. q < 0 => q * Word + Word <= 0
  BY <1>1, <1>3 DEF q
<1>8. 0 < q => Word <= q * Word
  BY <1>1, <1>4 DEF q
<1>9. q >= 0
  BY <1>1, <1>5, <1>6, <1>7
<1>10. q = 0 \/ 0 < q
  BY <1>5, <1>9
<1>11. r <= p /\ (p < Word => r = p)
  <2>1. CASE q = 0
    BY <1>1, <1>5, <2>1
  <2>2. CASE 0 < q
    <3> DEFINE m == q * Word
    <3>1. m \in Int /\ p = m + r /\ Word <= m
      BY <1>5, <1>6, <1>8, <2>2
    <3> HIDE DEF m
    <3>2. QED
      BY <1>1, <1>5, <3>1
  <2>3. QED
    BY <1>10, <2>1, <2>2
<1>12. QED
  BY <1>11 DEF r

\* Whole members are no more than all bytes.
LEMMA WholeMembers ==
  ASSUME NEW size \in Nat \ {0}, NEW n \in Nat
  PROVE  Whole(size, n) \in 0 .. n
<1> DEFINE q == n \div size
           r == n % size
<1>1. q \in Int /\ r \in 0 .. size - 1 /\ n = q * size + r
  BY Division
<1>2. Whole(size, n) = q * size
  BY DEF Whole
<1> HIDE DEF q, r
<1>3. q * size \in Int
  BY <1>1
<1>4. q < 0 => q * size + size <= 0 * size
  BY <1>1, Multiples
<1>5. q >= 0
  <2> DEFINE m == q * size
  <2>1. m \in Int /\ n = m + r /\ (q < 0 => m + size <= 0)
    BY <1>1, <1>3, <1>4
  <2> HIDE DEF m
  <2>2. QED
    BY <1>1, <2>1
<1>6. 0 <= q * size
  <2>1. 0 < q => 0 * size + size <= q * size
    BY <1>1, Multiples
  <2>2. q = 0 => q * size = 0
    BY <1>1
  <2>3. QED
    BY <1>1, <1>3, <1>5, <2>1, <2>2
<1>7. q * size <= n
  BY <1>1, <1>3
<1>8. QED
  BY <1>2, <1>3, <1>6, <1>7

\* The position before the file wraps, any other is the number it stands for.
LEMMA Unsigned ==
  ASSUME NEW p \in -1 .. Word - 1
  PROVE  p % Word = IF p = -1 THEN Word - 1 ELSE p
<1>1. Word \in Nat \ {0}
  BY StreamAssumption
<1>2. CASE p = -1
  <2> DEFINE q == -1
             r == Word - 1
  <2>1. q \in Int /\ r \in 0 .. Word - 1 /\ q * Word + r = p
    BY <1>1, <1>2
  <2> HIDE DEF q, r
  <2>2. (q * Word + r) % Word = r
    BY <1>1, <2>1, DivisionIsUnique
  <2>3. QED
    BY <1>2, <2>1, <2>2 DEF r
<1>3. CASE p # -1
  BY <1>1, <1>3, NoWrap
<1>4. QED
  BY <1>2, <1>3

\* A function of the numbers from 1 is a sequence.
LEMMA SequenceOf ==
  ASSUME NEW S, NEW m \in Nat, NEW f \in [1 .. m -> S]
  PROVE  f \in Seq(S) /\ Len(f) = m
  OBVIOUS

\* An element of a sequence.
LEMMA ElementOf ==
  ASSUME NEW S, NEW s \in Seq(S), NEW m \in 1 .. Len(s)
  PROVE  s[m] \in S
  OBVIOUS

\* A sequence has its elements, and one of sequences behind each other those of both.
LEMMA Concatenated ==
  ASSUME NEW S, NEW s \in Seq(S), NEW u \in Seq(S)
  PROVE  /\ s \o u \in Seq(S) /\ Len(s \o u) = Len(s) + Len(u)
         /\ \A i \in 1 .. Len(s) : (s \o u)[i] = s[i]
         /\ \A i \in 1 .. Len(u) : (s \o u)[Len(s) + i] = u[i]
<1>1. /\ s \o u \in Seq(S) /\ Len(s \o u) = Len(s) + Len(u) /\ Len(s) \in Nat /\ Len(u) \in Nat
      /\ \A i \in 1 .. Len(s) : (s \o u)[i] = s[i]
      /\ \A i \in Len(s) + 1 .. Len(s) + Len(u) : (s \o u)[i] = u[i - Len(s)]
  OBVIOUS
<1>2. ASSUME NEW i \in 1 .. Len(u) PROVE (s \o u)[Len(s) + i] = u[i]
  <2>1. Len(s) + i \in Len(s) + 1 .. Len(s) + Len(u) /\ (Len(s) + i) - Len(s) = i
    BY <1>1
  <2>2. QED
    BY <1>1, <2>1
<1>3. QED
  BY <1>1, <1>2

\* A part of a sequence, and what is left of it behind its first element.
LEMMA PartOf ==
  ASSUME NEW S, NEW s \in Seq(S), NEW k \in Nat, NEW n \in Nat, k <= n, n <= Len(s)
  PROVE  /\ SubSeq(s, k + 1, n) \in Seq(S) /\ Len(SubSeq(s, k + 1, n)) = n - k
         /\ \A i \in 1 .. n - k : SubSeq(s, k + 1, n)[i] = s[k + i]
         /\ k < n => /\ Head(SubSeq(s, k + 1, n)) = s[k + 1]
                     /\ Tail(SubSeq(s, k + 1, n)) = SubSeq(s, k + 2, n)
  OBVIOUS

\* The first elements of a sequence.
LEMMA Prefix ==
  ASSUME NEW S, NEW s \in Seq(S), NEW n \in Nat, n <= Len(s)
  PROVE  /\ SubSeq(s, 1, n) \in Seq(S) /\ Len(SubSeq(s, 1, n)) = n
         /\ \A i \in 1 .. n : SubSeq(s, 1, n)[i] = s[i]
  OBVIOUS

Below == {ss \in Nat \X Nat : ss[1] < ss[2]}

\* There is a least number in a set.
LEMMA BelowWF == IsWellFoundedOn(Below, Nat)
BY NatLessThanWellFounded DEF OpToRel, Below

LEMMA Least ==
  ASSUME NEW T \in SUBSET Nat, T # {}
  PROVE  \E m \in T : \A k \in T : m <= k
<1>1. \E m \in T : \A k \in T : ~(<<k, m>> \in Below)
  BY BelowWF, WFMin
<1>2. \A k, m \in T : ~(<<k, m>> \in Below) => m <= k
  BY DEF Below
<1>3. QED
  BY <1>1, <1>2


(***************************************************************************)
(* The passes of a read.                                                   *)
(***************************************************************************)

\* The passes of a call begin at its position, unless that is behind its end.
LEMMA PassesBegin ==
  ASSUME NEW p \in Int, NEW n \in Nat, BeginPasses(p, n, <<>>)
  PROVE  /\ pass' \in PassTypes
         /\ PassesFrom' = p % Word /\ PassesUpto' = (p + n) % Word
         /\ pass'.buf = <<>> /\ pass'.total = 0
         /\ pass'.first \in Nat /\ pass'.last \in Nat
         /\ pass'.from = p % BlockSize /\ pass'.upto \in Offset
         /\ pass'.over => PassesUpto' < PassesFrom'
         /\ ~pass'.over => pass'.cur \in pass'.first .. pass'.last
         /\ Reached' = PassesFrom'
<1> DEFINE f == (p % Word) \div BlockSize
           l == ((p + n) % Word) \div BlockSize
           i == p % BlockSize
           j == (p + n) % BlockSize
<1>1. BlockSize \in Nat \ {0} /\ p + n \in Int
  BY StreamAssumption
<1>2. f \in Nat /\ i \in Offset /\ f * BlockSize + i = p % Word
  BY Aligned
<1>3. l \in Nat /\ j \in Offset /\ l * BlockSize + j = (p + n) % Word
  BY <1>1, Aligned
<1>4. pass' = [cur |-> f, first |-> f, from |-> i, last |-> l, upto |-> j, buf |-> <<>>,
               total |-> 0, over |-> f > l, failed |-> FALSE]
  BY DEF BeginPasses, ByteRange
<1>5. pass'.from = p % BlockSize
  BY <1>4
<1> HIDE DEF f, l, i, j
<1>6. (f > l) \in BOOLEAN
  OBVIOUS
<1>7. <<>> \in Seq(Int)
  OBVIOUS
<1>8. pass' \in PassTypes
  BY <1>2, <1>3, <1>4, <1>6, <1>7 DEF PassTypes, Offset
<1>9. /\ PassesFrom' = f * BlockSize + i /\ PassesUpto' = l * BlockSize + j
      /\ Reached' = PassesFrom'
  BY <1>4 DEF PassesFrom, PassesUpto, Reached
<1>10. f > l => l * BlockSize + j < f * BlockSize + i
  <2>1. f > l => l * BlockSize + BlockSize <= f * BlockSize
    BY <1>1, <1>2, <1>3, Multiples
  <2>2. l * BlockSize \in Int /\ f * BlockSize \in Int
    BY <1>1, <1>2, <1>3
  <2>3. QED
    BY <1>1, <1>2, <1>3, <2>1, <2>2 DEF Offset
<1>11. pass'.over => PassesUpto' < PassesFrom'
  BY <1>4, <1>9, <1>10
<1>12. ~pass'.over => pass'.cur \in pass'.first .. pass'.last
  <2>1. pass'.cur = f /\ pass'.first = f /\ pass'.last = l
    BY <1>4
  <2>2. ~pass'.over => ~(f > l)
    BY <1>4
  <2>3. QED
    BY <1>2, <1>3, <2>1, <2>2
<1>13. /\ pass'.buf = <<>> /\ pass'.total = 0
       /\ pass'.first \in Nat /\ pass'.last \in Nat /\ pass'.upto \in Offset
  BY <1>2, <1>3, <1>4
<1>14. PassesFrom' = p % Word /\ PassesUpto' = (p + n) % Word
  BY <1>2, <1>3, <1>9
<1>15. QED
  BY <1>5, <1>8, <1>9, <1>11, <1>12, <1>13, <1>14

\* The bytes of one pass.
Moves == Transferred(BlockSize)

\* A pass is made in one block, and is within the range of the call.
LEMMA PassFacts ==
  ASSUME pass \in PassTypes, pass.cur \in pass.first .. pass.last
  PROVE  /\ Reached = pass.cur * BlockSize + Segment.from
         /\ Segment.from \in Offset /\ Segment.upto \in 0 .. BlockSize
         /\ PassesFrom \in Nat /\ PassesFrom <= Reached /\ Reached \in Nat
         /\ PassesUpto \in Nat /\ Moves \in 0 .. BlockSize
         /\ Segment.from + Moves <= BlockSize
         /\ Transferred(-1) = IF WholeBlock THEN -1 ELSE Moves
         /\ WholeBlock => Moves = BlockSize
         /\ pass.cur < pass.last => Reached + Moves = (pass.cur + 1) * BlockSize
         /\ PassesFrom <= PassesUpto =>
              /\ Reached + Moves <= PassesUpto
              /\ pass.cur = pass.last => Reached + Moves = PassesUpto
         /\ pass.first = pass.last /\ pass.from = BlockSize - 1 => Moves = 0
<1> DEFINE B == BlockSize
           c == pass.cur
           f == pass.first
           l == pass.last
           fb == f * B
           cb == c * B
           lb == l * B
           nb == (c + 1) * B
           a == pass.from
           z == pass.upto
<1>1. B \in Nat \ {0}
  BY StreamAssumption
<1>2. a \in 0 .. B - 1 /\ z \in 0 .. B - 1 /\ c \in Nat /\ f \in Nat /\ l \in Nat /\ c \in f .. l
  BY DEF PassTypes
<1>3. fb \in Nat /\ cb \in Nat /\ lb \in Nat /\ nb \in Nat /\ nb = cb + B
  <2>1. \A k \in Nat : k * B \in Nat
    BY <1>1
  <2>2. nb = cb + B
    BY <1>1, <1>2
  <2>3. c + 1 \in Nat
    BY <1>2
  <2>4. QED
    BY <1>2, <2>1, <2>2, <2>3
<1>4. /\ f < c => fb + B <= cb
      /\ c < l => cb + B <= lb
  <2>1. \A m, n \in Nat : m < n => m * B + B <= n * B
    BY <1>1, Multiples
  <2>2. f < c => f * B + B <= c * B
    BY <1>2, <2>1
  <2>3. c < l => c * B + B <= l * B
    BY <1>2, <2>1
  <2>4. QED
    BY <2>2, <2>3
<1>5. f = c => fb = cb
  OBVIOUS
<1>6. c = l => cb = lb
  OBVIOUS
<1> HIDE DEF fb, cb, lb, nb
<1>7. /\ PassesFrom = fb + a /\ PassesUpto = lb + z
      /\ Reached = IF c = f THEN fb + a ELSE cb
  BY DEF PassesFrom, PassesUpto, Reached, fb, lb, cb
<1> DEFINE i == Segment.from
           j == Segment.upto
<1>8. /\ i = IF c = f THEN a ELSE 0
      /\ j = IF c = l THEN z ELSE B
  BY DEF Segment
<1>9. WholeBlock <=> i = 0 /\ j = B
  BY DEF WholeBlock
<1>10. /\ Transferred(B) = IF WholeBlock THEN B ELSE
            LET upto == IF B < 0 THEN j ELSE Smaller(B, j) IN
            IF upto < i THEN 0 ELSE upto - i
       /\ Transferred(-1) = IF WholeBlock THEN -1 ELSE
            LET upto == IF -1 < 0 THEN j ELSE Smaller(-1, j) IN
            IF upto < i THEN 0 ELSE upto - i
  BY DEF Transferred
<1> HIDE DEF i, j, a, z, c, f, l, B
<1>11. i \in 0 .. B - 1 /\ j \in 0 .. B
  BY <1>1, <1>2, <1>8
<1>12. Smaller(B, j) = j /\ ~(B < 0)
  BY <1>1, <1>11 DEF Smaller
<1>13. Moves = IF j < i THEN 0 ELSE j - i
  BY <1>1, <1>9, <1>10, <1>11, <1>12 DEF Moves, B
<1>14. Moves \in 0 .. B /\ i + Moves <= B
  BY <1>1, <1>11, <1>13
<1>15. Transferred(-1) = IF WholeBlock THEN -1 ELSE Moves
  BY <1>10, <1>13
<1>16. WholeBlock => Moves = B
  BY <1>1, <1>9, <1>11, <1>13
<1>17. Reached = cb + i /\ fb + a <= Reached
  BY <1>1, <1>2, <1>3, <1>4, <1>5, <1>7, <1>8
<1>18. PassesFrom \in Nat /\ PassesUpto \in Nat /\ Reached \in Nat /\ PassesFrom <= Reached
  BY <1>1, <1>2, <1>3, <1>7, <1>11, <1>17
<1>19. c < l => Reached + Moves = nb
  BY <1>1, <1>2, <1>3, <1>8, <1>11, <1>13, <1>17
<1>20. c < l => Reached + Moves <= PassesUpto
  BY <1>1, <1>2, <1>3, <1>4, <1>7, <1>19
<1>21. PassesFrom <= PassesUpto /\ c = l => Reached + Moves = PassesUpto
  <2>1. ASSUME c = l, PassesFrom <= PassesUpto PROVE Reached + Moves = PassesUpto
    <3>1. j = z /\ PassesUpto = cb + z /\ Reached = cb + i
      BY <1>6, <1>7, <1>8, <1>17, <2>1
    <3>2. i <= j
      <4>1. CASE c = f
        BY <1>2, <1>3, <1>5, <1>7, <1>8, <2>1, <3>1, <4>1
      <4>2. CASE c # f
        BY <1>8, <1>11, <4>2
      <4>3. QED
        BY <4>1, <4>2
    <3>3. QED
      BY <1>3, <1>11, <1>13, <3>1, <3>2
  <2>2. QED
    BY <2>1
<1>22. f = l /\ a = B - 1 => Moves = 0
  <2>1. ASSUME f = l, a = B - 1 PROVE Moves = 0
    <3>1. c = f /\ c = l
      BY <1>2, <2>1
    <3>2. i = B - 1 /\ j \in 0 .. B - 1
      BY <1>2, <1>8, <2>1, <3>1
    <3>3. QED
      BY <1>1, <1>13, <3>2
  <2>2. QED
    BY <2>1
<1>23. c < l \/ c = l
  BY <1>2
<1>24. Reached + Moves \in Int
  BY <1>1, <1>14, <1>18
<1>25. PassesFrom <= PassesUpto => Reached + Moves <= PassesUpto
  BY <1>18, <1>20, <1>21, <1>23, <1>24
<1>26. QED
  BY <1>11, <1>14, <1>15, <1>16, <1>17, <1>18, <1>19, <1>21, <1>22, <1>25
  DEF Offset, i, j, cb, nb, a, z, c, f, l, B

\* What a pass leaves for the next one.
LEMMA PassCounted ==
  ASSUME pass \in PassTypes, pass.cur \in pass.first .. pass.last,
         NEW n \in Int, NEW ret \in {-1, BlockSize}, NEW b \in Seq(Int), CountPass(n, ret, b)
  PROVE  /\ pass' \in PassTypes
         /\ PassesFrom' = PassesFrom /\ PassesUpto' = PassesUpto
         /\ pass'.first = pass.first /\ pass'.last = pass.last /\ pass'.from = pass.from
         /\ pass'.total = pass.total + n /\ pass'.buf = b
         /\ pass'.over <=> ret = -1 \/ pass.cur = pass.last
         /\ pass'.failed <=> ret = -1
         /\ ~pass'.over => /\ pass.cur < pass.last /\ pass'.cur = pass.cur + 1
                           /\ pass'.cur \in pass'.first .. pass'.last
                           /\ Reached' = (pass.cur + 1) * BlockSize
<1>1. BlockSize \in Nat \ {0}
  BY StreamAssumption
<1>2. /\ pass.cur \in Nat /\ pass.first \in Nat /\ pass.last \in Nat /\ pass.total \in Int
      /\ pass.from \in Offset /\ pass.upto \in Offset
  BY DEF PassTypes, Offset
<1> DEFINE over == ret # BlockSize \/ pass.cur = pass.last
           low == ret < 0
<1>3. over \in BOOLEAN /\ low \in BOOLEAN
  OBVIOUS
<1>4. pass' = [cur |-> pass.cur + 1, first |-> pass.first, from |-> pass.from,
               last |-> pass.last, upto |-> pass.upto, buf |-> b,
               total |-> pass.total + n, over |-> over, failed |-> low]
  BY DEF CountPass, PassTypes
<1>5. (over <=> ret = -1 \/ pass.cur = pass.last) /\ (low <=> ret = -1)
  BY <1>1
<1> HIDE DEF over, low
<1>6. pass.cur + 1 \in Nat /\ pass.total + n \in Int
  BY <1>2
<1>7. pass' \in PassTypes
  BY <1>2, <1>3, <1>4, <1>6 DEF PassTypes, Offset
<1>8. PassesFrom' = PassesFrom /\ PassesUpto' = PassesUpto
  BY <1>4 DEF PassesFrom, PassesUpto
<1>9. /\ pass'.total = pass.total + n /\ pass'.buf = b /\ pass'.from = pass.from
      /\ pass'.cur = pass.cur + 1 /\ pass'.first = pass.first /\ pass'.last = pass.last
  BY <1>4
<1>10. (pass'.over <=> ret = -1 \/ pass.cur = pass.last) /\ (pass'.failed <=> ret = -1)
  BY <1>4, <1>5
<1>11. pass.cur # pass.last => /\ pass.cur < pass.last
                               /\ pass'.cur \in pass'.first .. pass'.last
                               /\ pass'.cur # pass'.first
  BY <1>2, <1>9
<1>12. QED
  BY <1>7, <1>8, <1>9, <1>10, <1>11 DEF Reached

(***************************************************************************)
(* What a volume holds.                                                    *)
(***************************************************************************)

\* Nothing of what the volume holds changes with what is read of it.
LEMMA Static ==
  ASSUME UNCHANGED <<disk, fs>>
  PROVE  /\ vol' = vol /\ Directories' = Directories
         /\ \A t : Shown(t)' = Shown(t)
         /\ \A T : ShownOf(T)' = ShownOf(T)
         /\ \A path : True(path)' = True(path)
         /\ \A path : TrueIn(path)' = TrueIn(path)
         /\ \A list, d, T : Lists(list, d, T)' <=> Lists(list, d, T)
         /\ \A d, i : Earlier(d, i)' = Earlier(d, i)
         /\ \A t, i : TrueByte(t, i)' = TrueByte(t, i)
<1>1. vol' = vol
  BY DEF vol
<1>2. \A t : Shown(t)' = Shown(t)
  BY DEF Shown
<1>3. \A path : TrueIn(path)' = TrueIn(path)
  BY <1>1 DEF TrueIn
<1>4. \A T : ShownOf(T)' = ShownOf(T)
  BY <1>2 DEF ShownOf
<1>5. \A list, d, T : Lists(list, d, T)' <=> Lists(list, d, T)
  BY <1>1, <1>2, <1>3, <1>4 DEF Lists
<1>6. \A d, i : Earlier(d, i)' = Earlier(d, i)
  BY <1>3 DEF Earlier
<1>7. \A t, i : TrueByte(t, i)' = TrueByte(t, i)
  BY DEF TrueByte
<1>8. \A path : True(path)' = True(path)
  BY <1>1 DEF True
<1>9. Directories' = Directories
  BY <1>1 DEF Directories
<1>10. QED
  BY <1>1, <1>2, <1>3, <1>4, <1>5, <1>6, <1>7, <1>8, <1>9

\* A path is a sequence, and a file is in one directory.
LEMMA PathFacts ==
  ASSUME PathsLead, NEW t \in vol.truth
  PROVE  /\ Len(t.path) \in Nat \ {0}
         /\ t.path \in Seq({t.path[i] : i \in DOMAIN t.path})
         /\ t \in TrueIn(SubSeq(t.path, 1, Len(t.path) - 1))
         /\ t # vol.root
  BY DEF PathsLead, TrueIn

\* Directories are told apart by their paths.
LEMMA OneDirectory ==
  ASSUME PathsLead, NEW d \in Directories, NEW e \in Directories, d.path = e.path
  PROVE  d = e
  BY DEF PathsLead, Directories

\* A name of a path leads from its directory to one file: what is in a directory under
\* a name has the path of the directory with the name behind it.
LEMMA NameLeads ==
  ASSUME PathsLead, NEW S, NEW path \in Seq(S), NEW k \in Nat, k < Len(path),
         NEW t \in TrueIn(SubSeq(path, 1, k)), t.path[Len(t.path)] = path[k + 1]
  PROVE  t.path = SubSeq(path, 1, k + 1)
<1>1. t \in vol.truth /\ SubSeq(t.path, 1, Len(t.path) - 1) = SubSeq(path, 1, k)
  BY DEF TrueIn
<1> DEFINE n == Len(t.path)
           T == {t.path[i] : i \in DOMAIN t.path}
           p == t.path
<1>2. n \in Nat \ {0} /\ p \in Seq(T) /\ n = Len(p)
  BY <1>1, PathFacts
<1>3. p[n] = path[k + 1] /\ SubSeq(p, 1, n - 1) = SubSeq(path, 1, k)
  BY <1>1
<1> HIDE DEF p, T, n
<1>4. Len(SubSeq(p, 1, n - 1)) = n - 1 /\ \A i \in 1 .. n - 1 : SubSeq(p, 1, n - 1)[i] = p[i]
  BY <1>2
<1>5. Len(path) \in Nat
  OBVIOUS
<1>6. Len(SubSeq(path, 1, k)) = k /\ \A i \in 1 .. k : SubSeq(path, 1, k)[i] = path[i]
  BY <1>5
<1>7. n = k + 1 /\ \A i \in 1 .. k : p[i] = path[i]
  BY <1>2, <1>3, <1>4, <1>6
<1>8. /\ SubSeq(path, 1, k + 1) \in Seq(S) /\ Len(SubSeq(path, 1, k + 1)) = k + 1
      /\ \A i \in 1 .. k + 1 : SubSeq(path, 1, k + 1)[i] = path[i]
  BY <1>5
<1>9. \A i \in 1 .. k + 1 : p[i] = path[i]
  BY <1>3, <1>7
<1>10. p = SubSeq(path, 1, k + 1)
  <2> DEFINE q == SubSeq(path, 1, k + 1)
  <2>1. q \in Seq(S) /\ Len(q) = k + 1 /\ p \in Seq(T) /\ Len(p) = k + 1
    BY <1>2, <1>7, <1>8
  <2>2. \A i \in 1 .. k + 1 : p[i] = q[i]
    BY <1>8, <1>9
  <2> HIDE DEF q
  <2>3. p = q
    BY <2>1, <2>2
  <2>4. QED
    BY <2>3 DEF q
<1>11. QED
  BY <1>10 DEF p

\* What a prefix of a path leads to is in the directory that the prefix before it
\* leads to.
LEMMA PrefixLeads ==
  ASSUME PathsLead, NEW S, NEW path \in Seq(S), NEW k \in Nat, k < Len(path),
         NEW t \in vol.truth, t.path = SubSeq(path, 1, k + 1)
  PROVE  t \in TrueIn(SubSeq(path, 1, k)) /\ t.path[Len(t.path)] = path[k + 1]
<1>1. Len(path) \in Nat
  OBVIOUS
<1> DEFINE p == t.path
<1>2. /\ p \in Seq(S) /\ Len(p) = k + 1
      /\ \A i \in 1 .. k + 1 : p[i] = path[i]
  BY <1>1
<1>3. SubSeq(SubSeq(path, 1, k + 1), 1, k) = SubSeq(path, 1, k)
  BY <1>1
<1>4. p[k + 1] = path[k + 1] /\ Len(p) - 1 = k
  BY <1>2
<1>5. SubSeq(p, 1, Len(p) - 1) = SubSeq(path, 1, k)
  BY <1>3, <1>4
<1>6. p # <<>>
  BY <1>2
<1>7. QED
  BY <1>2, <1>4, <1>5, <1>6 DEF TrueIn

\* Two files of a directory that are shown alike are one.
LEMMA ShownOnce ==
  ASSUME PathsLead, NEW path, NEW t \in TrueIn(path), NEW u \in TrueIn(path),
         t.path[Len(t.path)] = u.path[Len(u.path)]
  PROVE  t = u
<1> DEFINE p == t.path
           q == u.path
           S == {p[i] : i \in DOMAIN p}
           T == {q[i] : i \in DOMAIN q}
<1>1. t \in vol.truth /\ u \in vol.truth
      /\ SubSeq(p, 1, Len(p) - 1) = path /\ SubSeq(q, 1, Len(q) - 1) = path
  BY DEF TrueIn
<1>2. Len(p) \in Nat \ {0} /\ Len(q) \in Nat \ {0} /\ p \in Seq(S) /\ q \in Seq(T)
  BY <1>1, PathFacts
<1>3. p[Len(p)] = q[Len(q)]
  OBVIOUS
<1>4. p = q => t = u
  BY <1>1 DEF PathsLead
<1> HIDE DEF p, q, S, T
<1>5. /\ Len(SubSeq(p, 1, Len(p) - 1)) = Len(p) - 1
      /\ \A i \in 1 .. Len(p) - 1 : SubSeq(p, 1, Len(p) - 1)[i] = p[i]
  <2>1. Len(p) - 1 \in Nat /\ Len(p) - 1 <= Len(p) /\ p \in Seq(S)
    BY <1>2
  <2>2. QED
    BY <2>1, Prefix
<1>6. /\ Len(SubSeq(q, 1, Len(q) - 1)) = Len(q) - 1
      /\ \A i \in 1 .. Len(q) - 1 : SubSeq(q, 1, Len(q) - 1)[i] = q[i]
  <2>1. Len(q) - 1 \in Nat /\ Len(q) - 1 <= Len(q) /\ q \in Seq(T)
    BY <1>2
  <2>2. QED
    BY <2>1, Prefix
<1>7. Len(p) = Len(q) /\ \A i \in 1 .. Len(p) - 1 : p[i] = q[i]
  BY <1>1, <1>2, <1>5, <1>6
<1>8. \A i \in 1 .. Len(p) : p[i] = q[i]
  BY <1>2, <1>3, <1>7
<1>9. p = q
  BY <1>2, <1>7, <1>8
<1>10. QED
  BY <1>4, <1>9

(***************************************************************************)
(* The lists of directories.                                               *)
(***************************************************************************)

\* What is shown of a file has its name.
LEMMA ShownIs ==
  ASSUME NEW t
  PROVE  /\ Shown(t).name = t.path[Len(t.path)] /\ Shown(t).is_dir = t.dir
         /\ Shown(t).opaque = IF t.at = <<>> THEN 0 ELSE t.at[1]
         /\ Shown(t).byte_size = IF fs.type = "fat" THEN t.size ELSE 0
BY DEF Shown

\* Every entry of a list is a file of the directory.
LEMMA Entries ==
  ASSUME NEW list, NEW d, NEW T, Lists(list, d, T), NEW i \in DOMAIN list
  PROVE  \E u \in TrueIn(d.path) : list[i] = Shown(u)
<1>1. list \in Seq(ShownOf(TrueIn(d.path)))
  BY DEF Lists
<1>2. list[i] \in ShownOf(TrueIn(d.path))
  BY <1>1
<1>3. QED
  BY <1>2 DEF ShownOf

\* The entry that the loop stops at is a file of the directory with the name.
LEMMA FoundEntry ==
  ASSUME NEW d, NEW T, Lists(walk.list, d, T), NEW name, Named(name) # {}
  PROVE  \E u \in TrueIn(d.path) :
           walk.list[FirstNamed(name)] = Shown(u) /\ u.path[Len(u.path)] = name
<1>1. walk.list \in Seq(ShownOf(TrueIn(d.path)))
  BY DEF Lists
<1>2. Named(name) \in SUBSET Nat
  BY <1>1 DEF Named
<1>3. \E m \in Named(name) : \A k \in Named(name) : m <= k
  BY <1>2, Least
<1>4. FirstNamed(name) \in Named(name)
  BY <1>3 DEF FirstNamed
<1>5. FirstNamed(name) \in DOMAIN walk.list /\ walk.list[FirstNamed(name)].name = name
  BY <1>4 DEF Named
<1>6. PICK u \in TrueIn(d.path) : walk.list[FirstNamed(name)] = Shown(u)
  BY <1>5, Entries
<1>7. Shown(u).name = u.path[Len(u.path)]
  BY ShownIs
<1>8. QED
  BY <1>5, <1>6, <1>7

\* A whole list of a reliable device has every file of the directory.
LEMMA EntryThere ==
  ASSUME vol.reliable, NEW d, Lists(walk.list, d, TrueIn(d.path)), NEW t \in TrueIn(d.path)
  PROVE  Named(t.path[Len(t.path)]) # {}
<1>1. PICK m \in DOMAIN walk.list : walk.list[m] = Shown(t)
  BY DEF Lists
<1>2. Shown(t).name = t.path[Len(t.path)]
  BY ShownIs
<1>3. m \in Named(t.path[Len(t.path)])
  BY <1>1, <1>2 DEF Named
<1>4. QED
  BY <1>3

\* Nothing is listed before the first part is read, and nothing is missing after the
\* last.
LEMMA ListBegins ==
  ASSUME PartsList, NEW d \in Directories
  PROVE  Lists(<<>>, d, Earlier(d, 0))
<1>1. \A t \in TrueIn(d.path) : t.part \in Parts(d)
  BY DEF PartsList
<1>2. \A t \in TrueIn(d.path) : t \notin Earlier(d, 0)
  BY <1>1 DEF Earlier, Parts
<1>3. <<>> \in Seq(ShownOf(TrueIn(d.path))) /\ DOMAIN <<>> = {}
  OBVIOUS
<1>4. QED
  BY <1>2, <1>3 DEF Lists

LEMMA ListEnds ==
  ASSUME PartsList, NEW d \in Directories, NEW n \in Nat, Parts(d) = 1 .. n, NEW list,
         Lists(list, d, Earlier(d, n))
  PROVE  Lists(list, d, TrueIn(d.path))
<1>1. \A t \in TrueIn(d.path) : t.part \in Parts(d)
  BY DEF PartsList
<1>2. \A t \in TrueIn(d.path) : t \in Earlier(d, n)
  BY <1>1 DEF Earlier
<1>3. QED
  BY <1>2 DEF Lists

\* A list that a failure cut short has no wrong entry.
LEMMA ListLost ==
  ASSUME ~vol.reliable, NEW d, NEW T
  PROVE  Lists(<<>>, d, T)
<1>1. <<>> \in Seq(ShownOf(TrueIn(d.path)))
  OBVIOUS
<1>2. QED
  BY <1>1 DEF Lists

\* The next part of a directory adds its own files.
LEMMA ListGrows ==
  ASSUME PathsLead, PartsList, NEW d \in Directories, NEW k \in Nat, k + 1 \in Parts(d), NEW list,
         Lists(list, d, Earlier(d, k)), NEW more \in PartLists(d, k + 1)
  PROVE  Lists(list \o more, d, Earlier(d, k + 1))
<1> DEFINE A == TrueIn(d.path)
           E == Earlier(d, k)
           F == Earlier(d, k + 1)
           T == {t \in A : t.part = k + 1}
           S == ShownOf(A)
           s == list \o more
<1>1. \A t \in A : t.part \in Nat
  BY DEF PartsList, Parts
<1>2. /\ \A t \in A : t \in E <=> t.part <= k
      /\ \A t \in A : t \in F <=> t.part <= k + 1
  BY DEF Earlier
<1>3. \A t \in A : /\ t \in F <=> t \in E \/ t \in T
                   /\ ~(t \in E /\ t \in T)
  BY <1>1, <1>2
<1>4. /\ more \in Seq(ShownOf(T))
      /\ vol.reliable => /\ \A t \in T : \E m \in DOMAIN more : more[m] = Shown(t)
                         /\ \A m, n \in DOMAIN more : more[m] = more[n] => m = n
  BY DEF PartsList
<1>5. /\ list \in Seq(S)
      /\ vol.reliable =>
           /\ \A t \in A : t \in E <=> \E m \in DOMAIN list : list[m] = Shown(t)
           /\ \A m, n \in DOMAIN list : list[m] = list[n] => m = n
  BY DEF Lists
<1>6. \A t, u \in A : Shown(t) = Shown(u) => t = u
  BY ShownIs, ShownOnce
<1>7. \A t : t \in T => t \in A
  OBVIOUS
<1>8. \A m \in DOMAIN list : \E t \in A : list[m] = Shown(t)
  <2>1. \A m \in DOMAIN list : list[m] \in S
    BY <1>5
  <2>2. QED
    BY <2>1 DEF ShownOf
<1>9. \A m \in DOMAIN more : \E t \in T : more[m] = Shown(t)
  <2>1. \A m \in DOMAIN more : more[m] \in ShownOf(T)
    BY <1>4
  <2> HIDE DEF T
  <2>2. QED
    BY <2>1 DEF ShownOf
<1>10. more \in Seq(S)
  <2>1. ShownOf(T) \subseteq S
    BY DEF ShownOf
  <2>2. QED
    BY <1>4, <2>1
<1> HIDE DEF A, E, F, T, S
<1>11. /\ s \in Seq(S) /\ Len(s) = Len(list) + Len(more)
       /\ \A i \in 1 .. Len(list) : s[i] = list[i]
       /\ \A i \in 1 .. Len(more) : s[Len(list) + i] = more[i]
  BY <1>5, <1>10, Concatenated
<1>12. /\ Len(list) \in Nat /\ Len(more) \in Nat
       /\ DOMAIN list = 1 .. Len(list) /\ DOMAIN more = 1 .. Len(more)
       /\ DOMAIN s = 1 .. Len(s)
  BY <1>5, <1>10, <1>11
<1> HIDE DEF s
<1>13. \A i \in DOMAIN s :
         \/ i \in DOMAIN list /\ s[i] = list[i]
         \/ i - Len(list) \in DOMAIN more /\ s[i] = more[i - Len(list)] /\ i > Len(list)
  <2> SUFFICES ASSUME NEW i \in DOMAIN s, i \notin DOMAIN list
               PROVE  i - Len(list) \in DOMAIN more /\ s[i] = more[i - Len(list)] /\ i > Len(list)
    BY <1>11, <1>12
  <2>1. i - Len(list) \in 1 .. Len(more) /\ Len(list) + (i - Len(list)) = i /\ i > Len(list)
    BY <1>11, <1>12
  <2>2. QED
    BY <1>11, <1>12, <2>1
<1>14. ASSUME vol.reliable, NEW t \in A
       PROVE  t \in F <=> \E m \in DOMAIN s : s[m] = Shown(t)
  <2>1. t \in E => \E m \in DOMAIN s : s[m] = Shown(t)
    <3>1. \A m \in DOMAIN list : m \in DOMAIN s /\ s[m] = list[m]
      BY <1>11, <1>12
    <3>2. QED
      BY <1>5, <1>14, <3>1
  <2>2. t \in T => \E m \in DOMAIN s : s[m] = Shown(t)
    <3>1. \A m \in DOMAIN more : Len(list) + m \in DOMAIN s /\ s[Len(list) + m] = more[m]
      BY <1>11, <1>12
    <3>2. QED
      BY <1>4, <1>14, <3>1
  <2>3. ASSUME NEW m \in DOMAIN s, s[m] = Shown(t) PROVE t \in F
    <3>1. CASE m \in DOMAIN list /\ s[m] = list[m]
      BY <1>3, <1>5, <1>14, <2>3, <3>1
    <3>2. CASE m - Len(list) \in DOMAIN more /\ s[m] = more[m - Len(list)]
      BY <1>3, <1>6, <1>7, <1>9, <2>3, <3>2
    <3>3. QED
      BY <1>13, <3>1, <3>2
  <2>4. QED
    BY <1>3, <2>1, <2>2, <2>3
<1>15. ASSUME vol.reliable, NEW m \in DOMAIN s, NEW n \in DOMAIN s, s[m] = s[n] PROVE m = n
  <2>1. \A i \in DOMAIN list, j \in DOMAIN more : list[i] # more[j]
    <3> SUFFICES ASSUME NEW i \in DOMAIN list, NEW j \in DOMAIN more, list[i] = more[j]
                 PROVE  FALSE
      OBVIOUS
    <3>1. PICK t \in T : more[j] = Shown(t)
      BY <1>9
    <3>2. t \in A /\ t \in E
      BY <1>5, <1>7, <1>15, <3>1
    <3>3. QED
      BY <1>3, <3>1, <3>2
  <2>2. CASE m \in DOMAIN list /\ n \in DOMAIN list /\ s[m] = list[m] /\ s[n] = list[n]
    BY <1>5, <1>15, <2>2
  <2>3. CASE /\ m - Len(list) \in DOMAIN more /\ s[m] = more[m - Len(list)]
             /\ n - Len(list) \in DOMAIN more /\ s[n] = more[n - Len(list)]
    <3>1. m - Len(list) = n - Len(list)
      BY <1>4, <1>15, <2>3
    <3>2. m \in Nat /\ n \in Nat
      BY <1>11, <1>12
    <3>3. QED
      BY <1>12, <3>1, <3>2
  <2>4. QED
    BY <1>13, <1>15, <2>1, <2>2, <2>3
<1>16. QED
  BY <1>11, <1>14, <1>15 DEF Lists, A, F, S, s

\* A whole list of a reliable device is the directory.
LEMMA ListCounts ==
  ASSUME PathsLead, vol.reliable, NEW list, NEW d, Lists(list, d, TrueIn(d.path))
  PROVE  /\ Len(list) = Cardinality(TrueIn(d.path))
         /\ \A t \in TrueIn(d.path) : \E i \in DOMAIN list :
              list[i].name = t.path[Len(t.path)] /\ list[i].is_dir = t.dir
<1> DEFINE A == TrueIn(d.path)
           n == Len(list)
<1>1. /\ list \in Seq(ShownOf(A))
      /\ \A t \in A : \E m \in DOMAIN list : list[m] = Shown(t)
      /\ \A i, j \in DOMAIN list : list[i] = list[j] => i = j
  BY DEF Lists
<1>2. n \in Nat /\ DOMAIN list = 1 .. n
  BY <1>1
<1>3. \A i \in 1 .. n : \E t \in A : list[i] = Shown(t)
  BY <1>2, Entries
<1>4. ASSUME NEW t \in A, NEW u \in A, Shown(t) = Shown(u)
      PROVE  t = u
  <2>1. t.path[Len(t.path)] = u.path[Len(u.path)]
    BY <1>4, ShownIs
  <2>2. QED
    BY <2>1, ShownOnce
<1> DEFINE f == [i \in 1 .. n |-> CHOOSE t \in A : list[i] = Shown(t)]
<1> HIDE DEF A, n
<1>5. \A i \in 1 .. n : f[i] \in A /\ list[i] = Shown(f[i])
  BY <1>3
<1>6. f \in Bijection(1 .. n, A)
  <2>1. f \in [1 .. n -> A]
    BY <1>5
  <2>2. \A i, j \in 1 .. n : f[i] = f[j] => i = j
    BY <1>1, <1>2, <1>5
  <2>3. \A t \in A : \E i \in 1 .. n : f[i] = t
    BY <1>1, <1>2, <1>4, <1>5
  <2> HIDE DEF f
  <2>4. QED
    BY <2>1, <2>2, <2>3, Fun_IsBij
<1>7. Cardinality(A) = n
  <2>1. ExistsBijection(1 .. n, A)
    BY <1>6 DEF ExistsBijection
  <2>2. IsFiniteSet(1 .. n) /\ Cardinality(1 .. n) = n
    BY <1>2, FS_Interval
  <2>3. QED
    BY <2>1, <2>2, FS_Bijection
<1>8. ASSUME NEW t \in A
      PROVE  \E i \in DOMAIN list : list[i].name = t.path[Len(t.path)] /\ list[i].is_dir = t.dir
  <2>1. PICK i \in DOMAIN list : list[i] = Shown(t)
    BY <1>1
  <2>2. Shown(t).name = t.path[Len(t.path)] /\ Shown(t).is_dir = t.dir
    BY ShownIs
  <2>3. QED
    BY <2>1, <2>2
<1>9. QED
  BY <1>7, <1>8 DEF A, n

(***************************************************************************)
(* The walk.                                                               *)
(***************************************************************************)

\* A step of the walk that leaves the open file alone.
LEMMA WalkKeeps ==
  ASSUME IInv, Walking, UNCHANGED <<stream, pass, disk, fs, file, ffbo, opened, calls>>,
         call' = call \/ call' = [call EXCEPT !.busy = FALSE],
         wild' \in BOOLEAN, vol.reliable => ~wild', WalkTyped', Walks',
         ~call'.busy => FindsFile' /\ ListsDirectory'
  PROVE  IInv'
<1>1. TypeOK /\ Opens /\ FindsFile
  BY DEF IInv
<1>2. /\ stream \in StreamTypes /\ call \in CallTypes /\ pass \in PassTypes
      /\ ffbo.f_block \in Nat /\ calls \in Nat /\ fs.type \in {"unmounted", "none", "fat", "ext2"}
      /\ ~Mounted => ~stream.open /\ call.op = "none" /\ ~call.busy
  BY <1>1 DEF TypeOK
<1>3. call.op \in {"fopen", "opendir"} /\ call.busy
  BY DEF Walking, Running
<1>4. call' \in CallTypes /\ call'.op = call.op
  BY <1>2 DEF CallTypes
<1>5. Mounted
  BY <1>2, <1>3
<1>6. TypeOK'
  BY <1>2, <1>4, <1>5 DEF TypeOK, Mounted
<1>7. vol' = vol /\ (\A t : Shown(t)' = Shown(t)) /\ \A path : True(path)' = True(path)
  BY Static
<1>8. Opens'
  BY <1>1, <1>7 DEF Opens, IsOpen
<1>9. call'.op # "fread"
  BY <1>3, <1>4
<1>10. Reads' /\ Chained' /\ Delivers' /\ DeliversFile'
  BY <1>9 DEF Reads, Chained, Delivers, DeliversFile, Running
<1>11. NeverWild'
  BY <1>7 DEF NeverWild
<1>12. call'.busy => FindsFile' /\ ListsDirectory'
  BY <1>1, <1>7 DEF FindsFile, ListsDirectory
<1>13. QED
  BY <1>6, <1>8, <1>10, <1>11, <1>12 DEF IInv

\* A walk is in one directory of the volume.
LEMMA WalkIn ==
  ASSUME IInv, Walking
  PROVE  /\ TypeOK /\ WalkTyped /\ Mounted /\ call.busy /\ call.op \in {"fopen", "opendir"}
         /\ walk.phase \in {"open", "read", "done"}
         /\ walk.idx \in Nat /\ walk.path \in Seq(Names) /\ walk.todo \in Seq(Names)
         /\ Depth \in Nat /\ DirNames \in Nat /\ Depth <= DirNames /\ DirNames <= Len(walk.path)
         /\ call.op = "fopen" => DirNames = Len(walk.path) - 1
         /\ call.op = "opendir" => DirNames = Len(walk.path)
         /\ walk.todo = SubSeq(walk.path, Depth + 1, DirNames)
         /\ call.op = "fopen" => ~stream.open /\ walk.name = walk.path[Len(walk.path)]
         /\ \E d \in Directories : WalksIn(d)
<1>1. TypeOK /\ Walks
  BY DEF IInv
<1>2. WalkTyped /\ fs.type \in {"unmounted", "none", "fat", "ext2"}
      /\ (~Mounted => ~call.busy)
  BY <1>1 DEF TypeOK
<1>3. call.busy /\ call.op \in {"fopen", "opendir"}
  BY DEF Walking, Running
<1>4. walk.idx \in Nat /\ walk.path \in Seq(Names) /\ walk.todo \in Seq(Names)
  BY <1>2 DEF WalkTyped
<1>5. /\ walk.phase \in {"open", "read", "done"} /\ Depth \in Nat /\ Depth <= DirNames
      /\ walk.todo = SubSeq(walk.path, Depth + 1, DirNames)
      /\ call.op = "fopen" => /\ ~stream.open /\ DirNames \in Nat
                              /\ walk.name = walk.path[Len(walk.path)]
      /\ \E d \in Directories : WalksIn(d)
  BY <1>1 DEF Walks
<1>6. Len(walk.path) \in Nat
  BY <1>4
<1>7. DirNames = IF call.op = "fopen" THEN Len(walk.path) - 1 ELSE Len(walk.path)
  BY <1>6 DEF DirNames
<1>8. DirNames \in Nat /\ DirNames <= Len(walk.path)
  BY <1>3, <1>5, <1>6, <1>7
<1>9. QED
  BY <1>1, <1>2, <1>3, <1>4, <1>5, <1>7, <1>8

\* The walk goes on in the directory.
LEMMA WalkStays ==
  ASSUME IInv, Walking, UNCHANGED <<stream, call, pass, disk, fs, file, ffbo, wild, opened, calls>>,
         NEW d \in Directories, WalksIn(d), WalkTyped',
         walk'.todo = walk.todo, walk'.path = walk.path, walk'.name = walk.name,
         walk'.dir = walk.dir, walk'.phase \in {"read", "done"},
         walk'.phase = "read" =>
           ReadsPart(d)' /\ Lists(walk'.list, d, Earlier(d, walk'.idx)),
         walk'.phase = "done" => Lists(walk'.list, d, TrueIn(d.path)),
         vol.reliable => ~walk'.freed
  PROVE  IInv'
<1>1. /\ TypeOK /\ Mounted /\ call.busy /\ Depth \in Nat /\ Depth <= DirNames /\ DirNames \in Nat
      /\ walk.todo = SubSeq(walk.path, Depth + 1, DirNames)
      /\ call.op = "fopen" => ~stream.open /\ walk.name = walk.path[Len(walk.path)]
  BY WalkIn
<1>2. /\ d.path = SubSeq(walk.path, 1, Depth)
      /\ walk.dir = IF d = vol.root THEN Root ELSE Shown(d)
  BY DEF WalksIn
<1>3. DirNames' = DirNames /\ Depth' = Depth
  BY DEF DirNames, Depth
<1>4. /\ vol' = vol /\ Directories' = Directories
      /\ \A t : Shown(t)' = Shown(t)
      /\ \A T : ShownOf(T)' = ShownOf(T)
      /\ \A path : TrueIn(path)' = TrueIn(path)
      /\ \A list, e, T : Lists(list, e, T)' <=> Lists(list, e, T)
      /\ \A e, i : Earlier(e, i)' = Earlier(e, i)
  BY Static
<1>5. WalksIn(d)'
  <2>1. d.path = SubSeq(walk'.path, 1, Depth')
    BY <1>2, <1>3
  <2>2. walk'.dir = (IF d = vol.root THEN Root ELSE Shown(d))'
    BY <1>2, <1>4 DEF Root
  <2>3. /\ walk'.phase = "read" => Lists(walk.list, d, Earlier(d, walk.idx))'
        /\ walk'.phase = "done" => Lists(walk.list, d, TrueIn(d.path))'
    BY <1>4 DEF Lists, Earlier
  <2>4. QED
    BY <1>4, <2>1, <2>2, <2>3 DEF WalksIn
<1>6. Walking' /\ wild' = wild /\ call' = call
  BY DEF Walking, Running
<1>7. Walks'
  <2>1. walk'.phase \in {"open", "read", "done"}
    OBVIOUS
  <2>2. Depth' \in Nat /\ Depth' <= DirNames' /\ walk'.todo = SubSeq(walk'.path, Depth' + 1, DirNames')
    BY <1>1, <1>3
  <2>3. call'.op = "fopen" => /\ ~stream'.open /\ DirNames' \in Nat
                              /\ walk'.name = walk'.path[Len(walk'.path)]
    BY <1>1, <1>3
  <2>4. d \in Directories'
    BY <1>4
  <2>5. QED
    BY <1>5, <1>6, <2>1, <2>2, <2>3, <2>4 DEF Walks
<1>8. wild \in BOOLEAN /\ (vol.reliable => ~wild)
  BY DEF IInv, TypeOK, NeverWild
<1>9. QED
  BY <1>1, <1>6, <1>7, <1>8, WalkKeeps

\* What is asked of the volume in a directory of FAT.
LEMMA FatDirectory ==
  ASSUME Consistent, fs.type = "fat", NEW d \in Directories
  PROVE  /\ PathsLead /\ PartsList /\ HeldByFat /\ DirectoryInFat(d)
         /\ d.at \in Seq(0 .. Bad - 1) /\ Len(d.at) \in Nat \ {0} /\ Parts(d) = 1 .. Len(d.at)
<1>1. PathsLead /\ PartsList /\ HeldByFat
  BY DEF Consistent
<1>2. DirectoryInFat(d)
  BY <1>1 DEF HeldByFat
<1>3. d.at \in Seq(0 .. Bad - 1) /\ d.at # <<>>
  BY <1>2 DEF DirectoryInFat
<1>4. Len(d.at) \in Nat \ {0}
  BY <1>3
<1>5. QED
  BY <1>1, <1>2, <1>3, <1>4 DEF Parts

\* The walk is in the root directory where the code takes it to be.
LEMMA InRootIs ==
  ASSUME PathsLead, NEW d \in Directories, WalksIn(d)
  PROVE  InRoot <=> d = vol.root
BY DEF PathsLead, Directories, WalksIn, InRoot

LEMMA FatDirBeginKeeps ==
  ASSUME IInv, Consistent, FatDirBegin
  PROVE  IInv'
<1>1. Walking
  BY DEF IInv, Walks, FatDirBegin
<1>2. PICK d \in Directories : WalksIn(d)
  BY <1>1, WalkIn
<1>3. walk.phase = "open" /\ fs.type = "fat" /\ WalkTyped
  BY <1>1, WalkIn DEF FatDirBegin
<1>4. /\ PathsLead /\ PartsList /\ HeldByFat /\ Len(d.at) \in Nat \ {0}
      /\ d.at \in Seq(0 .. Bad - 1)
  BY <1>3, FatDirectory
<1>5. (IF InRoot THEN fs.root_dir_cluster ELSE walk.dir.opaque) = d.at[1]
  <2>1. CASE d = vol.root
    BY <1>2, <1>4, <2>1, InRootIs DEF HeldByFat
  <2>2. CASE d # vol.root
    <3>1. walk.dir = Shown(d) /\ ~InRoot
      BY <1>2, <1>4, <2>2, InRootIs DEF WalksIn
    <3>2. d.at # <<>>
      BY <1>4
    <3>3. Shown(d).opaque = d.at[1]
      BY <3>2, ShownIs
    <3>4. QED
      BY <3>1, <3>3
  <2>3. QED
    BY <2>1, <2>2
<1>6. walk' = [walk EXCEPT !.phase = "read", !.list = <<>>, !.idx = 0, !.at = d.at[1]]
  BY <1>5 DEF FatDirBegin
<1>7. /\ WalkTyped' /\ walk'.todo = walk.todo /\ walk'.path = walk.path /\ walk'.name = walk.name
      /\ walk'.dir = walk.dir /\ walk'.freed = walk.freed
      /\ walk'.phase = "read" /\ walk'.list = <<>> /\ walk'.idx = 0 /\ walk'.at = d.at[1]
  BY <1>3, <1>6 DEF WalkTyped, NoWalk
<1>8. UNCHANGED <<stream, call, pass, disk, fs, file, ffbo, wild, opened, calls>>
  BY DEF FatDirBegin
<1>9. ReadsPart(d)'
  BY <1>3, <1>4, <1>7, <1>8 DEF ReadsPart
<1>10. Lists(walk'.list, d, Earlier(d, walk'.idx))
  BY <1>4, <1>7, ListBegins
<1>11. vol.reliable => ~walk'.freed
  BY <1>2, <1>7 DEF WalksIn
<1>12. walk'.phase \in {"read", "done"} /\ walk'.phase # "done"
  BY <1>7
<1>13. QED
  BY <1>1, <1>2, <1>7, <1>8, <1>9, <1>10, <1>11, <1>12, WalkStays

\* The marks of the table are numbers behind those of clusters.
LEMMA TableMarks == Bad \in Nat /\ Bad > 0 /\ Eoc \in Nat /\ Bad < Eoc
BY SMT DEF Bad, Eoc

\* On a device that fails reads, a list may be of any part of the directory.
LEMMA ListPart ==
  ASSUME ~vol.reliable, NEW list, NEW d, NEW S, NEW T, Lists(list, d, S)
  PROVE  Lists(list, d, T)
BY DEF Lists

\* The cluster that follows is the next of the directory, unless it ends there or the
\* table cannot be read.
LEMMA NextDirCluster ==
  ASSUME Consistent, fs.type = "fat", NEW d \in Directories, WalksIn(d), NEW i \in 1 .. Len(d.at),
         walk.idx \in Nat, i = walk.idx + 1, walk.at = d.at[i], NEW next \in NextDirClusters
  PROVE  /\ next < Bad => i < Len(d.at) /\ next = d.at[i + 1]
         /\ ~(next < Bad) => i = Len(d.at) \/ ~vol.reliable
<1>1. /\ PathsLead /\ DirectoryInFat(d)
      /\ d.at \in Seq(0 .. Bad - 1) /\ Len(d.at) \in Nat \ {0}
  BY FatDirectory
<1>2. InRoot <=> d = vol.root
  BY <1>1, InRootIs
<1>3. i < Len(d.at) => d.at[i + 1] \in 0 .. Bad - 1
  <2>1. i < Len(d.at) => i + 1 \in 1 .. Len(d.at)
    BY <1>1
  <2>2. ASSUME NEW m \in 1 .. Len(d.at) PROVE d.at[m] \in 0 .. Bad - 1
    BY <1>1, ElementOf
  <2>3. QED
    BY <2>1, <2>2
<1>4. i < Len(d.at) \/ i = Len(d.at)
  BY <1>1
<1>5. CASE InArea(d)
  <2>1. /\ d.at[i] = i + 1
        /\ i < Len(d.at) <=> i < fs.root_dir_sectors \div BlockSectors
    BY <1>1, <1>5 DEF DirectoryInFat
  <2>2. next = IF walk.idx + 1 < fs.root_dir_sectors \div BlockSectors THEN walk.at + 1 ELSE Eoc
    BY <1>2, <1>5 DEF NextDirClusters, InArea
  <2>3. next = IF i < Len(d.at) THEN i + 2 ELSE Eoc
    BY <2>1, <2>2
  <2>4. i < Len(d.at) => d.at[i + 1] = i + 2
    <3>1. \A k \in 1 .. Len(d.at) : d.at[k] = k + 1
      BY <1>1, <1>5 DEF DirectoryInFat
    <3>2. i < Len(d.at) => i + 1 \in 1 .. Len(d.at) /\ (i + 1) + 1 = i + 2
      BY <1>1
    <3>3. QED
      BY <3>1, <3>2
  <2>5. ~(Eoc < Bad)
    BY TableMarks
  <2>6. i < Len(d.at) => next < Bad
    BY <1>3, <2>3, <2>4, TableMarks
  <2>7. QED
    BY <1>4, <2>3, <2>4, <2>5, <2>6
<1>6. CASE ~InArea(d)
  <2>1. /\ Linked(d.at) /\ fs.fat_type # "FAT12" /\ ~(NextInTable(d.at[Len(d.at)]) < Bad)
        /\ vol.reliable => OnDevice(FatSector(d.at[i]), 1)
    BY <1>1, <1>6 DEF DirectoryInFat
  <2>2. next \in NextClusters(walk.at)
    BY <1>2, <1>6 DEF NextDirClusters, InArea
  <2>3. \/ next = NextInTable(d.at[i])
        \/ next = Bad /\ ReadFails(FatSector(d.at[i]), 1)
    BY <2>1, <2>2 DEF NextClusters
  <2>4. CASE next = NextInTable(d.at[i])
    <3>1. i < Len(d.at) => NextInTable(d.at[i]) = d.at[i + 1]
      <4>1. i < Len(d.at) => i \in 1 .. Len(d.at) - 1
        BY <1>1
      <4>2. QED
        BY <2>1, <4>1 DEF Linked
    <3>2. i < Len(d.at) => next < Bad
      BY <1>3, <2>4, <3>1, TableMarks
    <3>3. QED
      BY <1>4, <2>1, <2>4, <3>1, <3>2
  <2>5. CASE next = Bad /\ ReadFails(FatSector(d.at[i]), 1)
    <3>1. ~vol.reliable
      BY <2>1, <2>5 DEF ReadFails
    <3>2. ~(next < Bad)
      BY <2>5, TableMarks
    <3>3. QED
      BY <3>1, <3>2
  <2>6. QED
    BY <2>3, <2>4, <2>5
<1>7. QED
  BY <1>5, <1>6

\* Two outcomes of a pass over a cluster, and of the block it could not read.
LEMMA FatDirStepKeeps ==
  ASSUME IInv, Consistent, FatDirStep
  PROVE  IInv'
<1>1. Walking
  BY DEF IInv, Walks, FatDirStep
<1>2. PICK d \in Directories : WalksIn(d)
  BY <1>1, WalkIn
<1>3. walk.phase = "read" /\ fs.type = "fat" /\ WalkTyped /\ walk.idx \in Nat
  BY <1>1, WalkIn DEF FatDirStep
<1>4. /\ PathsLead /\ PartsList /\ DirectoryInFat(d) /\ Parts(d) = 1 .. Len(d.at)
      /\ d.at \in Seq(0 .. Bad - 1) /\ Len(d.at) \in Nat \ {0}
  BY <1>3, FatDirectory
<1> DEFINE i == walk.idx + 1
<1>5. /\ i \in 1 .. Len(d.at) /\ walk.at = d.at[i] /\ Lists(walk.list, d, Earlier(d, walk.idx))
      /\ vol.reliable => ~walk.freed
  BY <1>2, <1>3 DEF WalksIn, ReadsPart
<1>6. DirSector = SectorInDir(d.at[i], d = vol.root)
  BY <1>2, <1>4, <1>5, InRootIs DEF DirSector, SectorInDir
<1>7. UNCHANGED <<stream, call, pass, disk, fs, file, ffbo, wild, opened, calls>>
  BY DEF FatDirStep
<1>8. CASE ReadFails(DirSector, BlockSectors) /\ DirectoryRead(<<>>)
  <2>1. ~vol.reliable
    BY <1>4, <1>5, <1>6, <1>8 DEF DirectoryInFat, ReadFails
  <2>2. Lists(<<>>, d, TrueIn(d.path))
    BY <2>1, ListLost
  <2>3. /\ WalkTyped' /\ walk'.todo = walk.todo /\ walk'.path = walk.path
        /\ walk'.name = walk.name /\ walk'.dir = walk.dir
        /\ walk'.phase = "done" /\ walk'.list = <<>>
    BY <1>3, <1>8 DEF WalkTyped, NoWalk, DirectoryRead
  <2>4. walk'.phase # "read"
    BY <2>3
  <2>5. QED
    BY <1>1, <1>2, <1>7, <2>1, <2>2, <2>3, <2>4, WalkStays
<1>9. ASSUME NEW next \in NextDirClusters,
             IF next < Bad
             THEN walk' = [walk EXCEPT !.list = walk.list \o DirentsAt(DirSector), !.at = next,
                                       !.idx = @ + 1]
             ELSE DirectoryRead(walk.list \o DirentsAt(DirSector))
      PROVE  IInv'
  <2> DEFINE list == walk.list \o DirentsAt(DirSector)
  <2>1. Lists(list, d, Earlier(d, i))
    <3>1. DirentsAt(DirSector) \in PartLists(d, i)
      BY <1>3, <1>6 DEF PartLists
    <3>2. QED
      BY <1>3, <1>4, <1>5, <3>1, ListGrows
  <2>2. /\ next < Bad => i < Len(d.at) /\ next = d.at[i + 1]
        /\ ~(next < Bad) => i = Len(d.at) \/ ~vol.reliable
    BY <1>2, <1>3, <1>5, <1>9, NextDirCluster
  <2> HIDE DEF list
  <2>3. CASE next < Bad
    <3>1. walk' = [walk EXCEPT !.list = list, !.at = next, !.idx = @ + 1]
      BY <1>9, <2>3 DEF list
    <3>2. /\ WalkTyped' /\ walk'.todo = walk.todo /\ walk'.path = walk.path
          /\ walk'.name = walk.name /\ walk'.dir = walk.dir /\ walk'.freed = walk.freed
          /\ walk'.phase = "read" /\ walk'.list = list /\ walk'.idx = i /\ walk'.at = next
      <4> DEFINE j == walk.idx + 1
      <4>1. j \in Nat /\ walk' = [walk EXCEPT !.list = list, !.at = next, !.idx = j]
        BY <1>3, <3>1
      <4> HIDE DEF j
      <4>2. WalkTyped'
        BY <1>3, <4>1 DEF WalkTyped, NoWalk
      <4>3. walk = [x \in DOMAIN NoWalk |-> walk[x]]
        BY <1>3 DEF WalkTyped
      <4>4. /\ walk'.todo = walk.todo /\ walk'.path = walk.path
            /\ walk'.name = walk.name /\ walk'.dir = walk.dir /\ walk'.freed = walk.freed
            /\ walk'.phase = walk.phase /\ walk'.list = list /\ walk'.idx = j
            /\ walk'.at = next
        BY <4>1, <4>3 DEF NoWalk
      <4>5. QED
        BY <1>3, <4>2, <4>4 DEF j
    <3>3. i + 1 \in 1 .. Len(d.at) /\ walk'.at = d.at[i + 1]
      BY <1>4, <1>5, <2>2, <2>3, <3>2
    <3>4. ReadsPart(d)'
      BY <1>3, <1>7, <3>2, <3>3 DEF ReadsPart
    <3>5. walk'.phase # "done"
      BY <3>2
    <3>6. QED
      BY <1>1, <1>2, <1>5, <1>7, <2>1, <3>2, <3>4, <3>5, WalkStays
  <2>4. CASE ~(next < Bad)
    <3>1. walk' = [walk EXCEPT !.phase = "done", !.list = list]
      BY <1>9, <2>4 DEF DirectoryRead, list
    <3>2. /\ WalkTyped' /\ walk'.todo = walk.todo /\ walk'.path = walk.path
          /\ walk'.name = walk.name /\ walk'.dir = walk.dir /\ walk'.freed = walk.freed
          /\ walk'.phase = "done" /\ walk'.list = list
      BY <1>3, <3>1 DEF WalkTyped, NoWalk
    <3>3. Lists(list, d, TrueIn(d.path))
      <4>1. CASE i = Len(d.at)
        <5>1. Lists(list, d, Earlier(d, Len(d.at)))
          BY <2>1, <4>1
        <5>2. QED
          BY <1>4, <5>1, ListEnds
      <4>2. CASE ~vol.reliable
        BY <2>1, <4>2, ListPart
      <4>3. QED
        BY <2>2, <2>4, <4>1, <4>2
    <3>4. walk'.phase # "read"
      BY <3>2
    <3>5. QED
      BY <1>1, <1>2, <1>5, <1>7, <3>2, <3>3, <3>4, WalkStays
  <2>5. QED
    BY <2>3, <2>4
<1>10. QED
  BY <1>8, <1>9 DEF FatDirStep

\* What is asked of the volume in a directory of ext2.
LEMMA Ext2Directory ==
  ASSUME Consistent, fs.type = "ext2", NEW d \in Directories
  PROVE  /\ PathsLead /\ PartsList /\ HeldByExt2
         /\ Len(d.at) = 1 /\ Len(d.blocks) \in Nat /\ Parts(d) = 1 .. Len(d.blocks)
         /\ DirBlocks(d.at[1]) = Len(d.blocks)
         /\ vol.reliable => DirectoryInExt2(d)
<1>1. PathsLead /\ PartsList /\ HeldByExt2
  BY DEF Consistent
<1>2. d \in vol.truth \cup {vol.root}
  BY DEF Directories
<1>3. Len(d.at) = 1 /\ d.blocks \in Seq(Nat)
  BY <1>1, <1>2 DEF HeldByExt2
<1>4. DirBlocks(d.at[1]) = Len(d.blocks) /\ (vol.reliable => DirectoryInExt2(d))
  BY <1>1 DEF HeldByExt2
<1>5. Len(d.blocks) \in Nat
  BY <1>3
<1>6. QED
  BY <1>1, <1>3, <1>4, <1>5 DEF Parts

\* A walk over a device that fails reads ends at an inode that is not there.
LEMMA WalkGoesWild ==
  ASSUME IInv, Walking, ~vol.reliable, NullInode,
         UNCHANGED <<stream, pass, disk, fs, file, ffbo, opened, calls>>
  PROVE  IInv'
<1>1. TypeOK /\ WalkTyped /\ FindsFile /\ call \in CallTypes
  BY DEF IInv, TypeOK
<1>2. /\ call' = [call EXCEPT !.busy = FALSE] /\ wild' = TRUE
      /\ walk' = [walk EXCEPT !.phase = "none"]
  BY DEF NullInode
<1>3. WalkTyped' /\ walk'.phase = "none"
  BY <1>1, <1>2 DEF WalkTyped, NoWalk
<1>4. ~Walking'
  BY <1>1, <1>2 DEF Walking, Running, CallTypes
<1>5. Walks'
  BY <1>3, <1>4 DEF Walks
<1>6. vol' = vol /\ \A path : True(path)' = True(path)
  BY Static
<1>7. FindsFile' /\ ListsDirectory'
  BY <1>1, <1>6 DEF FindsFile, ListsDirectory
<1>8. QED
  BY <1>2, <1>3, <1>5, <1>7, WalkKeeps

LEMMA Ext2DirBeginKeeps ==
  ASSUME IInv, Consistent, Ext2DirBegin
  PROVE  IInv'
<1>1. Walking
  BY DEF IInv, Walks, Ext2DirBegin
<1>2. PICK d \in Directories : WalksIn(d)
  BY <1>1, WalkIn
<1>3. walk.phase = "open" /\ fs.type = "ext2" /\ WalkTyped
  BY <1>1, WalkIn DEF Ext2DirBegin
<1>4. /\ PathsLead /\ PartsList /\ HeldByExt2 /\ Len(d.at) = 1 /\ Len(d.blocks) \in Nat
      /\ vol.reliable => DirectoryInExt2(d)
  BY <1>3, Ext2Directory
<1>5. InodeOfDir = d.at[1]
  <2>1. InRoot <=> d = vol.root
    BY <1>2, <1>4, InRootIs
  <2>2. CASE d = vol.root
    BY <1>4, <2>1, <2>2 DEF HeldByExt2, InodeOfDir, InRoot
  <2>3. CASE d # vol.root
    <3>1. walk.dir = Shown(d)
      BY <1>2, <2>3 DEF WalksIn
    <3>2. d.at # <<>>
      BY <1>4
    <3>3. Shown(d).opaque = d.at[1]
      BY <3>2, ShownIs
    <3>4. QED
      BY <2>1, <2>3, <3>1, <3>3 DEF InodeOfDir, InRoot
  <2>4. QED
    BY <2>2, <2>3
<1>6. UNCHANGED <<stream, pass, disk, fs, file, ffbo, opened, calls>>
  BY DEF Ext2DirBegin
<1>7. CASE InodeFails(InodeOfDir) /\ NullInode
  <2>1. ~vol.reliable
    BY <1>4, <1>5, <1>7 DEF DirectoryInExt2, InodeReadable, InodeFails, BlockReadable, BlockFails,
                           ReadOK, ReadFails
  <2>2. QED
    BY <1>1, <1>6, <1>7, <2>1, WalkGoesWild
<1>8. CASE /\ walk' = [walk EXCEPT !.phase = "read", !.list = <<>>, !.freed = FALSE,
                                  !.idx = 0, !.at = InodeOfDir]
           /\ UNCHANGED <<call, wild>>
  <2>1. /\ WalkTyped' /\ walk'.todo = walk.todo /\ walk'.path = walk.path
        /\ walk'.name = walk.name /\ walk'.dir = walk.dir /\ walk'.freed = FALSE
        /\ walk'.phase = "read" /\ walk'.list = <<>> /\ walk'.idx = 0 /\ walk'.at = d.at[1]
    BY <1>3, <1>5, <1>8 DEF WalkTyped, NoWalk
  <2>2. ReadsPart(d)'
    BY <1>3, <1>4, <1>6, <2>1 DEF ReadsPart
  <2>3. Lists(walk'.list, d, Earlier(d, walk'.idx))
    BY <1>4, <2>1, ListBegins
  <2>4. walk'.phase # "done"
    BY <2>1
  <2>5. QED
    BY <1>1, <1>2, <1>6, <1>8, <2>1, <2>2, <2>3, <2>4, WalkStays
<1>9. QED
  BY <1>7, <1>8 DEF Ext2DirBegin

LEMMA Ext2DirStepKeeps ==
  ASSUME IInv, Consistent, Ext2DirStep
  PROVE  IInv'
<1>1. Walking
  BY DEF IInv, Walks, Ext2DirStep
<1>2. PICK d \in Directories : WalksIn(d)
  BY <1>1, WalkIn
<1>3. /\ walk.phase = "read" /\ fs.type = "ext2" /\ WalkTyped /\ walk.idx \in Nat
      /\ walk.idx < DirBlocks(walk.at)
  BY <1>1, WalkIn DEF Ext2DirStep
<1>4. /\ PathsLead /\ PartsList /\ Len(d.blocks) \in Nat /\ Parts(d) = 1 .. Len(d.blocks)
      /\ DirBlocks(d.at[1]) = Len(d.blocks)
      /\ vol.reliable => DirectoryInExt2(d)
  BY <1>3, Ext2Directory
<1> DEFINE i == walk.idx + 1
<1>5. /\ walk.at = d.at[1] /\ Lists(walk.list, d, Earlier(d, walk.idx))
      /\ vol.reliable => ~walk.freed
  BY <1>2, <1>3 DEF WalksIn, ReadsPart
<1>6. i \in Parts(d) /\ i - 1 = walk.idx
  BY <1>3, <1>4, <1>5
<1>7. UNCHANGED <<stream, pass, disk, fs, file, ffbo, opened, calls>>
  BY DEF Ext2DirStep
<1>8. PICK block \in BlocksIn(d, i) :
        \/ /\ \/ BlockFails(block)
              \/ \E n \in ReadsInodes(EntriesIn(d, i, block)) : InodeFails(n)
           /\ NullInode
        \/ /\ walk' = [walk EXCEPT !.list = @ \o Dirents(EntriesIn(d, i, block)),
                                   !.freed = EndsFreed(EntriesIn(d, i, block)), !.idx = @ + 1]
           /\ UNCHANGED <<call, wild>>
  BY <1>5, <1>6 DEF Ext2DirStep, BlocksIn, EntriesIn
<1> DEFINE entries == EntriesIn(d, i, block)
<1>9. vol.reliable => /\ BlockReadable(block)
                      /\ \A n \in ReadsInodes(entries) : InodeReadable(n)
                      /\ entries # <<>> => ~Special(entries[Len(entries)])
  BY <1>4, <1>6 DEF DirectoryInExt2
<1> HIDE DEF entries
<1>10. CASE /\ \/ BlockFails(block)
               \/ \E n \in ReadsInodes(entries) : InodeFails(n)
            /\ NullInode
  <2>1. ~vol.reliable
    BY <1>9, <1>10 DEF InodeReadable, InodeFails, BlockReadable, BlockFails, ReadOK, ReadFails
  <2>2. QED
    BY <1>1, <1>7, <1>10, <2>1, WalkGoesWild
<1>11. CASE /\ walk' = [walk EXCEPT !.list = @ \o Dirents(entries),
                                    !.freed = EndsFreed(entries), !.idx = @ + 1]
            /\ UNCHANGED <<call, wild>>
  <2>1. EndsFreed(entries) \in BOOLEAN /\ (vol.reliable => ~EndsFreed(entries))
    <3>1. EndsFreed(entries) = IF entries = <<>> THEN walk.freed
                                                 ELSE Special(entries[Len(entries)])
      BY DEF EndsFreed
    <3>2. Special(entries[Len(entries)]) \in BOOLEAN
      BY DEF Special
    <3>3. walk.freed \in BOOLEAN
      BY <1>3 DEF WalkTyped
    <3> HIDE DEF entries
    <3>4. CASE entries = <<>>
      BY <1>5, <3>1, <3>3, <3>4
    <3>5. CASE entries # <<>>
      BY <1>9, <3>1, <3>2, <3>5
    <3>6. QED
      BY <3>4, <3>5
  <2>2. /\ WalkTyped' /\ walk'.todo = walk.todo /\ walk'.path = walk.path
        /\ walk'.name = walk.name /\ walk'.dir = walk.dir /\ walk'.freed = EndsFreed(entries)
        /\ walk'.phase = "read" /\ walk'.list = walk.list \o Dirents(entries)
        /\ walk'.idx = i /\ walk'.at = walk.at
    <3>1. walk.idx + 1 \in Nat
      BY <1>3
    <3> DEFINE list == walk.list \o Dirents(entries)
               freed == EndsFreed(entries)
               next == walk.idx + 1
    <3>2. /\ walk = [x \in DOMAIN NoWalk |-> walk[x]]
          /\ walk' = [walk EXCEPT !.list = list, !.freed = freed, !.idx = next]
      BY <1>3, <1>11 DEF WalkTyped
    <3>3. freed \in BOOLEAN /\ next \in Nat
      BY <2>1, <3>1
    <3> HIDE DEF list, freed, next
    <3>4. WalkTyped'
      BY <1>3, <3>2, <3>3 DEF WalkTyped, NoWalk
    <3>5. /\ walk'.todo = walk.todo /\ walk'.path = walk.path
          /\ walk'.name = walk.name /\ walk'.dir = walk.dir /\ walk'.freed = freed
          /\ walk'.phase = walk.phase /\ walk'.list = list /\ walk'.idx = next
          /\ walk'.at = walk.at
      BY <3>2 DEF NoWalk
    <3>6. QED
      BY <1>3, <3>4, <3>5 DEF list, freed, next
  <2>3. Lists(walk'.list, d, Earlier(d, i))
    <3>1. Dirents(entries) \in PartLists(d, i)
      BY <1>3 DEF PartLists, entries
    <3>2. Lists(walk.list \o Dirents(entries), d, Earlier(d, i))
      BY <1>3, <1>4, <1>5, <1>6, <3>1, ListGrows
    <3>3. QED
      BY <2>2, <3>2
  <2>4. ReadsPart(d)'
    BY <1>3, <1>4, <1>5, <1>6, <1>7, <2>2 DEF ReadsPart
  <2>5. walk'.phase # "done"
    BY <2>2
  <2>6. QED
    BY <1>1, <1>2, <1>7, <1>11, <2>1, <2>2, <2>3, <2>4, <2>5, WalkStays
<1>12. QED
  BY <1>8, <1>10, <1>11 DEF entries

LEMMA Ext2DirEndsKeeps ==
  ASSUME IInv, Consistent, Ext2DirEnds
  PROVE  IInv'
<1>1. Walking
  BY DEF IInv, Walks, Ext2DirEnds
<1>2. PICK d \in Directories : WalksIn(d)
  BY <1>1, WalkIn
<1>3. /\ walk.phase = "read" /\ fs.type = "ext2" /\ WalkTyped /\ walk.idx \in Nat
      /\ walk.idx >= DirBlocks(walk.at)
  BY <1>1, WalkIn DEF Ext2DirEnds
<1>4. /\ PartsList /\ Len(d.blocks) \in Nat /\ Parts(d) = 1 .. Len(d.blocks)
      /\ DirBlocks(d.at[1]) = Len(d.blocks)
  BY <1>3, Ext2Directory
<1>5. /\ walk.at = d.at[1] /\ walk.idx \in 0 .. Len(d.blocks)
      /\ Lists(walk.list, d, Earlier(d, walk.idx)) /\ (vol.reliable => ~walk.freed)
  BY <1>2, <1>3 DEF WalksIn, ReadsPart
<1>6. walk.idx = Len(d.blocks)
  BY <1>3, <1>4, <1>5
<1>7. Lists(walk.list, d, TrueIn(d.path))
  <2>1. Lists(walk.list, d, Earlier(d, Len(d.blocks)))
    BY <1>5, <1>6
  <2>2. QED
    BY <1>4, <2>1, ListEnds
<1>8. /\ WalkTyped' /\ walk'.todo = walk.todo /\ walk'.path = walk.path
      /\ walk'.name = walk.name /\ walk'.dir = walk.dir /\ walk'.freed = walk.freed
      /\ walk'.phase = "done" /\ walk'.list = walk.list
  BY <1>3 DEF Ext2DirEnds, DirectoryRead, WalkTyped, NoWalk
<1>9. UNCHANGED <<stream, call, pass, disk, fs, file, ffbo, wild, opened, calls>>
  BY DEF Ext2DirEnds
<1>10. walk'.phase # "read"
  BY <1>8
<1>11. QED
  BY <1>1, <1>2, <1>5, <1>7, <1>8, <1>9, <1>10, WalkStays

\* The next name of the path.
LEMMA NextName ==
  ASSUME IInv, Walking, walk.todo # <<>>
  PROVE  /\ Depth < DirNames /\ Depth + 1 <= Len(walk.path) /\ Depth < Len(walk.path)
         /\ Head(walk.todo) = walk.path[Depth + 1]
         /\ Tail(walk.todo) = SubSeq(walk.path, Depth + 2, DirNames)
         /\ Tail(walk.todo) \in Seq(Names) /\ Len(Tail(walk.todo)) = Len(walk.todo) - 1
         /\ Len(walk.todo) \in Nat
<1> DEFINE k == Depth
           n == DirNames
           p == walk.path
<1>1. /\ p \in Seq(Names) /\ k \in Nat /\ n \in Nat /\ k <= n /\ n <= Len(p)
      /\ walk.todo = SubSeq(p, k + 1, n) /\ walk.todo \in Seq(Names)
  BY WalkIn
<1> HIDE DEF k, n, p
<1>2. Len(walk.todo) = n - k
  BY <1>1, PartOf
<1>3. Len(walk.todo) > 0
  BY <1>1
<1>4. k < n
  BY <1>1, <1>2, <1>3
<1>5. Head(walk.todo) = p[k + 1] /\ Tail(walk.todo) = SubSeq(p, k + 2, n)
  BY <1>1, <1>4, PartOf
<1>6. /\ Tail(walk.todo) \in Seq(Names) /\ Len(Tail(walk.todo)) = Len(walk.todo) - 1
      /\ Len(walk.todo) \in Nat
  BY <1>1
<1>7. Len(p) \in Nat
  BY <1>1
<1>8. k + 1 <= Len(p) /\ k < Len(p)
  BY <1>1, <1>4, <1>7
<1>9. QED
  BY <1>4, <1>5, <1>6, <1>8 DEF k, n, p

\* A directory that the path leads through is in the list of the one before.
LEMMA WayOn ==
  ASSUME PathsLead, vol.reliable, NEW path \in Seq(Names), NEW k \in Nat, k < Len(path),
         NEW d, d.path = SubSeq(path, 1, k), Lists(walk.list, d, TrueIn(d.path)),
         NEW e \in Directories, e.path = SubSeq(path, 1, k + 1)
  PROVE  /\ Named(path[k + 1]) # {}
         /\ walk.list[FirstNamed(path[k + 1])].is_dir
<1>1. Len(path) \in Nat
  OBVIOUS
<1>2. Len(SubSeq(path, 1, k + 1)) = k + 1
  BY <1>1, Prefix
<1>3. e.path # <<>>
  BY <1>2
<1>4. e \in vol.truth /\ e.dir
  BY <1>3 DEF Directories, PathsLead
<1>5. e \in TrueIn(d.path) /\ e.path[Len(e.path)] = path[k + 1]
  BY <1>4, PrefixLeads
<1>6. Named(path[k + 1]) # {}
  BY <1>5, EntryThere
<1>7. PICK u \in TrueIn(d.path) :
        walk.list[FirstNamed(path[k + 1])] = Shown(u) /\ u.path[Len(u.path)] = path[k + 1]
  BY <1>6, FoundEntry
<1>8. u = e
  BY <1>5, <1>7, ShownOnce
<1>9. Shown(e).is_dir = e.dir
  BY ShownIs
<1>10. QED
  BY <1>4, <1>6, <1>7, <1>8, <1>9

\* A walk that fails does so where its path leads nowhere, or the device failed.
LEMMA WalkFailsKeeps ==
  ASSUME IInv, Walking, WalkFails, wild' \in BOOLEAN, vol.reliable => ~wild',
         UNCHANGED <<stream, pass, disk, fs, file, ffbo, opened, calls>>,
         vol.reliable => \A t \in True(walk.path) :
           \/ call.op = "opendir" /\ ~t.dir
           \/ call.op = "fopen" /\ walk.mode # "r",
         call.op = "opendir" => walk.path # <<>>
  PROVE  IInv'
<1>1. /\ TypeOK /\ WalkTyped /\ call.busy /\ call.op \in {"fopen", "opendir"}
      /\ call.op = "fopen" => ~stream.open
  BY WalkIn
<1>2. call \in CallTypes /\ FindsFile
  BY DEF IInv, TypeOK
<1>3. /\ call' = [call EXCEPT !.busy = FALSE]
      /\ walk' = [walk EXCEPT !.phase = "none", !.list = <<>>, !.freed = FALSE]
  BY DEF WalkFails, WalkEnds
<1>4. /\ WalkTyped' /\ walk'.phase = "none" /\ walk'.list = <<>> /\ walk'.freed = FALSE
      /\ walk'.path = walk.path /\ walk'.mode = walk.mode
  BY <1>1, <1>3 DEF WalkTyped, NoWalk
<1>5. call'.op = call.op /\ call'.busy = FALSE
  BY <1>2, <1>3 DEF CallTypes
<1>6. Walks'
  BY <1>4, <1>5 DEF Walks, Walking, Running
<1>7. /\ vol' = vol /\ \A path : True(path)' = True(path)
      /\ \A path : TrueIn(path)' = TrueIn(path)
  BY Static
<1>8. FindsFile'
  <2>1. stream'.open => \E t \in True(opened') : stream'.len = t.size
    BY <1>2 DEF FindsFile
  <2>2. vol.reliable /\ call.op = "fopen" /\ walk.mode = "r" => True(walk.path) = {} /\ ~stream.open
    BY <1>1
  <2>3. True(opened)' = True(opened') /\ True(walk.path)' = True(walk.path)
    BY <1>4, <1>7 DEF True
  <2>4. QED
    BY <1>4, <1>5, <1>7, <2>1, <2>2, <2>3 DEF FindsFile
<1>9. ListsDirectory'
  <2>1. True(walk.path)' = True(walk.path)
    BY <1>4, <1>7 DEF True
  <2> DEFINE T == IF walk.path = <<>> \/ \E t \in True(walk.path) : t.dir
                  THEN TrueIn(walk.path) ELSE {}
  <2>2. vol.reliable /\ call.op = "opendir" => T' = {}
    BY <1>4, <2>1
  <2>3. Cardinality({}) = 0 /\ Len(<<>>) = 0
    BY FS_EmptySet
  <2>4. vol.reliable /\ call.op = "opendir" =>
          /\ Len(walk'.list) = Cardinality(T') /\ ~walk'.freed
          /\ \A t \in T' : \E i \in DOMAIN walk'.list :
               walk'.list[i].name = t.path[Len(t.path)] /\ walk'.list[i].is_dir = t.dir
    BY <1>4, <2>2, <2>3
  <2> HIDE DEF T
  <2>5. QED
    BY <1>5, <1>7, <2>4 DEF ListsDirectory, T
<1>10. QED
  BY <1>3, <1>4, <1>6, <1>8, <1>9, WalkKeeps

LEMMA NextDirectoryKeeps ==
  ASSUME IInv, Consistent, NextDirectory
  PROVE  IInv'
<1> DEFINE name == Head(walk.todo)
           k == Depth
           p == walk.path
<1>1. Walking
  BY DEF IInv, Walks, NextDirectory
<1>2. PICK d \in Directories : WalksIn(d)
  BY <1>1, WalkIn
<1>3. /\ WalkTyped /\ Mounted /\ p \in Seq(Names) /\ k \in Nat /\ DirNames \in Nat
      /\ DirNames <= Len(p)
      /\ call.op = "fopen" => DirNames = Len(p) - 1
      /\ call.op = "fopen" => ~stream.open /\ walk.name = walk.path[Len(walk.path)]
      /\ call.op \in {"fopen", "opendir"}
  BY <1>1, WalkIn
<1>4. walk.phase = "done" /\ walk.todo # <<>>
  BY DEF NextDirectory
<1>5. /\ k < DirNames /\ k < Len(p) /\ name = p[k + 1] /\ k + 1 <= Len(p)
      /\ Tail(walk.todo) = SubSeq(p, k + 2, DirNames)
      /\ Tail(walk.todo) \in Seq(Names) /\ Len(Tail(walk.todo)) = Len(walk.todo) - 1
      /\ Len(walk.todo) \in Nat
  BY <1>1, <1>4, NextName
<1>6. PathsLead
  BY <1>3 DEF Consistent, Mounted
<1>7. /\ d.path = SubSeq(p, 1, k) /\ Lists(walk.list, d, TrueIn(d.path))
      /\ vol.reliable => ~walk.freed
  BY <1>2, <1>4 DEF WalksIn
<1>8. UNCHANGED <<stream, pass, disk, fs, file, ffbo, opened, calls>>
  BY DEF NextDirectory
<1>9. wild \in BOOLEAN /\ (vol.reliable => ~wild) /\ walk.freed \in BOOLEAN
  BY DEF IInv, TypeOK, WalkTyped, NeverWild
<1> HIDE DEF name, k, p
<1>10. ASSUME WalkFails, Named(name) = {} \/ ~walk.list[FirstNamed(name)].is_dir,
              wild' \in BOOLEAN, vol.reliable => ~wild'
       PROVE  IInv'
  <2>1. vol.reliable => ~\E e \in Directories : e.path = SubSeq(p, 1, k + 1)
    BY <1>3, <1>5, <1>6, <1>7, <1>10, WayOn
  <2>2. ASSUME vol.reliable, NEW t \in True(p)
        PROVE  call.op = "opendir" /\ ~t.dir
    <3>1. t \in vol.truth /\ t.path = p
      BY DEF True
    <3>2. Len(p) \in Nat
      BY <1>3
    <3>3. k + 1 < Len(p) => \E e \in Directories : e.path = SubSeq(p, 1, k + 1)
      <4>1. k + 1 < Len(p) => k + 1 \in 0 .. Len(p) - 1
        BY <1>3, <3>2
      <4>2. QED
        BY <1>6, <3>1, <4>1 DEF PathsLead
    <3>4. k + 1 = Len(p)
      BY <1>3, <1>5, <2>1, <2>2, <3>2, <3>3
    <3>5. SubSeq(p, 1, k + 1) = p
      BY <1>3, <3>4
    <3>6. ~t.dir
      BY <2>1, <2>2, <3>1, <3>5 DEF Directories
    <3>7. call.op # "fopen"
      BY <1>3, <1>5, <3>2, <3>4
    <3>8. QED
      BY <1>3, <3>6, <3>7
  <2>3. p # <<>>
    BY <1>3, <1>5
  <2>4. vol.reliable => \A t \in True(walk.path) :
          \/ call.op = "opendir" /\ ~t.dir
          \/ call.op = "fopen" /\ walk.mode # "r"
    BY <2>2 DEF p
  <2>5. walk.path # <<>>
    BY <2>3 DEF p
  <2>6. QED
    BY <1>1, <1>8, <1>10, <2>4, <2>5, WalkFailsKeeps
<1>11. CASE PassesFreed(name) /\ wild' = TRUE /\ WalkFails
  <2>1. Named(name) = {} /\ ~vol.reliable
    BY <1>7, <1>11 DEF PassesFreed
  <2>2. QED
    BY <1>10, <1>11, <2>1
<1>12. CASE Named(name) = {} /\ WalkFails /\ UNCHANGED wild
  BY <1>9, <1>10, <1>12
<1>13. CASE Named(name) # {} /\ ~walk.list[FirstNamed(name)].is_dir /\ WalkFails /\ UNCHANGED wild
  BY <1>9, <1>10, <1>13
<1>14. CASE /\ Named(name) # {} /\ walk.list[FirstNamed(name)].is_dir
            /\ Descend /\ UNCHANGED <<call, wild>>
  <2>1. PICK u \in TrueIn(d.path) :
          walk.list[FirstNamed(name)] = Shown(u) /\ u.path[Len(u.path)] = name
    BY <1>7, <1>14, FoundEntry
  <2>2. u \in vol.truth /\ u.dir /\ u \in Directories
    BY <1>14, <2>1, ShownIs DEF TrueIn, Directories
  <2>3. u.path = SubSeq(p, 1, k + 1)
    BY <1>3, <1>5, <1>6, <1>7, <2>1, NameLeads
  <2>4. u # vol.root
    BY <1>6, <2>2, PathFacts
  <2>5. walk' = [walk EXCEPT !.phase = "open", !.todo = Tail(@), !.dir = Shown(u), !.list = <<>>,
                             !.freed = FALSE]
    BY <1>14, <2>1 DEF Descend, name
  <2>6. /\ WalkTyped' /\ walk'.phase = "open" /\ walk'.todo = Tail(walk.todo)
        /\ walk'.dir = Shown(u) /\ walk'.freed = FALSE
        /\ walk'.path = walk.path /\ walk'.name = walk.name
    BY <1>3, <1>5, <2>5 DEF WalkTyped, NoWalk
  <2>7. DirNames' = DirNames
    BY <1>14, <2>6 DEF DirNames
  <2>8. Depth' = k + 1
    <3>1. Depth' = DirNames - Len(Tail(walk.todo)) /\ k = DirNames - Len(walk.todo)
      BY <2>6, <2>7 DEF Depth, k
    <3> DEFINE m == Len(walk.todo)
               l == Len(Tail(walk.todo))
    <3>2. l = m - 1 /\ m \in Nat /\ Depth' = DirNames - l /\ k = DirNames - m
      BY <1>5, <3>1
    <3> HIDE DEF m, l
    <3>3. QED
      BY <1>3, <3>2
  <2>9. /\ vol' = vol /\ Directories' = Directories /\ \A t : Shown(t)' = Shown(t)
    BY <1>8, Static
  <2>10. WalksIn(u)'
    <3>1. u.path = SubSeq(walk'.path, 1, Depth')
      BY <2>3, <2>6, <2>8 DEF p
    <3>2. walk'.dir = (IF u = vol.root THEN Root ELSE Shown(u))'
      BY <2>4, <2>6, <2>9
    <3>3. walk'.phase # "read" /\ walk'.phase # "done" /\ ~walk'.freed
      BY <2>6
    <3>4. QED
      BY <3>1, <3>2, <3>3 DEF WalksIn
  <2>11. Walks'
    <3>1. Depth' + 1 = k + 2 /\ Depth' \in Nat /\ Depth' <= DirNames'
      BY <1>3, <1>5, <2>7, <2>8
    <3>2. walk'.todo = SubSeq(walk'.path, Depth' + 1, DirNames')
      BY <1>5, <2>6, <2>7, <3>1 DEF p
    <3>3. Walking'
      BY <1>1, <1>14 DEF Walking, Running
    <3>4. u \in Directories'
      BY <2>2, <2>9
    <3>5. call'.op = "fopen" => /\ ~stream'.open /\ DirNames' \in Nat
                                /\ walk'.name = walk'.path[Len(walk'.path)]
      BY <1>3, <1>8, <1>14, <2>6, <2>7
    <3>6. QED
      BY <2>6, <2>10, <3>1, <3>2, <3>3, <3>4, <3>5 DEF Walks
  <2>12. call'.busy
    BY <1>1, <1>14 DEF Walking, Running
  <2>13. QED
    BY <1>1, <1>8, <1>9, <1>14, <2>6, <2>11, <2>12, WalkKeeps
<1>15. QED
  <2>1. \/ PassesFreed(name) /\ wild' = TRUE /\ WalkFails
        \/ Named(name) = {} /\ WalkFails /\ UNCHANGED wild
        \/ /\ Named(name) # {} /\ UNCHANGED wild
           /\ \/ walk.list[FirstNamed(name)].is_dir /\ Descend /\ UNCHANGED call
              \/ ~walk.list[FirstNamed(name)].is_dir /\ WalkFails
    BY DEF NextDirectory, name
  <2>2. QED
    BY <1>11, <1>12, <1>13, <1>14, <2>1

\* A walk that has gone down all directories of its path is in the last of them.
LEMMA WalkArrives ==
  ASSUME IInv, Consistent, Walking, walk.phase = "done", walk.todo = <<>>
  PROVE  /\ PathsLead
         /\ \E d \in Directories : /\ d.path = SubSeq(walk.path, 1, DirNames)
                                   /\ Lists(walk.list, d, TrueIn(d.path))
                                   /\ vol.reliable => ~walk.freed
<1>1. PICK d \in Directories : WalksIn(d)
  BY WalkIn
<1>2. PathsLead
  BY WalkIn DEF Consistent, Mounted
<1>3. DirNames \in Nat /\ Depth = DirNames
  <2>1. DirNames \in Nat /\ Len(walk.todo) = 0
    BY WalkIn
  <2>2. QED
    BY <2>1 DEF Depth
<1>4. /\ d.path = SubSeq(walk.path, 1, Depth) /\ Lists(walk.list, d, TrueIn(d.path))
      /\ vol.reliable => ~walk.freed
  BY <1>1 DEF WalksIn
<1>5. d.path = SubSeq(walk.path, 1, DirNames)
  BY <1>3, <1>4
<1>6. QED
  BY <1>2, <1>4, <1>5

LEMMA OpendirReturnsKeeps ==
  ASSUME IInv, Consistent, OpendirReturns
  PROVE  IInv'
<1>1. Walking /\ call.op = "opendir" /\ call.busy
  BY DEF OpendirReturns, Walking, Running
<1>2. /\ walk.phase = "done" /\ walk.todo = <<>> /\ call' = [call EXCEPT !.busy = FALSE]
      /\ walk' = [walk EXCEPT !.phase = "none"]
      /\ UNCHANGED <<stream, pass, disk, fs, file, ffbo, eof, wild, opened, calls>>
  BY DEF OpendirReturns, WalkEnds
<1>3. PICK d \in Directories : /\ d.path = SubSeq(walk.path, 1, DirNames)
                               /\ Lists(walk.list, d, TrueIn(d.path))
                               /\ vol.reliable => ~walk.freed
  BY <1>1, <1>2, WalkArrives
<1>4. /\ PathsLead /\ WalkTyped /\ call \in CallTypes /\ FindsFile
      /\ wild \in BOOLEAN /\ (vol.reliable => ~wild)
  <2>1. PathsLead
    BY <1>1, <1>2, WalkArrives
  <2>2. QED
    BY <2>1 DEF IInv, TypeOK, NeverWild
<1>5. d.path = walk.path
  <2>1. walk.path \in Seq(Names) /\ DirNames = Len(walk.path)
    BY <1>1, WalkIn
  <2> DEFINE p == walk.path
  <2>2. p \in Seq(Names)
    BY <2>1
  <2> HIDE DEF p
  <2>3. SubSeq(p, 1, Len(p)) = p
    BY <2>2
  <2>4. QED
    BY <1>3, <2>1, <2>3 DEF p
<1>6. /\ WalkTyped' /\ walk'.phase = "none" /\ walk'.list = walk.list
      /\ walk'.freed = walk.freed /\ walk'.path = walk.path
  BY <1>2, <1>4 DEF WalkTyped, NoWalk
<1>7. call'.op = "opendir" /\ call'.busy = FALSE
  BY <1>1, <1>2, <1>4 DEF CallTypes
<1>8. Walks'
  BY <1>6, <1>7 DEF Walks, Walking, Running
<1>9. /\ vol' = vol /\ \A path : True(path)' = True(path)
      /\ \A path : TrueIn(path)' = TrueIn(path)
  BY <1>2, Static
<1>10. FindsFile'
  BY <1>2, <1>4, <1>7, <1>9 DEF FindsFile
<1>11. ListsDirectory'
  <2>1. True(walk.path)' = True(walk.path) /\ TrueIn(walk.path)' = TrueIn(walk.path)
    BY <1>6, <1>9 DEF True, TrueIn
  <2>2. walk.path = <<>> \/ \E t \in True(walk.path) : t.dir
    <3>1. d # vol.root => d \in True(walk.path) /\ d.dir
      BY <1>5 DEF Directories, True
    <3>2. d = vol.root => walk.path = <<>>
      BY <1>4, <1>5 DEF PathsLead
    <3>3. QED
      BY <3>1, <3>2
  <2> DEFINE T == IF walk.path = <<>> \/ \E t \in True(walk.path) : t.dir
                  THEN TrueIn(walk.path) ELSE {}
  <2>3. T' = TrueIn(walk.path)
    BY <1>6, <2>1, <2>2
  <2>4. vol.reliable =>
          /\ Len(walk.list) = Cardinality(TrueIn(walk.path)) /\ ~walk.freed
          /\ \A t \in TrueIn(walk.path) : \E i \in DOMAIN walk.list :
               walk.list[i].name = t.path[Len(t.path)] /\ walk.list[i].is_dir = t.dir
    <3>1. TrueIn(walk.path) = TrueIn(d.path)
      BY <1>5
    <3>2. vol.reliable =>
            /\ Len(walk.list) = Cardinality(TrueIn(d.path))
            /\ \A t \in TrueIn(d.path) : \E i \in DOMAIN walk.list :
                 walk.list[i].name = t.path[Len(t.path)] /\ walk.list[i].is_dir = t.dir
      BY <1>3, <1>4, ListCounts
    <3>3. QED
      BY <1>3, <3>1, <3>2
  <2>5. vol.reliable =>
          /\ Len(walk'.list) = Cardinality(T') /\ ~walk'.freed
          /\ \A t \in T' : \E i \in DOMAIN walk'.list :
               walk'.list[i].name = t.path[Len(t.path)] /\ walk'.list[i].is_dir = t.dir
    BY <1>6, <2>3, <2>4
  <2> HIDE DEF T
  <2>6. QED
    BY <1>9, <2>5 DEF ListsDirectory, T
<1>12. QED
  BY <1>1, <1>2, <1>4, <1>6, <1>8, <1>10, <1>11, WalkKeeps

\* The entry that fopen stops at is the file of the path.
LEMMA WalkFinds ==
  ASSUME IInv, Consistent, Running("fopen"), walk.phase = "done", walk.todo = <<>>
  PROVE  /\ PathsLead /\ Walking /\ (vol.reliable => ~walk.freed)
         /\ vol.reliable /\ Named(walk.name) = {} => True(walk.path) = {}
         /\ Named(walk.name) # {} =>
              \E u \in vol.truth : u.path = walk.path /\ Entry = Shown(u)
<1> DEFINE p == walk.path
           k == DirNames
           name == walk.name
<1>1. Walking
  BY DEF Walking
<1>2. call.op = "fopen"
  BY DEF Running
<1>3. /\ p \in Seq(Names) /\ k \in Nat /\ k = Len(p) - 1 /\ name = p[Len(p)]
  BY <1>1, <1>2, WalkIn
<1>4. PathsLead
  BY <1>1, WalkArrives
<1>5. PICK d \in Directories : /\ d.path = SubSeq(p, 1, k)
                               /\ Lists(walk.list, d, TrueIn(d.path))
                               /\ vol.reliable => ~walk.freed
  BY <1>1, WalkArrives
<1> HIDE DEF p, k, name
<1>6. Len(p) \in Nat /\ k < Len(p) /\ k + 1 = Len(p) /\ name = p[k + 1] /\ SubSeq(p, 1, k + 1) = p
  BY <1>3
<1>7. ASSUME vol.reliable, Named(name) = {}, NEW t \in True(p) PROVE FALSE
  <2>1. t \in vol.truth /\ t.path = SubSeq(p, 1, k + 1)
    BY <1>6, <1>7 DEF True
  <2>2. t \in TrueIn(d.path) /\ t.path[Len(t.path)] = name
    BY <1>3, <1>4, <1>5, <1>6, <2>1, PrefixLeads
  <2>3. QED
    BY <1>5, <1>7, <2>2, EntryThere
<1>8. ASSUME Named(name) # {}
      PROVE  \E u \in vol.truth : u.path = p /\ walk.list[FirstNamed(name)] = Shown(u)
  <2>1. PICK u \in TrueIn(d.path) :
          walk.list[FirstNamed(name)] = Shown(u) /\ u.path[Len(u.path)] = name
    BY <1>5, <1>8, FoundEntry
  <2>2. u \in vol.truth
    BY DEF TrueIn
  <2>3. u.path = SubSeq(p, 1, k + 1)
    BY <1>3, <1>4, <1>5, <1>6, <2>1, NameLeads
  <2>4. QED
    BY <1>6, <2>1, <2>2, <2>3
<1>9. QED
  BY <1>1, <1>4, <1>5, <1>7, <1>8 DEF p, name, Entry

LEMMA NotFoundKeeps ==
  ASSUME IInv, Consistent, NotFound
  PROVE  IInv'
<1>1. /\ Running("fopen") /\ walk.phase = "done" /\ walk.todo = <<>> /\ WalkFails
      /\ PassesFreed(walk.name) \/ Named(walk.name) = {}
      /\ wild' = PassesFreed(walk.name)
      /\ UNCHANGED <<stream, pass, disk, fs, file, ffbo, opened, calls>>
  BY DEF NotFound
<1>2. /\ Walking /\ (vol.reliable => ~walk.freed)
      /\ vol.reliable /\ Named(walk.name) = {} => True(walk.path) = {}
  BY <1>1, WalkFinds
<1>3. walk.freed \in BOOLEAN
  BY DEF IInv, TypeOK, WalkTyped
<1>4. wild' \in BOOLEAN /\ (vol.reliable => ~wild')
  BY <1>1, <1>2, <1>3 DEF PassesFreed
<1>5. vol.reliable => True(walk.path) = {}
  BY <1>1, <1>2 DEF PassesFreed
<1>6. call.op # "opendir"
  BY <1>1 DEF Running
<1>7. QED
  BY <1>1, <1>2, <1>4, <1>5, <1>6, WalkFailsKeeps

\* A walk that was refused its mode.
LEMMA RefusedKeeps ==
  ASSUME IInv, Running("fopen"), walk.mode # "r", WalkFails,
         wild' \in BOOLEAN, vol.reliable => ~wild',
         UNCHANGED <<stream, pass, disk, fs, file, ffbo, opened, calls>>
  PROVE  IInv'
<1>1. Walking /\ call.op = "fopen"
  BY DEF Walking, Running
<1>2. QED
  BY <1>1, WalkFailsKeeps

\* The file that fopen opens is the one of the path.
LEMMA OpensKeeps ==
  ASSUME IInv, PathsLead, Running("fopen"), walk.mode = "r",
         NEW u \in vol.truth, u.path = walk.path, Entry = Shown(u), OpenEntry(u.size),
         wild' \in BOOLEAN, vol.reliable => ~wild',
         UNCHANGED <<pass, disk, fs, ffbo, calls>>
  PROVE  IInv'
<1>1. /\ TypeOK /\ WalkTyped /\ Mounted /\ call.busy /\ call.op = "fopen"
  <2>1. Walking
    BY DEF Walking
  <2>2. QED
    BY <2>1, WalkIn DEF Running
<1>2. /\ stream \in StreamTypes /\ call \in CallTypes /\ pass \in PassTypes
      /\ ffbo.f_block \in Nat /\ calls \in Nat
      /\ fs.type \in {"unmounted", "none", "fat", "ext2"}
  BY <1>1 DEF TypeOK
<1>3. u.size \in 0 .. Word - 1 /\ u.size \in Nat
  <2>1. u.size \in 0 .. Word - 1
    BY DEF PathsLead
  <2>2. QED
    BY <2>1, StreamAssumption
<1>4. /\ stream' = [open |-> TRUE, pos |-> 0, len |-> u.size, mode |-> "r"]
      /\ file' = Shown(u).opaque /\ opened' = walk.path
      /\ call' = [call EXCEPT !.busy = FALSE]
      /\ walk' = [walk EXCEPT !.phase = "none", !.list = <<>>, !.freed = FALSE]
  BY DEF OpenEntry, Opened, WalkFails, WalkEnds
<1>5. stream' \in StreamTypes
  BY <1>3, <1>4 DEF StreamTypes
<1>6. call' \in CallTypes /\ call'.op = "fopen" /\ call'.busy = FALSE
  BY <1>1, <1>2, <1>4 DEF CallTypes
<1>7. /\ WalkTyped' /\ walk'.phase = "none" /\ walk'.path = walk.path /\ walk'.mode = walk.mode
  BY <1>1, <1>4 DEF WalkTyped, NoWalk
<1>8. TypeOK'
  BY <1>1, <1>2, <1>5, <1>6, <1>7 DEF TypeOK, Mounted
<1>9. /\ vol' = vol /\ (\A t : Shown(t)' = Shown(t))
      /\ \A path : True(path)' = True(path)
  BY Static
<1>10. Opens'
  <2>1. u.path = opened' /\ stream'.len = u.size /\ file' = Shown(u)'.opaque /\ u \in vol'.truth
    BY <1>4, <1>9
  <2>2. stream'.pos \in -1 .. stream'.len /\ stream'.pos >= 0
    BY <1>3, <1>4
  <2>3. QED
    BY <2>1, <2>2 DEF Opens, IsOpen
<1>11. Walks'
  BY <1>6, <1>7 DEF Walks, Walking, Running
<1>12. Reads' /\ Chained' /\ Delivers' /\ DeliversFile' /\ ListsDirectory'
  BY <1>6 DEF Reads, Chained, Delivers, DeliversFile, ListsDirectory, Running
<1>13. NeverWild'
  BY <1>9 DEF NeverWild
<1>14. FindsFile'
  <2>1. u \in vol'.truth /\ u.path = walk'.path /\ u.path = opened' /\ stream'.len = u.size
        /\ stream'.open
    BY <1>4, <1>7, <1>9
  <2>2. u \in True(walk.path)' /\ u \in True(opened)'
    BY <2>1 DEF True
  <2>3. QED
    BY <2>1, <2>2 DEF FindsFile
<1>15. QED
  BY <1>8, <1>10, <1>11, <1>12, <1>13, <1>14 DEF IInv

LEMMA FatFopenKeeps ==
  ASSUME IInv, Consistent, FatFopen
  PROVE  IInv'
<1>1. /\ Running("fopen") /\ walk.phase = "done" /\ walk.todo = <<>> /\ fs.type = "fat"
      /\ Named(walk.name) # {} /\ UNCHANGED <<pass, disk, fs, ffbo, wild, calls>>
      /\ \/ walk.mode = "r" /\ OpenEntry(Entry.byte_size)
         \/ walk.mode # "r" /\ WalkFails /\ UNCHANGED <<stream, file, eof, opened>>
  BY DEF FatFopen, Finds
<1>2. wild \in BOOLEAN /\ (vol.reliable => ~wild)
  BY DEF IInv, TypeOK, NeverWild
<1>3. CASE walk.mode = "r" /\ OpenEntry(Entry.byte_size)
  <2>1. PICK u \in vol.truth : u.path = walk.path /\ Entry = Shown(u)
    BY <1>1, WalkFinds
  <2>2. PathsLead
    BY <1>1, WalkFinds
  <2>3. Entry.byte_size = u.size
    BY <1>1, <2>1, ShownIs
  <2>4. OpenEntry(u.size)
    BY <1>3, <2>3
  <2>5. QED
    BY <1>1, <1>2, <1>3, <2>1, <2>2, <2>4, OpensKeeps
<1>4. CASE walk.mode # "r" /\ WalkFails /\ UNCHANGED <<stream, file, eof, opened>>
  BY <1>1, <1>2, <1>4, RefusedKeeps
<1>5. QED
  BY <1>1, <1>3, <1>4

LEMMA Ext2FopenKeeps ==
  ASSUME IInv, Consistent, Ext2Fopen
  PROVE  IInv'
<1>1. /\ Running("fopen") /\ walk.phase = "done" /\ walk.todo = <<>> /\ fs.type = "ext2"
      /\ Named(walk.name) # {} /\ UNCHANGED <<pass, disk, fs, ffbo, calls>>
      /\ \/ /\ walk.mode # "r" /\ wild' = walk.freed
            /\ WalkFails /\ UNCHANGED <<stream, file, eof, opened>>
         \/ /\ walk.mode = "r" /\ InodeFails(Entry.opaque)
            /\ NullInode /\ UNCHANGED <<stream, file, eof, opened>>
         \/ /\ walk.mode = "r"
            /\ OpenEntry(Inode(Entry.opaque).size) /\ wild' = walk.freed
  BY DEF Ext2Fopen, Finds, FreesAgain
<1>2. PathsLead /\ Walking /\ (vol.reliable => ~walk.freed)
  BY <1>1, WalkFinds
<1>3. PICK u \in vol.truth : u.path = walk.path /\ Entry = Shown(u)
  BY <1>1, WalkFinds
<1>4. walk.freed \in BOOLEAN
  BY DEF IInv, TypeOK, WalkTyped
<1>5. HeldByExt2
  BY <1>1 DEF Consistent
<1>6. Entry.opaque = u.at[1]
  <2>1. Len(u.at) = 1 /\ Len(<<>>) = 0
    BY <1>5 DEF HeldByExt2
  <2> DEFINE a == u.at
  <2>2. a = <<>> => Len(a) = Len(<<>>)
    OBVIOUS
  <2>3. a # <<>>
    <3>1. Len(a) = 1
      BY <2>1
    <3> HIDE DEF a
    <3>2. QED
      BY <2>1, <2>2, <3>1
  <2>4. QED
    BY <1>3, <2>3, ShownIs
<1>7. Inode(u.at[1]).size = u.size /\ (vol.reliable => InodeReadable(u.at[1]))
  BY <1>5 DEF HeldByExt2, FileInExt2
<1>8. CASE walk.mode # "r" /\ wild' = walk.freed /\ WalkFails /\ UNCHANGED <<stream, file, eof, opened>>
  BY <1>1, <1>2, <1>4, <1>8, RefusedKeeps
<1>9. CASE InodeFails(Entry.opaque) /\ NullInode /\ UNCHANGED <<stream, file, eof, opened>>
  <2>1. ~vol.reliable
    BY <1>6, <1>7, <1>9 DEF InodeReadable, InodeFails, BlockReadable, BlockFails, ReadOK, ReadFails
  <2>2. QED
    BY <1>1, <1>2, <1>9, <2>1, WalkGoesWild
<1>10. CASE walk.mode = "r" /\ OpenEntry(Inode(Entry.opaque).size) /\ wild' = walk.freed
  <2>1. OpenEntry(u.size)
    BY <1>6, <1>7, <1>10
  <2>2. wild' \in BOOLEAN /\ (vol.reliable => ~wild')
    BY <1>2, <1>4, <1>10
  <2>3. QED
    BY <1>1, <1>2, <1>3, <1>10, <2>1, <2>2, OpensKeeps
<1>11. QED
  BY <1>1, <1>8, <1>9, <1>10

\* A call of fopen or opendir begins in the root directory.
LEMMA BeginsWalk ==
  ASSUME IInv, Consistent, NEW op \in {"fopen", "opendir"}, NEW path \in Seq(Names), NEW name,
         NEW mode, BeginWalk(op, path, name, mode), op = "fopen" => ~stream.open,
         op = "fopen" => name \in Names,
         UNCHANGED <<stream, pass, disk, fs, file, ffbo, eof, wild, opened>>
  PROVE  IInv'
<1> DEFINE full == IF op = "fopen" THEN Append(path, name) ELSE path
           n == Len(path)
<1>1. /\ TypeOK /\ Opens /\ FindsFile /\ NeverWild /\ fs.type \in {"fat", "ext2"}
      /\ calls' = calls + 1 /\ call' = NewCall(op, 0, 1, 0)
      /\ walk' = [NoWalk EXCEPT !.phase = "open", !.todo = path, !.name = name, !.mode = mode,
                                !.path = full]
  BY DEF IInv, BeginWalk, Begins
<1>2. PathsLead /\ Mounted
  BY <1>1 DEF Consistent, Mounted
<1>3. /\ stream \in StreamTypes /\ pass \in PassTypes /\ ffbo.f_block \in Nat /\ calls \in Nat
      /\ wild \in BOOLEAN
  BY <1>1 DEF TypeOK
<1>4. call' \in CallTypes /\ call'.op = op /\ call'.busy
  <2>1. stream.len \in Int
    BY <1>3 DEF StreamTypes
  <2>2. QED
    BY <1>1, <2>1 DEF NewCall, CallTypes
<1>5. /\ full \in Seq(Names) /\ n \in Nat
      /\ Len(full) = IF op = "fopen" THEN n + 1 ELSE n
      /\ SubSeq(full, 1, n) = path
      /\ op = "fopen" => full[Len(full)] = name
  <2>1. n \in Nat /\ SubSeq(path, 1, n) = path
    OBVIOUS
  <2>2. CASE op = "fopen"
    <3> DEFINE q == Append(path, name)
    <3>1. /\ q \in Seq(Names) /\ Len(q) = n + 1 /\ q[n + 1] = name
          /\ \A i \in 1 .. n : q[i] = path[i]
      BY <2>2
    <3>2. full = q
      BY <2>2
    <3> HIDE DEF q, full
    <3>3. /\ SubSeq(q, 1, n) \in Seq(Names) /\ Len(SubSeq(q, 1, n)) = n
          /\ \A i \in 1 .. n : SubSeq(q, 1, n)[i] = q[i]
      <4>1. n <= Len(q)
        BY <2>1, <3>1
      <4>2. QED
        BY <2>1, <3>1, <4>1, Prefix
    <3> DEFINE r == SubSeq(q, 1, n)
    <3>4. r \in Seq(Names) /\ Len(r) = n /\ \A i \in 1 .. n : r[i] = path[i]
      BY <3>1, <3>3
    <3> HIDE DEF r
    <3>5. r = path
      BY <3>4
    <3>6. QED
      BY <2>1, <2>2, <3>1, <3>2, <3>5 DEF r
  <2>3. CASE op # "fopen"
    BY <2>1, <2>3
  <2>4. QED
    BY <2>2, <2>3
<1> HIDE DEF full
<1>6. /\ WalkTyped' /\ walk'.phase = "open" /\ walk'.todo = path /\ walk'.name = name
      /\ walk'.path = full /\ walk'.dir = Root /\ walk'.freed = FALSE
  BY <1>1, <1>5 DEF WalkTyped, NoWalk
<1>7. DirNames' = n /\ Depth' = 0
  <2>1. DirNames' = Len(full) - IF op = "fopen" THEN 1 ELSE 0
    BY <1>4, <1>6 DEF DirNames
  <2>2. DirNames' = n
    BY <1>5, <2>1
  <2>3. Depth' = DirNames' - Len(path)
    BY <1>6 DEF Depth
  <2>4. QED
    BY <1>5, <2>2, <2>3
<1>8. /\ vol' = vol /\ Directories' = Directories /\ (\A t : Shown(t)' = Shown(t))
      /\ \A p : True(p)' = True(p)
  BY Static
<1>9. WalksIn(vol.root)'
  <2>1. vol.root.path = <<>> /\ SubSeq(full, 1, 0) = <<>>
    BY <1>2, <1>5 DEF PathsLead
  <2>2. vol'.root.path = SubSeq(walk'.path, 1, Depth')
    BY <1>6, <1>7, <1>8, <2>1
  <2>3. walk'.dir = (IF vol.root = vol.root THEN Root ELSE Shown(vol.root))'
    BY <1>6 DEF Root
  <2>4. walk'.phase # "read" /\ walk'.phase # "done" /\ ~walk'.freed
    BY <1>6
  <2>5. QED
    BY <2>2, <2>3, <2>4 DEF WalksIn
<1>10. Walks'
  <2>1. Depth' \in Nat /\ Depth' <= DirNames' /\ DirNames' \in Nat
    BY <1>5, <1>7
  <2>2. walk'.todo = SubSeq(walk'.path, Depth' + 1, DirNames')
    BY <1>5, <1>6, <1>7
  <2>3. call'.op = "fopen" => ~stream'.open /\ walk'.name = walk'.path[Len(walk'.path)]
    BY <1>4, <1>5, <1>6
  <2>4. (vol.root)' \in Directories'
    BY DEF Directories
  <2>5. Walking'
    BY <1>4 DEF Walking, Running
  <2>6. QED
    BY <1>6, <1>9, <2>1, <2>2, <2>3, <2>4, <2>5 DEF Walks
<1>11. TypeOK'
  BY <1>1, <1>2, <1>3, <1>4, <1>6 DEF TypeOK, Mounted
<1>12. Opens'
  BY <1>1, <1>8 DEF Opens, IsOpen
<1>13. Reads' /\ Chained' /\ Delivers' /\ DeliversFile' /\ ListsDirectory'
  BY <1>4 DEF Reads, Chained, Delivers, DeliversFile, ListsDirectory, Running
<1>14. NeverWild'
  BY <1>1, <1>8 DEF NeverWild
<1>15. FindsFile'
  BY <1>1, <1>4, <1>8 DEF FindsFile
<1>16. QED
  BY <1>10, <1>11, <1>12, <1>13, <1>14, <1>15 DEF IInv

LEMMA FopenKeeps ==
  ASSUME IInv, Consistent, NEW path \in Paths, NEW mode, Fopen(path, mode)
  PROVE  IInv'
<1>1. path \in Seq(Names) /\ path # <<>>
  BY VolumeAssumption DEF Fopen
<1> DEFINE n == Len(path)
           q == SubSeq(path, 1, n - 1)
<1>2. q \in Seq(Names) /\ path[n] \in Names
  <2>1. n \in Nat /\ n >= 1
    BY <1>1
  <2>2. n - 1 \in Nat /\ n - 1 <= Len(path) /\ n \in 1 .. Len(path)
    BY <2>1
  <2>3. q \in Seq(Names)
    BY <1>1, <2>2, Prefix
  <2>4. path[n] \in Names
    BY <1>1, <2>2, ElementOf
  <2>5. QED
    BY <2>3, <2>4
<1>3. /\ BeginWalk("fopen", q, path[n], mode) /\ ~stream.open
      /\ UNCHANGED <<stream, pass, disk, fs, file, ffbo, eof, wild, opened>>
  BY DEF Fopen
<1> HIDE DEF q, n
<1>4. QED
  BY <1>2, <1>3, BeginsWalk

LEMMA OpendirKeeps ==
  ASSUME IInv, Consistent, NEW path \in Paths, Opendir(path)
  PROVE  IInv'
<1>1. path \in Seq(Names)
  BY VolumeAssumption
<1>2. /\ BeginWalk("opendir", path, <<>>, "r")
      /\ UNCHANGED <<stream, pass, disk, fs, file, ffbo, eof, wild, opened>>
  BY DEF Opendir
<1>3. QED
  BY <1>1, <1>2, BeginsWalk

(***************************************************************************)
(* The beginning, and the calls that neither walk nor read.                *)
(***************************************************************************)
LEMMA InitHolds == Init => IInv
<1> SUFFICES ASSUME Init PROVE IInv
  OBVIOUS
<1>1. /\ fs = Unmounted /\ stream = Closed /\ call = NoCall /\ pass = NoPass /\ walk = NoWalk
      /\ ffbo = [f_block |-> 0, cluster |-> 0, lost |-> FALSE] /\ wild = FALSE /\ calls = 0
  BY DEF Init
<1>2. BlockSize \in Nat \ {0}
  BY StreamAssumption
<1>3. fs.type = "unmounted" /\ ~Mounted
  BY <1>1 DEF Unmounted, Mounted
<1>4. stream \in StreamTypes /\ ~stream.open
  BY <1>1 DEF Closed, StreamTypes
<1>5. call \in CallTypes /\ call.op = "none" /\ ~call.busy
  BY <1>1 DEF NoCall, CallTypes
<1>6. pass \in PassTypes
  BY <1>1, <1>2 DEF NoPass, PassTypes
<1>7. WalkTyped /\ walk.phase = "none"
  BY <1>1 DEF NoWalk, WalkTyped
<1>8. TypeOK
  BY <1>1, <1>3, <1>4, <1>5, <1>6, <1>7 DEF TypeOK
<1>9. Walks /\ Reads /\ Chained /\ Delivers /\ DeliversFile /\ ListsDirectory
  BY <1>5, <1>7 DEF Walks, Walking, Running, Reads, Chained, Delivers, DeliversFile, ListsDirectory
<1>10. Opens /\ FindsFile /\ NeverWild
  BY <1>1, <1>4, <1>5 DEF Opens, FindsFile, NeverWild
<1>11. QED
  BY <1>8, <1>9, <1>10 DEF IInv

\* What ext2_init does not look at is in order on a reliable device.
LEMMA MountFacts ==
  ASSUME Consistent', Mount, wild \in BOOLEAN, vol.reliable => ~wild
  PROVE  /\ fs'.type \in {"unmounted", "none", "fat", "ext2"}
         /\ wild' \in BOOLEAN /\ (vol.reliable => ~wild')
<1>1. disk' = disk
  BY DEF Mount
<1>2. fs' = NoFs \/ fs' = FatGeometry(vol.bs) \/ fs' = Ext2Geometry(vol.sb)
  BY DEF Mount, FatInit, Ext2Init
<1>3. FatGeometry(vol.bs).type = "fat" /\ Ext2Geometry(vol.sb).type = "ext2" /\ NoFs.type = "none"
  BY DEF FatGeometry, Ext2Geometry, NoFs
<1>4. fs'.type \in {"none", "fat", "ext2"}
  BY <1>2, <1>3
<1>5. \/ wild' = wild
      \/ /\ fs' = Ext2Geometry(vol.sb) /\ wild' = TRUE
         /\ ReadFails(get_sector_num(BgdtBlock), BgdtSectors)
  BY DEF Mount, Ext2Init
<1>6. ASSUME vol.reliable, fs' = Ext2Geometry(vol.sb) PROVE OnDevice(get_sector_num(BgdtBlock), BgdtSectors)
  <2>1. vol' = vol /\ fs'.type = "ext2"
    BY <1>1, <1>3, <1>6 DEF vol
  <2>2. OnDevice(get_sector_num(BgdtBlock), BgdtSectors)'
    BY <1>6, <2>1 DEF Consistent, HeldByExt2
  <2>3. BgdtSectors' = BgdtSectors
    BY <2>1 DEF BgdtSectors, GroupsByInodes
  <2>4. QED
    BY <2>1, <2>2, <2>3 DEF OnDevice
<1>7. vol.reliable => ~wild'
  BY <1>5, <1>6 DEF ReadFails
<1>8. QED
  BY <1>4, <1>5, <1>7

LEMMA MountKeeps ==
  ASSUME IInv, Consistent', Mount
  PROVE  IInv'
<1>1. fs = Unmounted /\ UNCHANGED <<stream, call, pass, disk, walk, file, ffbo, eof, opened, calls>>
  BY DEF Mount
<1>2. TypeOK /\ Walks
  BY DEF IInv
<1>3. fs.type = "unmounted"
  BY <1>1 DEF Unmounted
<1>4. /\ stream \in StreamTypes /\ call \in CallTypes /\ pass \in PassTypes /\ WalkTyped
      /\ ffbo.f_block \in Nat /\ calls \in Nat
      /\ ~stream.open /\ call.op = "none" /\ ~call.busy
  BY <1>2, <1>3 DEF TypeOK, Mounted
<1>5. walk.phase = "none"
  BY <1>2, <1>4 DEF Walks, Walking, Running
<1>6. vol' = vol
  BY <1>1 DEF vol
<1>7. /\ fs'.type \in {"unmounted", "none", "fat", "ext2"}
      /\ wild' \in BOOLEAN /\ (vol.reliable => ~wild')
  <2>1. wild \in BOOLEAN /\ (vol.reliable => ~wild)
    BY <1>2 DEF IInv, TypeOK, NeverWild
  <2>2. QED
    BY <2>1, MountFacts
<1>8. TypeOK'
  BY <1>1, <1>4, <1>7 DEF TypeOK, WalkTyped
<1>9. Walks' /\ Reads' /\ Chained' /\ Delivers' /\ DeliversFile' /\ ListsDirectory'
  BY <1>1, <1>4, <1>5 DEF Walks, Walking, Running, Reads, Chained, Delivers, DeliversFile,
                         ListsDirectory
<1>10. Opens' /\ FindsFile' /\ NeverWild'
  BY <1>1, <1>4, <1>6, <1>7 DEF Opens, FindsFile, NeverWild
<1>11. QED
  BY <1>8, <1>9, <1>10 DEF IInv

LEMMA FcloseKeeps ==
  ASSUME IInv, Fclose
  PROVE  IInv'
<1>1. /\ stream' = Closed /\ call' = NoCall /\ pass' = NoPass /\ walk' = NoWalk
      /\ UNCHANGED <<disk, fs, ffbo, wild, calls>>
  BY DEF Fclose
<1>2. TypeOK /\ NeverWild
  BY DEF IInv
<1>3. /\ ffbo.f_block \in Nat /\ calls \in Nat /\ wild \in BOOLEAN
      /\ fs.type \in {"unmounted", "none", "fat", "ext2"}
  BY <1>2 DEF TypeOK
<1>4. BlockSize \in Nat \ {0}
  BY StreamAssumption
<1>5. stream' \in StreamTypes /\ ~stream'.open
  BY <1>1 DEF Closed, StreamTypes
<1>6. call' \in CallTypes /\ call'.op = "none" /\ ~call'.busy
  BY <1>1 DEF NoCall, CallTypes
<1>7. pass' \in PassTypes
  BY <1>1, <1>4 DEF NoPass, PassTypes
<1>8. WalkTyped' /\ walk'.phase = "none"
  BY <1>1 DEF NoWalk, WalkTyped
<1>9. TypeOK'
  BY <1>1, <1>3, <1>5, <1>6, <1>7, <1>8 DEF TypeOK
<1>10. Walks' /\ Reads' /\ Chained' /\ Delivers' /\ DeliversFile' /\ ListsDirectory'
  BY <1>6, <1>8 DEF Walks, Walking, Running, Reads, Chained, Delivers, DeliversFile, ListsDirectory
<1>11. vol' = vol
  BY <1>1 DEF vol
<1>12. Opens' /\ FindsFile' /\ NeverWild'
  BY <1>1, <1>2, <1>5, <1>6, <1>11 DEF Opens, FindsFile, NeverWild
<1>13. QED
  BY <1>9, <1>10, <1>12 DEF IInv

\* A position is set within the file.
LEMMA FseekKeeps ==
  ASSUME IInv, Consistent, NEW offset \in Offsets, NEW whence \in {"SEEK_SET", "SEEK_END", "SEEK_CUR"},
         Fseek(offset, whence)
  PROVE  IInv'
<1>1. /\ stream.open /\ fs.type \in {"fat", "ext2"} /\ ~call.busy /\ calls' = calls + 1
      /\ stream' = [stream EXCEPT !.pos = Clamped(Target(offset, whence, 0), 0)]
      /\ call' = [NewCall("fseek", 0, 1, 0) EXCEPT !.busy = FALSE]
      /\ UNCHANGED <<pass, disk, fs, walk, file, ffbo, eof, wild, opened>>
  BY DEF Fseek, Begins, SeekTo
<1>2. TypeOK /\ Opens /\ Walks /\ FindsFile /\ NeverWild
  BY DEF IInv
<1>3. /\ stream \in StreamTypes /\ pass \in PassTypes /\ WalkTyped
      /\ ffbo.f_block \in Nat /\ calls \in Nat /\ wild \in BOOLEAN
  BY <1>2 DEF TypeOK
<1>4. /\ stream.pos \in Int /\ stream.len \in Int /\ stream.mode = "r"
      /\ stream = [open |-> stream.open, pos |-> stream.pos, len |-> stream.len, mode |-> stream.mode]
  BY <1>3 DEF StreamTypes
<1>5. PathsLead
  BY <1>1 DEF Consistent
<1>6. PICK t \in vol.truth : IsOpen(t)
  BY <1>1, <1>2 DEF Opens
<1>7. stream.len \in Nat
  <2>1. t.size \in 0 .. Word - 1
    BY <1>5 DEF PathsLead
  <2>2. QED
    BY <1>6, <2>1, StreamAssumption DEF IsOpen
<1> DEFINE target == Target(offset, whence, 0)
           pos == Clamped(target, 0)
<1>8. target \in Int
  BY <1>4, VolumeAssumption DEF Target
<1> HIDE DEF target
<1>9. pos \in 0 .. stream.len
  BY <1>7, <1>8 DEF Clamped, Smaller
<1>10. stream' = [stream EXCEPT !.pos = pos]
  BY <1>1 DEF target
<1> HIDE DEF pos
<1>11. /\ stream' \in StreamTypes /\ stream'.open /\ stream'.len = stream.len /\ stream'.pos = pos
  BY <1>1, <1>3, <1>9, <1>10 DEF StreamTypes
<1>12. call' \in CallTypes /\ call'.op = "fseek" /\ ~call'.busy
  <2>1. call' = [op |-> "fseek", busy |-> FALSE, start |-> 0, size |-> 1, bytes |-> 0,
                 len |-> stream.len, total |-> 0, ret |-> 0, failed |-> FALSE]
    BY <1>1 DEF NewCall
  <2>2. QED
    BY <1>4, <2>1 DEF CallTypes
<1>13. calls' \in Nat
  BY <1>1, <1>3
<1>14. TypeOK'
  BY <1>1, <1>3, <1>11, <1>12, <1>13 DEF TypeOK, Mounted, WalkTyped
<1>15. walk.phase = "none"
  BY <1>1, <1>2 DEF Walks, Walking, Running
<1>16. Walks' /\ Reads' /\ Chained' /\ Delivers' /\ DeliversFile' /\ ListsDirectory'
  BY <1>1, <1>12, <1>15 DEF Walks, Walking, Running, Reads, Chained, Delivers, DeliversFile,
                           ListsDirectory
<1>17. /\ vol' = vol /\ (\A u : Shown(u)' = Shown(u)) /\ \A path : True(path)' = True(path)
  BY <1>1, Static
<1>18. Opens'
  <2>1. t \in vol'.truth /\ IsOpen(t)'
    BY <1>1, <1>6, <1>11, <1>17 DEF IsOpen
  <2>2. stream'.pos \in -1 .. stream'.len /\ stream'.pos >= 0
    BY <1>7, <1>9, <1>11
  <2>3. QED
    BY <2>1, <2>2 DEF Opens
<1>19. FindsFile' /\ NeverWild'
  BY <1>1, <1>2, <1>11, <1>12, <1>17 DEF FindsFile, NeverWild
<1>20. QED
  BY <1>14, <1>16, <1>18, <1>19 DEF IInv

(***************************************************************************)
(* Reading.                                                                *)
(***************************************************************************)

\* The file that is open is one, and has its size.
LEMMA OpenFile ==
  ASSUME PathsLead, Opens, stream.open
  PROVE  \E t \in vol.truth : /\ IsOpen(t) /\ t.size \in 0 .. Word - 1 /\ stream.len = t.size
                              /\ True(opened) = {t} /\ \A u \in vol.truth : IsOpen(u) => u = t
<1>1. PICK t \in vol.truth : IsOpen(t)
  BY DEF Opens
<1>2. t.path = opened /\ stream.len = t.size
  BY <1>1 DEF IsOpen
<1>3. \A u \in vol.truth : u.path = opened => u = t
  BY <1>2 DEF PathsLead
<1>4. True(opened) = {t}
  BY <1>2, <1>3 DEF True
<1>5. \A u \in vol.truth : IsOpen(u) => u = t
  BY <1>3 DEF IsOpen
<1>6. t.size \in 0 .. Word - 1
  BY DEF PathsLead
<1>7. QED
  BY <1>1, <1>2, <1>4, <1>5, <1>6

LEMMA ReadIn ==
  ASSUME IInv, Consistent, Running("fread")
  PROVE  /\ PathsLead /\ Mounted /\ Opens /\ Passes /\ Delivers /\ stream.open
         /\ walk.phase = "none" /\ ~Walking
         /\ stream \in StreamTypes /\ call \in CallTypes /\ pass \in PassTypes /\ WalkTyped
         /\ ffbo.f_block \in Nat /\ calls \in Nat /\ wild \in BOOLEAN
         /\ fs.type \in {"unmounted", "none", "fat", "ext2"}
<1>1. TypeOK /\ Opens /\ Walks /\ Passes /\ Delivers
  BY DEF IInv, Reads
<1>2. /\ stream \in StreamTypes /\ call \in CallTypes /\ pass \in PassTypes /\ WalkTyped
      /\ ffbo.f_block \in Nat /\ calls \in Nat /\ wild \in BOOLEAN
      /\ fs.type \in {"unmounted", "none", "fat", "ext2"}
  BY <1>1 DEF TypeOK
<1>3. Mounted
  BY <1>1 DEF TypeOK, Running
<1>4. PathsLead
  BY <1>3 DEF Consistent, Mounted
<1>5. ~Walking /\ walk.phase = "none"
  BY <1>1 DEF Walks, Walking, Running
<1>6. stream.open
  BY <1>1 DEF Passes
<1>7. QED
  BY <1>1, <1>2, <1>3, <1>4, <1>5, <1>6

\* A step of a read that goes on.
LEMMA ReadKeeps ==
  ASSUME IInv, Consistent, Running("fread"),
         UNCHANGED <<call, disk, fs, walk, file, wild, opened, calls>>,
         stream' \in StreamTypes, stream'.open, stream'.len = stream.len,
         stream'.pos \in -1 .. stream'.len, vol.reliable => stream'.pos >= 0,
         pass' \in PassTypes, ffbo'.f_block \in Nat, Passes', Chained', Delivers'
  PROVE  IInv'
<1>1. /\ Mounted /\ Opens /\ stream.open /\ walk.phase = "none" /\ ~Walking
      /\ call \in CallTypes /\ WalkTyped /\ calls \in Nat /\ wild \in BOOLEAN
      /\ fs.type \in {"unmounted", "none", "fat", "ext2"}
  BY ReadIn
<1>2. TypeOK'
  BY <1>1 DEF TypeOK, Mounted, WalkTyped
<1>3. /\ vol' = vol /\ (\A u : Shown(u)' = Shown(u)) /\ \A path : True(path)' = True(path)
  BY Static
<1>4. Opens'
  <2>1. PICK t \in vol.truth : IsOpen(t)
    BY <1>1 DEF Opens
  <2>2. t \in vol'.truth /\ IsOpen(t)'
    BY <1>3, <2>1 DEF IsOpen
  <2>3. QED
    BY <1>3, <2>2 DEF Opens
<1>5. Walks' /\ Reads' /\ DeliversFile' /\ ListsDirectory'
  <2>1. call.op = "fread" /\ call.busy
    BY DEF Running
  <2>2. QED
    BY <1>1, <2>1 DEF Walks, Walking, Running, Reads, DeliversFile, ListsDirectory
<1>6. FindsFile' /\ NeverWild'
  <2>1. FindsFile /\ NeverWild /\ call.op = "fread"
    BY DEF IInv, Running
  <2>2. QED
    BY <1>1, <1>3, <2>1 DEF FindsFile, NeverWild
<1>7. QED
  BY <1>2, <1>4, <1>5, <1>6 DEF IInv

\* A read begins at the position, over no more than the file has left.
LEMMA ReadBegins ==
  ASSUME NEW len \in 0 .. Word - 1, NEW p \in -1 .. len, stream.len = len, stream.pos = p,
         NEW size \in Sizes, NEW nmemb \in Counts
  PROVE  /\ size \in Nat \ {0} /\ Whole(size, Smaller(size * nmemb, Left)) \in Nat
         /\ p + Whole(size, Smaller(size * nmemb, Left)) <= len
<1>1. size \in Nat \ {0} /\ nmemb \in Nat
  BY VolumeAssumption
<1>2. size * nmemb \in Nat
  BY <1>1
<1>3. Word \in Nat \ {0} /\ len \in Nat /\ p \in Int /\ p <= len
  BY StreamAssumption
<1> DEFINE some == Smaller(size * nmemb, Left)
           n == Whole(size, some)
<1>4. len - p \in Nat
  BY <1>3
<1>5. Left \in Nat /\ Left <= len - p
  <2>1. (len - p) % Word \in 0 .. Word - 1
    BY <1>3, <1>4, Division
  <2>2. (len - p) % Word <= len - p
    BY <1>4, NoWrap
  <2>3. Left = (len - p) % Word
    BY DEF Left
  <2>4. QED
    BY <2>1, <2>2, <2>3
<1>6. some \in Nat /\ some <= Left
  BY <1>2, <1>5 DEF Smaller
<1> HIDE DEF some
<1>7. n \in 0 .. some
  BY <1>1, <1>6, WholeMembers
<1>8. n \in Nat /\ p + n <= len
  BY <1>3, <1>4, <1>5, <1>6, <1>7
<1>9. QED
  BY <1>1, <1>8 DEF some

\* The range of a read is the asked one; one that begins before the file wraps, and
\* has no pass, or one at the end of a block.
LEMMA ReadRange ==
  ASSUME NEW len \in 0 .. Word - 1, NEW p \in -1 .. len, NEW n \in Nat, p + n <= len,
         BeginPasses(p, n, <<>>)
  PROVE  /\ p >= 0 => PassesFrom' = p /\ PassesUpto' = p + n /\ ~pass'.over
         /\ p = -1 /\ ~pass'.over => pass'.first = pass'.last /\ pass'.from = BlockSize - 1
<1>1. Word \in Nat \ {0} /\ BlockSize \in Nat \ {0} /\ Word % BlockSize = 0
  BY StreamAssumption
<1>2. p \in Int /\ p \in -1 .. Word - 1 /\ p + n \in -1 .. Word - 1
  BY <1>1
<1>3. /\ PassesFrom' = p % Word /\ PassesUpto' = (p + n) % Word
      /\ pass'.first \in Nat /\ pass'.last \in Nat /\ pass'.from = p % BlockSize
      /\ pass'.upto \in Offset
      /\ pass'.over => PassesUpto' < PassesFrom'
      /\ ~pass'.over => pass'.cur \in pass'.first .. pass'.last
  BY <1>2, PassesBegin
<1>4. /\ p % Word = IF p = -1 THEN Word - 1 ELSE p
      /\ (p + n) % Word = IF p + n = -1 THEN Word - 1 ELSE p + n
  BY <1>2, Unsigned
<1>5. p >= 0 => PassesFrom' = p /\ PassesUpto' = p + n /\ ~pass'.over
  BY <1>2, <1>3, <1>4
<1>6. ASSUME p = -1, ~pass'.over
      PROVE  pass'.first = pass'.last /\ pass'.from = BlockSize - 1
  <2> DEFINE f == pass'.first
             l == pass'.last
             i == pass'.from
             j == pass'.upto
  <2>1. f * BlockSize + i = Word - 1 /\ l * BlockSize + j \in 0 .. Word - 1
    <3>1. PassesFrom' = f * BlockSize + i /\ PassesUpto' = l * BlockSize + j
      BY DEF PassesFrom, PassesUpto
    <3>2. PassesFrom' = Word - 1 /\ PassesUpto' \in 0 .. Word - 1
      BY <1>1, <1>2, <1>3, <1>4, <1>6
    <3>3. QED
      BY <3>1, <3>2
  <2>2. f \in Nat /\ l \in Nat /\ f <= l
    BY <1>3, <1>6
  <2>3. i = BlockSize - 1
    <3> DEFINE q == -1
               r == BlockSize - 1
    <3>1. q \in Int /\ r \in 0 .. BlockSize - 1 /\ q * BlockSize + r = -1
      BY <1>1
    <3> HIDE DEF q, r
    <3>2. (q * BlockSize + r) % BlockSize = r
      BY <1>1, <3>1, DivisionIsUnique
    <3>3. QED
      BY <1>3, <1>6, <3>1, <3>2 DEF r
  <2>4. j \in 0 .. BlockSize - 1
    BY <1>3 DEF Offset
  <2> HIDE DEF f, l, i, j
  <2>5. f < l => f * BlockSize + BlockSize <= l * BlockSize
    BY <1>1, <2>2, Multiples
  <2>6. f * BlockSize \in Int /\ l * BlockSize \in Int
    BY <1>1, <2>2
  <2>7. ~(f < l)
    <3> DEFINE fb == f * BlockSize
               lb == l * BlockSize
    <3>1. /\ fb \in Int /\ lb \in Int /\ (f < l => fb + BlockSize <= lb)
          /\ fb + i = Word - 1 /\ lb + j \in 0 .. Word - 1
      BY <2>1, <2>5, <2>6
    <3> HIDE DEF fb, lb
    <3>2. QED
      BY <1>1, <2>3, <2>4, <3>1
  <2>8. f = l
    BY <2>2, <2>7
  <2>9. QED
    BY <2>3, <2>8 DEF f, l, i
<1>7. QED
  BY <1>5, <1>6

LEMMA FreadKeeps ==
  ASSUME IInv, Consistent, NEW size \in Sizes, NEW nmemb \in Counts, Fread(size, nmemb)
  PROVE  IInv'
<1> DEFINE p == stream.pos
           n == Whole(size, Smaller(size * nmemb, Left))
<1>1. /\ stream.open /\ fs.type \in {"fat", "ext2"} /\ ~call.busy /\ calls' = calls + 1
      /\ call' = NewCall("fread", p, size, n) /\ BeginPasses(p, n, <<>>)
      /\ ffbo' = [f_block |-> 0, cluster |-> file, lost |-> FALSE]
      /\ UNCHANGED <<stream, disk, fs, walk, file, eof, wild, opened>>
  BY DEF Fread, Begins, BeginFread
<1>2. TypeOK /\ Opens /\ Walks /\ FindsFile /\ NeverWild
  BY DEF IInv
<1>3. /\ stream \in StreamTypes /\ WalkTyped /\ calls \in Nat /\ wild \in BOOLEAN
  BY <1>2 DEF TypeOK
<1>4. PathsLead /\ (fs.type = "fat" => HeldByFat)
  BY <1>1 DEF Consistent
<1>5. PICK t \in vol.truth : /\ IsOpen(t) /\ t.size \in 0 .. Word - 1 /\ stream.len = t.size
                             /\ True(opened) = {t} /\ \A u \in vol.truth : IsOpen(u) => u = t
  BY <1>1, <1>2, <1>4, OpenFile
<1>6. /\ p \in -1 .. t.size /\ (vol.reliable => p >= 0) /\ p \in Int
  BY <1>1, <1>2, <1>3, <1>5 DEF Opens, StreamTypes
<1>7. size \in Nat \ {0} /\ n \in Nat /\ p + n <= t.size
  BY <1>5, <1>6, ReadBegins
<1> HIDE DEF n
<1>8. /\ call' \in CallTypes /\ call'.op = "fread" /\ call'.busy = TRUE /\ call'.start = p
      /\ call'.bytes = n
  <2>1. call' = [op |-> "fread", busy |-> TRUE, start |-> p, size |-> size, bytes |-> n,
                 len |-> stream.len, total |-> 0, ret |-> 0, failed |-> FALSE]
    BY <1>1 DEF NewCall
  <2>2. stream.len \in Int
    BY <1>3 DEF StreamTypes
  <2>3. QED
    BY <1>6, <1>7, <2>1, <2>2 DEF CallTypes
<1>9. /\ pass' \in PassTypes /\ pass'.buf = <<>> /\ pass'.total = 0
      /\ ~pass'.over => pass'.cur \in pass'.first .. pass'.last
      /\ Reached' = PassesFrom'
  BY <1>1, <1>6, <1>7, PassesBegin
<1>10. /\ p >= 0 => PassesFrom' = p /\ PassesUpto' = p + n /\ ~pass'.over
       /\ p = -1 /\ ~pass'.over => pass'.first = pass'.last /\ pass'.from = BlockSize - 1
  BY <1>1, <1>5, <1>6, <1>7, ReadRange
<1>11. TypeOK'
  BY <1>1, <1>3, <1>8, <1>9 DEF TypeOK, Mounted, WalkTyped
<1>12. /\ vol' = vol /\ (\A u : Shown(u)' = Shown(u)) /\ \A path : True(path)' = True(path)
  BY <1>1, Static
<1>13. Opens'
  BY <1>1, <1>2, <1>5, <1>12 DEF Opens, IsOpen
<1>14. walk.phase = "none"
  BY <1>1, <1>2 DEF Walks, Walking, Running
<1>15. Walks' /\ ListsDirectory' /\ DeliversFile'
  BY <1>1, <1>8, <1>14 DEF Walks, Walking, Running, ListsDirectory, DeliversFile
<1>16. FindsFile' /\ NeverWild'
  BY <1>1, <1>2, <1>8, <1>12 DEF FindsFile, NeverWild
<1>17. Passes'
  <2>1. /\ stream'.open /\ call'.start \in -1 .. stream'.len
        /\ call'.start + call'.bytes <= stream'.len /\ (vol'.reliable => call'.start >= 0)
    BY <1>1, <1>5, <1>6, <1>7, <1>8, <1>12
  <2>2. stream'.pos = call'.start + pass'.total
    BY <1>1, <1>6, <1>8, <1>9
  <2>3. call'.start = -1 => pass'.buf = <<>> /\ pass'.total <= 0
    BY <1>9
  <2>4. Len(pass'.buf) = pass'.total
    BY <1>9
  <2>5. call'.start = -1 /\ ~pass'.over =>
          pass'.first = pass'.last /\ pass'.from = BlockSize - 1 /\ pass'.total = 0
    BY <1>8, <1>9, <1>10
  <2>6. call'.start >= 0 => /\ PassesFrom' = call'.start /\ PassesUpto' = call'.start + call'.bytes
                            /\ pass'.total = Reached' - PassesFrom'
    <3>1. call'.start >= 0 => PassesFrom' = p /\ PassesUpto' = p + n
      BY <1>8, <1>10
    <3>2. p - p = 0
      BY <1>6
    <3>3. QED
      BY <1>8, <1>9, <3>1, <3>2
  <2>7. pass'.failed = FALSE
    BY <1>1 DEF BeginPasses
  <2>8. QED
    BY <1>9, <2>1, <2>2, <2>3, <2>4, <2>5, <2>6, <2>7 DEF Passes
<1>18. Chained'
  <2>1. ffbo'.f_block = 0 /\ ffbo'.cluster = file
    BY <1>1
  <2>2. ~pass'.over => ffbo'.f_block <= pass'.cur
    BY <1>9, <2>1 DEF PassTypes
  <2>3. fs.type = "fat" /\ ~t.dir /\ 0 < Len(t.at) => file = t.at[0 + 1]
    <3>1. Len(<<>>) = 0
      OBVIOUS
    <3>2. 0 < Len(t.at) => t.at # <<>>
      BY <3>1
    <3>3. QED
      BY <1>5, <3>2, ShownIs DEF IsOpen
  <2>4. ASSUME NEW u \in vol'.truth, IsOpen(u)' PROVE u = t
    <3>1. IsOpen(u) /\ u \in vol.truth
      BY <1>1, <1>12, <2>4 DEF IsOpen
    <3>2. QED
      BY <1>5, <3>1
  <2>5. QED
    BY <1>1, <2>1, <2>2, <2>3, <2>4 DEF Chained
<1>19. Delivers'
  <2>1. DOMAIN pass'.buf = {} /\ Len(pass'.buf) = pass'.total /\ 1 .. pass'.total = {}
    BY <1>9
  <2>2. vol'.reliable => ~pass'.over
    BY <1>6, <1>10, <1>12
  <2>3. QED
    BY <2>1, <2>2 DEF Delivers
<1>20. Reads'
  BY <1>17 DEF Reads
<1>21. QED
  BY <1>11, <1>13, <1>15, <1>16, <1>18, <1>19, <1>20 DEF IInv

\* An empty file of FAT has nothing to read.
LEMMA FatFreadNothingKeeps ==
  ASSUME IInv, Consistent, FatFreadNothing
  PROVE  IInv'
<1>1. /\ Running("fread") /\ NothingToRead
      /\ pass' = [pass EXCEPT !.over = TRUE, !.total = -1]
      /\ UNCHANGED <<stream, call, disk, fs, walk, file, ffbo, eof, wild, opened, calls>>
  BY DEF FatFreadNothing, NothingToRead
<1>2. /\ Passes /\ Delivers /\ Chained /\ Opens /\ stream.open /\ stream \in StreamTypes
      /\ pass \in PassTypes /\ ffbo.f_block \in Nat
  BY <1>1, ReadIn DEF IInv
<1>3. /\ pass' \in PassTypes /\ pass'.over /\ pass'.buf = pass.buf /\ pass'.total = -1
      /\ pass'.failed = pass.failed
  <2>1. pass' = [cur |-> pass.cur, first |-> pass.first, from |-> pass.from, last |-> pass.last,
                 upto |-> pass.upto, buf |-> pass.buf, total |-> -1, over |-> TRUE,
                 failed |-> pass.failed]
    BY <1>1, <1>2 DEF PassTypes
  <2>2. -1 \in Int
    OBVIOUS
  <2>3. QED
    BY <1>2, <2>1, <2>2 DEF PassTypes
<1>4. vol' = vol /\ NothingToRead'
  BY <1>1 DEF vol, NothingToRead
<1>5. Passes'
  BY <1>1, <1>2, <1>3, <1>4 DEF Passes
<1>6. Chained'
  BY <1>1, <1>2, <1>3, <1>4 DEF Chained, Running, IsOpen, Shown
<1>7. Delivers'
  <2>1. (\A path : True(path)' = True(path)) /\ \A u, i : TrueByte(u, i)' = TrueByte(u, i)
    BY <1>1, Static
  <2>2. \A u \in True(opened) : ChainKnown => \A i \in DOMAIN pass.buf :
          \/ pass.buf[i] = TrueByte(u, call.start + i - 1)
          \/ pass.failed /\ pass.buf[i] = -1
    BY <1>1, <1>2 DEF Delivers
  <2>3. QED
    BY <1>1, <1>3, <1>4, <2>1, <2>2 DEF Delivers, ChainKnown
<1>8. QED
  BY <1>1, <1>2, <1>3, <1>5, <1>6, <1>7, ReadKeeps DEF Opens

\* What stands in the table, or where the code takes it to be, is a number.
LEMMA NumbersInTable ==
  ASSUME Consistent, fs.type = "fat"
  PROVE  \A cluster : NextInTable(cluster) \in Nat
<1> SUFFICES ASSUME NEW cluster PROVE NextInTable(cluster) \in Nat
  OBVIOUS
<1>1. vol.table \in [DOMAIN vol.table -> Nat]
  BY DEF Consistent, HeldByFat
<1> DEFINE stored == Stored(FatSector(cluster), FatIndex(cluster))
<1>2. stored \in Nat
  BY <1>1 DEF Stored
<1> HIDE DEF stored
<1>3. Widened(stored) \in Nat
  BY <1>2 DEF Widened
<1>4. QED
  BY <1>3 DEF NextInTable, stored

\* What is asked of the volume in a file of FAT.
LEMMA FatFile ==
  ASSUME Consistent, fs.type = "fat", NEW t \in vol.truth, ~t.dir
  PROVE  FileInFat(t) /\ t.at \in Seq(1 .. Bad - 1) /\ Len(t.at) \in Nat
<1>1. FileInFat(t)
  BY DEF Consistent, HeldByFat
<1>2. t.at \in Seq(1 .. Bad - 1)
  BY <1>1 DEF FileInFat
<1>3. Len(t.at) \in Nat
  BY <1>2
<1>4. QED
  BY <1>1, <1>2, <1>3

LEMMA FatChainStepKeeps ==
  ASSUME IInv, Consistent, FatChainStep
  PROVE  IInv'
<1>1. /\ Running("fread") /\ ~pass.over /\ fs.type = "fat"
      /\ ffbo.f_block # pass.cur
      /\ UNCHANGED <<stream, call, pass, disk, fs, walk, file, eof, wild, opened, calls>>
  BY DEF FatChainStep, FatReads, Behind
<1>2. PICK next \in NextClusters(ffbo.cluster) :
        ffbo' = [f_block |-> ffbo.f_block + 1, cluster |-> next,
                 lost |-> ffbo.lost \/ next = Bad]
  BY DEF FatChainStep
<1>3. /\ Passes /\ Delivers /\ Chained /\ Opens /\ stream.open /\ stream \in StreamTypes
      /\ pass \in PassTypes /\ ffbo.f_block \in Nat
  BY <1>1, ReadIn DEF IInv
<1>4. vol' = vol
  BY <1>1 DEF vol
<1> DEFINE k == ffbo.f_block + 1
<1>5. /\ ffbo'.f_block = k /\ ffbo'.cluster = next /\ k \in Nat
      /\ ffbo'.lost <=> ffbo.lost \/ next = Bad
  <2>1. ffbo'.f_block = k /\ ffbo'.cluster = next /\ ffbo'.lost = (ffbo.lost \/ next = Bad)
    BY <1>2
  <2>2. k \in Nat
    BY <1>3
  <2>3. QED
    BY <2>1, <2>2
<1>6. Passes'
  BY <1>1, <1>3, <1>4 DEF Passes, PassesFrom, PassesUpto, Reached, NothingToRead
<1>7. Chained'
  <2> SUFFICES ASSUME NEW t \in vol.truth, IsOpen(t), ~t.dir
               PROVE  /\ k <= pass.cur
                      /\ k < Len(t.at) => \/ next = t.at[k + 1]
                                          \/ /\ ~vol.reliable /\ next \in Nat
                                             /\ ffbo.lost \/ next = Bad
    BY <1>1, <1>4, <1>5 DEF Chained, Running, IsOpen, Shown
  <2>1. /\ ffbo.f_block <= pass.cur
        /\ ffbo.f_block < Len(t.at) => \/ ffbo.cluster = t.at[k]
                                       \/ /\ ~vol.reliable /\ ffbo.lost
                                          /\ ffbo.cluster \in Nat
    BY <1>1, <1>3 DEF Chained
  <2>2. k <= pass.cur
    BY <1>1, <1>3, <2>1 DEF PassTypes
  <2>3. FileInFat(t) /\ Len(t.at) \in Nat
    BY <1>1, FatFile
  <2>4. ASSUME k < Len(t.at)
        PROVE  \/ next = t.at[k + 1]
               \/ ~vol.reliable /\ next \in Nat /\ (ffbo.lost \/ next = Bad)
    <3>1. k \in 1 .. Len(t.at) - 1 /\ k \in 1 .. Len(t.at) /\ ffbo.f_block < Len(t.at)
      BY <1>3, <2>3, <2>4
    <3>2. fs.fat_type # "FAT12" /\ NextInTable(t.at[k]) = t.at[k + 1]
      BY <2>3, <3>1 DEF FileInFat, Linked
    <3>3. \/ next = NextInTable(ffbo.cluster) /\ ReadOK(FatSector(ffbo.cluster), 1)
          \/ next = Bad /\ ReadFails(FatSector(ffbo.cluster), 1)
      BY <3>2 DEF NextClusters
    <3>4. CASE ffbo.cluster = t.at[k]
      <4>1. vol.reliable => OnDevice(FatSector(t.at[k]), 1)
        BY <2>3, <2>4, <3>1 DEF FileInFat
      <4>2. next = Bad => next = NextInTable(ffbo.cluster) \/ ~vol.reliable
        BY <3>3, <3>4, <4>1 DEF ReadFails
      <4>3. QED
        BY <3>2, <3>3, <3>4, <4>2, TableMarks
    <3>5. CASE ~vol.reliable /\ ffbo.lost
      <4>1. next \in Nat
        BY <1>1, <3>3, NumbersInTable, TableMarks
      <4>2. QED
        BY <3>5, <4>1
    <3>6. QED
      BY <2>1, <3>1, <3>4, <3>5
  <2>5. QED
    BY <2>2, <2>4
<1>8. Delivers'
  <2>1. (\A path : True(path)' = True(path)) /\ \A u, i : TrueByte(u, i)' = TrueByte(u, i)
    BY <1>1, Static
  <2>2. QED
    BY <1>1, <1>3, <1>4, <1>5, <2>1 DEF Delivers, Running, NothingToRead, ChainKnown
<1>9. QED
  BY <1>1, <1>3, <1>5, <1>6, <1>7, <1>8, ReadKeeps DEF Opens

\* A pass within the file, and one behind its end.
LEMMA PassRange ==
  ASSUME IInv, Consistent, Running("fread"), ~pass.over, NEW t, t.size \in Nat, stream.len = t.size
  PROVE  /\ pass \in PassTypes /\ pass.cur \in pass.first .. pass.last
         /\ call.start \in Int /\ call.bytes \in Nat /\ pass.total \in Int /\ call.start >= -1
         /\ call.start + call.bytes <= t.size
         /\ stream.pos = call.start + pass.total /\ Len(pass.buf) = pass.total
         /\ Moves \in 0 .. BlockSize
         /\ call.start = -1 => /\ Moves = 0 /\ Transferred(-1) = 0 /\ pass.total = 0
                               /\ pass.cur = pass.last /\ pass.buf = <<>>
         /\ call.start >= 0 =>
              /\ stream.pos = pass.cur * BlockSize + Segment.from /\ stream.pos >= 0
              /\ call.start + pass.total + Moves <= call.start + call.bytes
              /\ pass.cur = pass.last => pass.total + Moves = call.bytes
              /\ pass.cur < pass.last =>
                   /\ PassesFrom + pass.total + Moves = (pass.cur + 1) * BlockSize
         /\ ~(pass.cur * BlockSize < t.size) =>
              /\ Moves = 0 /\ Transferred(-1) = 0
              /\ call.start >= 0 => pass.total = call.bytes
<1>1. Passes /\ call \in CallTypes /\ pass \in PassTypes
  BY ReadIn
<1>2. /\ pass.cur \in pass.first .. pass.last
      /\ call.start \in -1 .. t.size /\ call.start + call.bytes <= t.size
      /\ stream.pos = call.start + pass.total /\ Len(pass.buf) = pass.total
      /\ call.start = -1 => /\ pass.first = pass.last /\ pass.from = BlockSize - 1
                            /\ pass.total = 0 /\ pass.buf = <<>>
      /\ call.start >= 0 => /\ PassesFrom = call.start /\ PassesUpto = call.start + call.bytes
                            /\ pass.total = Reached - PassesFrom
  BY <1>1 DEF Passes
<1>3. /\ call.start \in Int /\ call.bytes \in Nat /\ pass.total \in Int
      /\ pass.cur \in Nat /\ pass.first \in Nat /\ pass.last \in Nat
  BY <1>1 DEF CallTypes, PassTypes
<1>4. /\ Reached = pass.cur * BlockSize + Segment.from
      /\ Segment.from \in Offset
      /\ PassesFrom \in Nat /\ PassesFrom <= Reached /\ Reached \in Nat
      /\ PassesUpto \in Nat /\ Moves \in 0 .. BlockSize
      /\ Transferred(-1) = IF WholeBlock THEN -1 ELSE Moves
      /\ WholeBlock => Moves = BlockSize
      /\ pass.cur < pass.last => Reached + Moves = (pass.cur + 1) * BlockSize
      /\ PassesFrom <= PassesUpto =>
           /\ Reached + Moves <= PassesUpto
           /\ pass.cur = pass.last => Reached + Moves = PassesUpto
      /\ pass.first = pass.last /\ pass.from = BlockSize - 1 => Moves = 0
  BY <1>1, <1>2, PassFacts
<1> DEFINE c == pass.cur
           cb == pass.cur * BlockSize
           nb == (pass.cur + 1) * BlockSize
           from == Segment.from
           total == pass.total
           start == call.start
           bytes == call.bytes
           m == Moves
           reached == Reached
           lo == PassesFrom
           up == PassesUpto
           fails == Transferred(-1)
<1>5. BlockSize \in Nat \ {0}
  BY StreamAssumption
<1>6. cb \in Int
  BY <1>3, <1>5
<1>7. m = 0 => fails = 0
  BY <1>4, <1>5
<1>8. start = -1 => m = 0 /\ pass.cur = pass.last
  BY <1>2, <1>3, <1>4
<1>9. /\ start \in -1 .. t.size /\ start + bytes <= t.size /\ start \in Int /\ bytes \in Nat
      /\ total \in Int /\ reached \in Nat /\ m \in 0 .. BlockSize /\ from \in Offset
      /\ reached = cb + from /\ lo \in Nat /\ up \in Nat /\ t.size \in Nat
      /\ start >= 0 => lo = start /\ up = start + bytes /\ total = reached - lo
      /\ lo <= up => reached + m <= up /\ (pass.cur = pass.last => reached + m = up)
      /\ pass.cur < pass.last => reached + m = nb
      /\ stream.pos = start + total
  BY <1>2, <1>3, <1>4
<1> HIDE DEF c, cb, nb, from, total, start, bytes, m, reached, lo, up, fails
<1>10. start = -1 \/ start >= 0
  BY <1>9
<1>11. start >= 0 =>
         /\ stream.pos = cb + from /\ stream.pos >= 0
         /\ start + total + m <= start + bytes
         /\ pass.cur = pass.last => total + m = bytes
         /\ pass.cur < pass.last => lo + total + m = nb
  BY <1>5, <1>9
<1>12. ~(cb < t.size) => m = 0 /\ (start >= 0 => total = bytes)
  <2>1. CASE start = -1
    BY <1>8, <1>10, <2>1
  <2>2. CASE start >= 0
    BY <1>5, <1>6, <1>9, <1>11, <2>2 DEF Offset
  <2>3. QED
    BY <1>10, <2>1, <2>2
<1>13. start >= -1
  BY <1>9
<1>14. QED
  BY <1>1, <1>2, <1>3, <1>4, <1>7, <1>8, <1>9, <1>11, <1>12, <1>13
  DEF c, cb, nb, from, total, start, bytes, m, reached, lo, up, fails

\* What a read of a block answers.
LEMMA BlockAnswers ==
  ASSUME NEW sector, NEW r \in BlockReads(sector)
  PROVE  \/ /\ r.ret = BlockSize /\ OnDevice(sector, BlockSectors)
            /\ \A i \in 0 .. BlockSize - 1 : r.data[i] = sector * SectorSize + i
         \/ /\ r.ret = -1 /\ ReadFails(sector, BlockSectors)
            /\ \A i \in 0 .. BlockSize - 1 : r.data[i] = -1
<1> DEFINE read == [ret |-> BlockSize, data |-> [i \in 0 .. BlockSize - 1 |-> sector * SectorSize + i]]
           lost == [ret |-> -1, data |-> [i \in 0 .. BlockSize - 1 |-> -1]]
<1>1. \/ r = read /\ OnDevice(sector, BlockSectors)
      \/ r = lost /\ ReadFails(sector, BlockSectors)
  BY DEF BlockReads, ReadOK
<1>2. /\ read.ret = BlockSize
      /\ \A i \in 0 .. BlockSize - 1 : read.data[i] = sector * SectorSize + i
  OBVIOUS
<1>3. lost.ret = -1 /\ \A i \in 0 .. BlockSize - 1 : lost.data[i] = -1
  OBVIOUS
<1> HIDE DEF read, lost
<1>4. QED
  BY <1>1, <1>2, <1>3

\* The bytes that a pass appends are those of the file, if the block is one of it.
LEMMA PassBytes ==
  ASSUME IInv, Consistent, Running("fread"), ~pass.over,
         NEW t, t.size \in Nat, stream.len = t.size,
         NEW sector, NEW r \in BlockReads(sector),
         pass.cur * BlockSize < t.size =>
           /\ sector \in Int \/ ~OnDevice(sector, BlockSectors)
           /\ ChainKnown =>
                sector = t.blocks[pass.cur + 1] \/ ~OnDevice(sector, BlockSectors)
           /\ vol.reliable =>
                sector = t.blocks[pass.cur + 1] /\ OnDevice(sector, BlockSectors)
  PROVE  /\ r.ret \in {-1, BlockSize} /\ Transferred(r.ret) \in -1 .. BlockSize
         /\ Transferred(r.ret) = -1 \/ Transferred(r.ret) = Moves
         /\ r.ret = BlockSize => Transferred(r.ret) = Moves
         /\ call.start = -1 => Transferred(r.ret) = 0
         /\ vol.reliable => Transferred(r.ret) = Moves /\ (r.ret = -1 => Moves = 0 /\ pass.total = call.bytes)
         /\ \A j \in 1 .. Transferred(r.ret) :
              LET b == r.data[Segment.from + j - 1]
                  true == TrueByte(t, call.start + pass.total + j - 1)
              IN b \in Int /\ (ChainKnown => b = true \/ (r.ret = -1 /\ b = -1)) /\ (vol.reliable => b = true)
<1>1. /\ pass \in PassTypes /\ pass.cur \in pass.first .. pass.last
      /\ call.start \in Int /\ call.start >= -1
      /\ stream.pos = call.start + pass.total
      /\ Moves \in 0 .. BlockSize
      /\ call.start = -1 => Moves = 0 /\ Transferred(-1) = 0
      /\ call.start >= 0 => stream.pos = pass.cur * BlockSize + Segment.from
      /\ ~(pass.cur * BlockSize < t.size) =>
           /\ Moves = 0 /\ Transferred(-1) = 0
           /\ call.start >= 0 => pass.total = call.bytes
      /\ pass.total \in Int
  BY PassRange
<1>2. /\ Segment.from \in Offset /\ Segment.from + Moves <= BlockSize
      /\ Transferred(-1) = IF WholeBlock THEN -1 ELSE Moves
  BY <1>1, PassFacts
<1>3. vol.reliable => call.start >= 0
  BY ReadIn DEF Passes
<1>4. BlockSize \in Nat \ {0} /\ SectorSize \in Nat \ {0}
  BY StreamAssumption, VolumeAssumption
<1>5. \/ /\ r.ret = BlockSize /\ OnDevice(sector, BlockSectors)
         /\ \A i \in 0 .. BlockSize - 1 : r.data[i] = sector * SectorSize + i
      \/ /\ r.ret = -1 /\ ReadFails(sector, BlockSectors)
         /\ \A i \in 0 .. BlockSize - 1 : r.data[i] = -1
  BY BlockAnswers
<1> DEFINE n == Transferred(r.ret)
           k == pass.cur
           from == Segment.from
<1>6. r.ret = BlockSize => n = Moves
  BY DEF Moves
<1>7. r.ret = -1 => n = Transferred(-1)
  OBVIOUS
<1>8. k \in Nat /\ from \in 0 .. BlockSize - 1
  BY <1>1, <1>2 DEF PassTypes, Offset
<1> HIDE DEF n, k, from
<1>9. n \in -1 .. BlockSize /\ (n = -1 \/ n = Moves)
  BY <1>1, <1>2, <1>4, <1>5, <1>6, <1>7
<1>10. call.start = -1 => n = 0
  BY <1>1, <1>5, <1>6, <1>7
<1>11. vol.reliable => n = Moves /\ (r.ret = -1 => Moves = 0 /\ pass.total = call.bytes)
  <2>1. CASE pass.cur * BlockSize < t.size
    <3>1. vol.reliable => ~ReadFails(sector, BlockSectors)
      BY <2>1 DEF ReadFails
    <3>2. -1 # BlockSize
      BY <1>4
    <3>3. QED
      BY <1>5, <1>6, <3>1, <3>2
  <2>2. CASE ~(pass.cur * BlockSize < t.size)
    BY <1>1, <1>3, <1>5, <1>6, <1>7, <2>2
  <2>3. QED
    BY <2>1, <2>2
<1>12. ASSUME NEW j \in 1 .. n
       PROVE  LET b == r.data[Segment.from + j - 1]
                  true == TrueByte(t, call.start + pass.total + j - 1)
              IN b \in Int /\ (ChainKnown => b = true \/ (r.ret = -1 /\ b = -1)) /\ (vol.reliable => b = true)
  <2> DEFINE i == from + j - 1
  <2>1. n = Moves /\ Moves > 0 /\ j \in 1 .. Moves /\ j \in Int
    BY <1>1, <1>9
  <2>2. i \in 0 .. BlockSize - 1
    <3>1. from + Moves <= BlockSize
      BY <1>2 DEF from
    <3>2. QED
      BY <1>1, <1>4, <1>8, <2>1, <3>1
  <2>3. pass.cur * BlockSize < t.size
    BY <1>1, <2>1
  <2>4. call.start >= 0
    BY <1>1, <2>1
  <2>5. call.start + pass.total = k * BlockSize + from
    BY <1>1, <2>4 DEF k, from
  <2>6. call.start + pass.total + j - 1 = k * BlockSize + i /\ k * BlockSize \in Int
    <3>1. k * BlockSize \in Int
      BY <1>4, <1>8
    <3> DEFINE kb == k * BlockSize
               at == call.start + pass.total
    <3>2. kb \in Int /\ at = kb + from
      BY <2>5, <3>1
    <3> HIDE DEF kb, at
    <3>3. at + j - 1 = kb + i
      BY <1>8, <2>1, <3>2
    <3>4. QED
      BY <3>1, <3>3 DEF kb, at
  <2> HIDE DEF i
  <2>7. TrueByte(t, call.start + pass.total + j - 1) = t.blocks[k + 1] * SectorSize + i
    <3>1. (k * BlockSize + i) \div BlockSize = k /\ (k * BlockSize + i) % BlockSize = i
      <4>1. BlockSize \in Nat \ {0} /\ k \in Int /\ i \in 0 .. BlockSize - 1
        BY <1>4, <1>8, <2>2
      <4>2. QED
        BY ONLY <4>1, DivisionIsUnique
    <3>2. QED
      BY <2>6, <3>1 DEF TrueByte
  <2>8. CASE r.ret = -1 /\ r.data[i] = -1
    <3>1. ~vol.reliable
      BY <1>11, <2>1, <2>8
    <3>2. QED
      BY <2>8, <3>1 DEF i, from
  <2>9. CASE OnDevice(sector, BlockSectors) /\ r.data[i] = sector * SectorSize + i
    <3>1. sector \in Int
      BY <2>3, <2>9
    <3>2. sector * SectorSize \in Int
      BY <1>4, <3>1
    <3>3. r.data[i] \in Int
      BY <2>2, <2>9, <3>2
    <3>4. /\ ChainKnown => sector = t.blocks[k + 1]
          /\ vol.reliable => sector = t.blocks[k + 1]
      BY <2>3, <2>9 DEF k
    <3>5. QED
      BY <2>7, <2>9, <3>3, <3>4 DEF i, from
  <2>10. QED
    BY <1>5, <2>2, <2>8, <2>9
<1>13. r.ret \in {-1, BlockSize}
  BY <1>5
<1>14. QED
  BY <1>6, <1>9, <1>10, <1>11, <1>12, <1>13 DEF n

\* A pass over a block of the file, or over one that cannot be read.
LEMMA PassKeeps ==
  ASSUME IInv, Consistent, Running("fread"), ~pass.over,
         UNCHANGED <<call, disk, fs, walk, file, ffbo, wild, opened, calls>>,
         NEW t \in vol.truth, IsOpen(t), t.size \in 0 .. Word - 1, True(opened) = {t},
         NEW sector, NEW r \in BlockReads(sector), FreadPass(r),
         pass.cur * BlockSize < t.size =>
           /\ sector \in Int \/ ~OnDevice(sector, BlockSectors)
           /\ ChainKnown =>
                sector = t.blocks[pass.cur + 1] \/ ~OnDevice(sector, BlockSectors)
           /\ vol.reliable =>
                sector = t.blocks[pass.cur + 1] /\ OnDevice(sector, BlockSectors)
  PROVE  IInv'
<1> DEFINE n == Transferred(r.ret)
           got == [i \in 1 .. n |-> r.data[Segment.from + i - 1]]
           buf == pass.buf \o got
<1>1. t.size \in Nat /\ stream.len = t.size /\ BlockSize \in Nat \ {0}
  BY StreamAssumption DEF IsOpen
<1>2. /\ Passes /\ Delivers /\ stream.open /\ stream \in StreamTypes /\ call \in CallTypes
      /\ ffbo.f_block \in Nat /\ Chained
  BY ReadIn DEF IInv
<1>3. /\ pass \in PassTypes /\ pass.cur \in pass.first .. pass.last
      /\ call.start \in Int /\ call.bytes \in Nat /\ pass.total \in Int /\ call.start >= -1
      /\ call.start + call.bytes <= t.size
      /\ stream.pos = call.start + pass.total /\ Len(pass.buf) = pass.total
      /\ Moves \in 0 .. BlockSize
      /\ call.start = -1 => /\ Moves = 0 /\ pass.total = 0
                            /\ pass.cur = pass.last /\ pass.buf = <<>>
      /\ call.start >= 0 =>
           /\ stream.pos >= 0 /\ call.start + pass.total + Moves <= call.start + call.bytes
           /\ pass.cur = pass.last => pass.total + Moves = call.bytes
           /\ pass.cur < pass.last =>
                PassesFrom + pass.total + Moves = (pass.cur + 1) * BlockSize
  BY <1>1, PassRange
<1>4. /\ r.ret \in {-1, BlockSize} /\ n \in -1 .. BlockSize /\ (n = -1 \/ n = Moves)
      /\ r.ret = BlockSize => n = Moves
      /\ call.start = -1 => n = 0
      /\ vol.reliable => n = Moves /\ (r.ret = -1 => Moves = 0 /\ pass.total = call.bytes)
      /\ \A j \in 1 .. n :
           LET b == r.data[Segment.from + j - 1]
               true == TrueByte(t, call.start + pass.total + j - 1)
           IN b \in Int /\ (ChainKnown => b = true \/ (r.ret = -1 /\ b = -1)) /\ (vol.reliable => b = true)
  BY <1>1, PassBytes
<1>5. /\ CountPass(n, r.ret, buf)
      /\ stream' = [stream EXCEPT !.pos = @ + n]
  BY DEF FreadPass, Received
<1> DEFINE m == IF n = -1 THEN 0 ELSE n
<1>6. m \in Nat /\ (n # -1 => m = n) /\ 1 .. n = 1 .. m
  BY <1>1, <1>4
<1>7. got \in Seq(Int) /\ Len(got) = m
  <2>1. \A j \in 1 .. n : r.data[Segment.from + j - 1] \in Int
    BY <1>4
  <2>2. got \in [1 .. n -> Int]
    BY <2>1
  <2> HIDE DEF got, m, n
  <2>3. got \in [1 .. m -> Int]
    BY <1>6, <2>2
  <2>4. QED
    BY <1>6, <2>3, SequenceOf
<1> DEFINE fits(j) ==
             /\ ChainKnown =>
                  \/ got[j] = TrueByte(t, call.start + pass.total + j - 1)
                  \/ r.ret = -1 /\ got[j] = -1
             /\ vol.reliable => got[j] = TrueByte(t, call.start + pass.total + j - 1)
<1>8. ASSUME NEW j \in 1 .. m PROVE fits(j)
  <2>1. \A k \in 1 .. n : got[k] = r.data[Segment.from + k - 1]
    OBVIOUS
  <2> HIDE DEF got, m
  <2>2. j \in 1 .. n
    BY <1>6
  <2>3. QED
    BY <1>4, <2>1, <2>2
<1> HIDE DEF fits
<1> HIDE DEF got, m, n
<1>9. pass.buf \in Seq(Int)
  BY <1>3 DEF PassTypes
<1>10. /\ buf \in Seq(Int) /\ Len(buf) = pass.total + m
       /\ \A i \in 1 .. Len(pass.buf) : buf[i] = pass.buf[i]
       /\ \A i \in 1 .. m : buf[pass.total + i] = got[i]
  <2> DEFINE old == pass.buf
             S == Int
  <2>1. old \in Seq(S) /\ got \in Seq(S) /\ Len(old) = pass.total /\ buf = old \o got
    BY <1>3, <1>7, <1>9
  <2> HIDE DEF old, buf, S
  <2>2. /\ old \o got \in Seq(S) /\ Len(old \o got) = Len(old) + Len(got)
        /\ \A i \in 1 .. Len(old) : (old \o got)[i] = old[i]
        /\ \A i \in 1 .. Len(got) : (old \o got)[Len(old) + i] = got[i]
    <3> DEFINE joined(s, u) ==
                 /\ s \o u \in Seq(S) /\ Len(s \o u) = Len(s) + Len(u)
                 /\ \A i \in 1 .. Len(s) : (s \o u)[i] = s[i]
                 /\ \A i \in 1 .. Len(u) : (s \o u)[Len(s) + i] = u[i]
    <3>1. \A s, u \in Seq(S) : joined(s, u)
      BY ONLY Concatenated
    <3> HIDE DEF joined
    <3>2. joined(old, got)
      BY ONLY <2>1, <3>1
    <3>3. QED
      BY ONLY <3>2 DEF joined
  <2>3. /\ buf \in Seq(S) /\ Len(buf) = pass.total + m
        /\ \A i \in 1 .. Len(old) : buf[i] = old[i]
    BY ONLY <1>7, <2>1, <2>2
  <2>4. \A i \in 1 .. m : buf[pass.total + i] = got[i]
    BY ONLY <1>7, <2>1, <2>2
  <2>5. QED
    BY ONLY <2>3, <2>4 DEF old, S
<1>11. call.start = -1 => buf = <<>>
  <2>1. ASSUME call.start = -1 PROVE buf = <<>>
    <3>1. Len(buf) = 0
      BY <1>3, <1>4, <1>6, <1>10, <2>1
    <3> HIDE DEF buf
    <3>2. QED
      BY <1>10, <3>1
  <2>2. QED
    BY <2>1
<1> HIDE DEF buf
<1>12. /\ pass' \in PassTypes
       /\ PassesFrom' = PassesFrom /\ PassesUpto' = PassesUpto
       /\ pass'.first = pass.first /\ pass'.last = pass.last /\ pass'.from = pass.from
       /\ pass'.total = pass.total + n /\ pass'.buf = buf
       /\ pass'.over <=> r.ret = -1 \/ pass.cur = pass.last
       /\ pass'.failed <=> r.ret = -1
       /\ ~pass'.over => /\ pass.cur < pass.last /\ pass'.cur = pass.cur + 1
                         /\ pass'.cur \in pass'.first .. pass'.last
                         /\ Reached' = (pass.cur + 1) * BlockSize
  <2>1. n \in Int
    BY <1>1, <1>4
  <2>2. QED
    BY <1>3, <1>4, <1>5, <1>10, <2>1, PassCounted
<1>13. /\ stream' \in StreamTypes /\ stream'.open /\ stream'.len = stream.len
       /\ stream'.pos = stream.pos + n
  <2>1. stream.pos + n \in Int
    BY <1>1, <1>2, <1>4 DEF StreamTypes
  <2>2. QED
    BY <1>2, <1>5, <2>1 DEF StreamTypes
<1>14. /\ stream'.pos \in -1 .. stream'.len /\ (vol.reliable => stream'.pos >= 0)
       /\ stream'.pos = call.start + pass'.total
  <2>1. /\ stream'.pos = call.start + pass.total + n /\ stream'.len = t.size
        /\ pass'.total = pass.total + n
    BY <1>1, <1>2, <1>3, <1>4, <1>12, <1>13
  <2>2. vol.reliable => n = Moves /\ call.start >= 0
    BY <1>2, <1>4 DEF Passes
  <2> DEFINE start == call.start
             total == pass.total
             bytes == call.bytes
             moves == Moves
             size == t.size
             pos == stream'.pos
  <2>3. /\ start \in Int /\ total \in Int /\ bytes \in Nat /\ moves \in Nat /\ n \in Int
        /\ size \in Nat /\ n >= -1 /\ (n = -1 \/ n = moves)
        /\ pos = start + total + n /\ start >= -1 /\ start + bytes <= size
        /\ start = -1 => n = 0 /\ total = 0
        /\ start >= 0 => start + total >= 0 /\ start + total + moves <= start + bytes
    BY <1>1, <1>3, <1>4, <2>1
  <2> HIDE DEF start, total, bytes, moves, size, pos
  <2>4. pos \in -1 .. size
    BY <2>3
  <2>5. n = moves /\ start >= 0 => pos >= 0
    BY <2>3
  <2>6. pos = start + (total + n)
    BY <2>3
  <2>7. QED
    BY <2>1, <2>2, <2>4, <2>5, <2>6 DEF start, total, moves, size, pos
<1>15. vol' = vol
  BY DEF vol
<1>16. ~pass'.over =>
         /\ n = Moves /\ m = n /\ Len(pass'.buf) = pass'.total
         /\ call.start # -1
         /\ call.start >= 0 => pass'.total = Reached' - PassesFrom'
  <2> SUFFICES ASSUME ~pass'.over
               PROVE  /\ n = Moves /\ m = n /\ Len(pass'.buf) = pass'.total /\ call.start # -1
                      /\ call.start >= 0 => pass'.total = Reached' - PassesFrom'
    OBVIOUS
  <2>1. r.ret = BlockSize /\ n = Moves
    BY <1>4, <1>12
  <2>2. m = n
    BY <1>3, <1>6, <2>1
  <2>3. Len(pass'.buf) = pass'.total
    BY <1>10, <1>12, <2>2
  <2>4. call.start # -1
    BY <1>3, <1>12
  <2>5. call.start >= 0 => pass'.total = Reached' - PassesFrom'
    <3>1. call.start >= 0 => PassesFrom \in Int /\ PassesFrom + pass.total + Moves = Reached'
      <4>1. PassesFrom \in Nat
        BY <1>3, PassFacts
      <4>2. QED
        BY <1>3, <1>12, <4>1
    <3>2. QED
      BY <1>3, <1>12, <2>1, <3>1
  <2>6. QED
    BY <2>1, <2>2, <2>3, <2>4, <2>5
<1>17. Passes'
  <2>1. /\ call'.start \in -1 .. stream'.len /\ call'.start + call'.bytes <= stream'.len
        /\ (vol'.reliable => call'.start >= 0)
    BY <1>2, <1>13, <1>15 DEF Passes
  <2>2. call'.start = -1 => pass'.buf = <<>> /\ pass'.total <= 0
    BY <1>3, <1>4, <1>11, <1>12
  <2>3. call'.start >= 0 /\ ~pass'.over =>
          PassesFrom' = call'.start /\ PassesUpto' = call'.start + call'.bytes
    BY <1>2, <1>12 DEF Passes
  <2>4. QED
    BY <1>12, <1>13, <1>14, <1>16, <2>1, <2>2, <2>3 DEF Passes
<1>18. Chained'
  <2> SUFFICES ASSUME fs.type = "fat", NEW u \in vol.truth, IsOpen(u), ~u.dir, ~pass'.over
               PROVE  ffbo.f_block <= pass'.cur
    <3>1. \A u \in vol.truth : IsOpen(u)' => IsOpen(u)
      BY <1>13 DEF IsOpen, Shown
    <3>2. QED
      BY <1>2, <1>15, <3>1 DEF Chained, Running
  <2>1. ffbo.f_block <= pass.cur
    BY <1>2 DEF Chained
  <2>2. pass.cur \in Nat
    BY <1>3 DEF PassTypes
  <2>3. QED
    BY <1>2, <1>12, <2>1, <2>2
<1>19. Delivers'
  <2>1. (\A path : True(path)' = True(path)) /\ \A u, i : TrueByte(u, i)' = TrueByte(u, i)
    BY Static
  <2>2. True(opened)' = {t}
    BY <2>1
  <2> DEFINE right(i) == buf[i] = TrueByte(t, call.start + i - 1)
             pright(i) == pass.buf[i] = TrueByte(t, call.start + i - 1)
  <2>3. /\ ChainKnown => \A i \in DOMAIN pass.buf : pright(i)
        /\ vol.reliable /\ ~NothingToRead => \A i \in 1 .. pass.total : pright(i)
    BY <1>2 DEF Delivers, Passes
  <2>4. DOMAIN pass.buf = 1 .. pass.total /\ pass.total \in Nat /\ DOMAIN buf = 1 .. pass.total + m
    BY <1>3, <1>9, <1>10
  <2>5. ASSUME NEW i \in 1 .. pass.total + m, i \notin 1 .. pass.total
        PROVE  /\ ChainKnown => right(i) \/ (r.ret = -1 /\ buf[i] = -1)
               /\ vol.reliable => right(i)
    <3> DEFINE j == i - pass.total
    <3>1. j \in 1 .. m /\ pass.total + j = i
      BY <1>6, <2>4, <2>5
    <3>2. call.start + pass.total + j - 1 = call.start + i - 1
      <4> DEFINE a == call.start
                 c == pass.total
      <4>1. a \in Int /\ c \in Nat /\ i \in Int
        BY <1>2, <1>3, <2>4, <2>5 DEF CallTypes
      <4> HIDE DEF a, c
      <4>2. a + c + (i - c) - 1 = a + i - 1
        BY ONLY <4>1
      <4>3. QED
        BY ONLY <4>2 DEF a, c
    <3> HIDE DEF j
    <3>3. buf[i] = got[j]
      BY <1>10, <3>1
    <3>4. TrueByte(t, call.start + pass.total + j - 1) = TrueByte(t, call.start + i - 1)
      BY <3>2
    <3>5. fits(j)
      BY <1>8, <3>1
    <3>6. QED
      BY <3>3, <3>4, <3>5 DEF fits
  <2>6. ASSUME NEW i \in 1 .. pass.total
        PROVE  buf[i] = pass.buf[i]
    BY <1>3, <1>10
  <2>7. ChainKnown => \A i \in DOMAIN buf : right(i) \/ (r.ret = -1 /\ buf[i] = -1)
    BY <2>3, <2>4, <2>5, <2>6
  <2>8. vol.reliable /\ ~NothingToRead => \A i \in 1 .. pass.total + m : right(i)
    BY <2>3, <2>5, <2>6
  <2>9. vol.reliable => m = n /\ Len(buf) = pass'.total /\ pass'.total = pass.total + m
    BY <1>3, <1>4, <1>6, <1>10, <1>12
  <2>10. vol.reliable /\ pass'.over => pass'.total = call.bytes
    <3>1. vol.reliable => call.start >= 0
      BY <1>2 DEF Passes
    <3>2. CASE r.ret = -1
      BY <1>3, <1>4, <1>12, <3>2
    <3>3. CASE pass.cur = pass.last
      BY <1>3, <1>4, <1>12, <3>1, <3>3
    <3>4. QED
      BY <1>12, <3>2, <3>3
  <2>11. pass'.buf = buf /\ (NothingToRead' <=> NothingToRead) /\ (ChainKnown' <=> ChainKnown)
    BY <1>12 DEF NothingToRead, ChainKnown
  <2>12. /\ ChainKnown' => \A i \in DOMAIN pass'.buf :
              \/ pass'.buf[i] = TrueByte(t, call'.start + i - 1)
              \/ pass'.failed /\ pass'.buf[i] = -1
         /\ vol'.reliable /\ ~NothingToRead' =>
              /\ Len(pass'.buf) = pass'.total
              /\ \A i \in 1 .. pass'.total : pass'.buf[i] = TrueByte(t, call'.start + i - 1)
              /\ pass'.over => pass'.total = call'.bytes
    BY <1>12, <1>15, <2>7, <2>8, <2>9, <2>10, <2>11
  <2>13. QED
    BY <2>1, <2>2, <2>12 DEF Delivers, TrueByte
<1>20. QED
  BY <1>2, <1>12, <1>13, <1>14, <1>17, <1>18, <1>19, ReadKeeps

\* A read ends behind the last block of the file, or where the device failed.
LEMMA NoMoreKeeps ==
  ASSUME IInv, Consistent, Running("fread"), ~pass.over,
         UNCHANGED <<stream, call, disk, fs, walk, file, ffbo, wild, opened, calls>>,
         NEW t \in vol.truth, IsOpen(t), t.size \in 0 .. Word - 1, True(opened) = {t}, NoMoreBlocks,
         vol.reliable => ~(pass.cur * BlockSize < t.size)
  PROVE  IInv'
<1>1. t.size \in Nat /\ stream.len = t.size
  BY StreamAssumption DEF IsOpen
<1>2. /\ Passes /\ Delivers /\ Chained /\ Opens /\ stream.open /\ stream \in StreamTypes
      /\ pass \in PassTypes /\ ffbo.f_block \in Nat
  BY ReadIn DEF IInv
<1>3. /\ pass' \in PassTypes /\ pass'.over /\ pass'.buf = pass.buf /\ pass'.total = pass.total
      /\ pass'.failed = pass.failed
  <2>1. pass' = [cur |-> pass.cur, first |-> pass.first, from |-> pass.from, last |-> pass.last,
                 upto |-> pass.upto, buf |-> pass.buf, total |-> pass.total, over |-> TRUE,
                 failed |-> pass.failed]
    BY <1>2 DEF NoMoreBlocks, PassTypes
  <2>2. QED
    BY <1>2, <2>1 DEF PassTypes
<1>4. vol.reliable => pass.total = call.bytes
  <2>1. vol.reliable => call.start >= 0
    BY <1>2 DEF Passes
  <2>2. ~(pass.cur * BlockSize < t.size) /\ call.start >= 0 => pass.total = call.bytes
    BY <1>1, PassRange
  <2>3. QED
    BY <2>1, <2>2
<1>5. vol' = vol
  BY DEF vol
<1>6. Passes'
  BY <1>2, <1>3, <1>5 DEF Passes, NothingToRead
<1>7. Chained'
  BY <1>2, <1>3, <1>5 DEF Chained, Running, IsOpen, Shown
<1>8. Delivers'
  <2>1. (\A path : True(path)' = True(path)) /\ \A u, i : TrueByte(u, i)' = TrueByte(u, i)
    BY Static
  <2>2. QED
    BY <1>2, <1>3, <1>4, <1>5, <2>1 DEF Delivers, Running, NothingToRead, ChainKnown
<1>9. QED
  BY <1>2, <1>3, <1>6, <1>7, <1>8, ReadKeeps DEF Opens

\* The block of a position within the file.
LEMMA BlockThere ==
  ASSUME NEW k \in Nat, NEW n \in Nat, NEW size \in Nat, size <= n * BlockSize, k * BlockSize < size
  PROVE  k < n /\ k + 1 \in 1 .. n
<1>1. BlockSize \in Nat \ {0}
  BY StreamAssumption
<1>2. k * BlockSize \in Int /\ n * BlockSize \in Int
  BY <1>1
<1>3. n < k => n * BlockSize + BlockSize <= k * BlockSize
  BY <1>1, Multiples
<1>4. n = k => n * BlockSize = k * BlockSize
  OBVIOUS
<1> DEFINE kb == k * BlockSize
           nb == n * BlockSize
<1>5. /\ kb \in Int /\ nb \in Int /\ size <= nb /\ kb < size
      /\ n < k => nb + BlockSize <= kb
      /\ n = k => nb = kb
  BY <1>2, <1>3, <1>4
<1> HIDE DEF kb, nb
<1>6. k < n
  BY <1>1, <1>5
<1>7. QED
  BY <1>6

\* The chain is where it should be, at the cluster of the pass, or it is lost.
LEMMA FatFreadStepKeeps ==
  ASSUME IInv, Consistent, FatFreadStep
  PROVE  IInv'
<1> DEFINE sector == get_sector(ffbo.cluster, fs.first_non_root_sector)
           k == pass.cur
<1>1. /\ Running("fread") /\ ~pass.over /\ fs.type = "fat" /\ ~Behind
      /\ ReadBlockAt(IF InChain THEN sector ELSE NoBlock)
      /\ UNCHANGED <<call, disk, fs, walk, file, ffbo, wild, opened, calls>>
  BY DEF FatFreadStep, FatReads
<1>2. /\ Opens /\ Chained /\ stream.open /\ PathsLead /\ pass \in PassTypes /\ ffbo.f_block \in Nat
  BY <1>1, ReadIn DEF IInv
<1>3. PICK t \in vol.truth : /\ IsOpen(t) /\ t.size \in 0 .. Word - 1 /\ stream.len = t.size
                             /\ True(opened) = {t}
  BY <1>2, OpenFile
<1>4. t.size \in Nat /\ k \in Nat /\ BlockSize \in Nat \ {0}
  BY <1>2, <1>3, StreamAssumption DEF PassTypes
<1>5. ASSUME k * BlockSize < t.size
      PROVE  /\ t.blocks[k + 1] \in Nat
             /\ \/ InChain /\ sector = t.blocks[k + 1] /\ (vol.reliable => OnDevice(sector, BlockSectors))
                \/ ~vol.reliable /\ ~ChainKnown /\ sector \in Int
  <2>1. ~t.dir
    <3>1. k * BlockSize >= 0
      BY <1>4
    <3>2. t.size # 0
      BY <1>4, <1>5, <3>1
    <3>3. QED
      BY <1>1, <3>2 DEF Consistent, HeldByFat
  <2>2. FileInFat(t) /\ t.at \in Seq(1 .. Bad - 1) /\ Len(t.at) \in Nat
    BY <1>1, <2>1, FatFile
  <2>3. k < Len(t.at) /\ k + 1 \in 1 .. Len(t.at)
    <3>1. t.size <= Len(t.at) * BlockSize
      BY <2>2 DEF FileInFat
    <3>2. QED
      BY <1>4, <1>5, <2>2, <3>1, BlockThere
  <2>4. t.at[k + 1] \in 1 .. Bad - 1 /\ t.blocks[k + 1] \in Nat
    <3>1. t.blocks \in Seq(Nat) /\ k + 1 \in 1 .. Len(t.blocks)
      BY <2>2, <2>3 DEF FileInFat
    <3>2. QED
      BY <2>2, <2>3, <3>1, ElementOf
  <2>5. /\ ffbo.f_block <= k
        /\ ffbo.f_block < Len(t.at) => \/ ffbo.cluster = t.at[ffbo.f_block + 1]
                                       \/ /\ ~vol.reliable /\ ffbo.lost
                                          /\ ffbo.cluster \in Nat
    BY <1>1, <1>2, <1>3, <2>1 DEF Chained
  <2>6. ffbo.f_block < Len(t.at) /\ ffbo.f_block + 1 \in 1 .. Len(t.at)
    BY <1>2, <1>4, <2>2, <2>3, <2>5
  <2>9. sector = SectorInDir(ffbo.cluster, FALSE)
    BY DEF SectorInDir
  <2>10. CASE ffbo.cluster = t.at[ffbo.f_block + 1]
    <3>1. /\ t.blocks[k + 1] = SectorInDir(t.at[k + 1], FALSE)
          /\ vol.reliable => OnDevice(t.blocks[k + 1], BlockSectors)
      BY <2>2, <2>3 DEF FileInFat
    <3> HIDE DEF sector
    <3>2. t.at[ffbo.f_block + 1] \in 1 .. Bad - 1
      BY <2>2, <2>6, ElementOf
    <3>3. ffbo.cluster < Eoc
      BY <2>10, <3>2, TableMarks
    <3>4. ffbo.f_block = k
      BY <1>1, <3>3 DEF Behind
    <3>5. sector = t.blocks[k + 1]
      BY <2>9, <2>10, <3>1, <3>4
    <3>6. QED
      BY <2>4, <3>1, <3>3, <3>5 DEF InChain
  <2>11. CASE ~vol.reliable /\ ffbo.lost /\ ffbo.cluster \in Nat
    <3>1. /\ BlockSectors \in Int /\ Word \in Nat \ {0} /\ fs.first_non_root_sector \in Nat
      <4>1. BlockSize \in Nat \ {0} /\ SectorSize \in Nat \ {0} /\ Word \in Nat \ {0}
        BY StreamAssumption, VolumeAssumption
      <4>2. BlockSectors \in Int
        BY <4>1, Division DEF BlockSectors
      <4>3. QED
        BY <1>1, <4>1, <4>2 DEF Consistent, HeldByFat
    <3>2. (ffbo.cluster - 2) * BlockSectors \in Int
      BY <2>11, <3>1
    <3>3. fs.first_non_root_sector + (ffbo.cluster - 2) * BlockSectors \in Int
      BY <3>1, <3>2
    <3>4. sector \in Int
      BY <3>1, <3>3, Division DEF get_sector
    <3> HIDE DEF sector
    <3>5. QED
      BY <2>4, <2>11, <3>4 DEF ChainKnown
  <2>12. QED
    BY <2>5, <2>6, <2>10, <2>11
<1> HIDE DEF sector
<1>6. CASE NoMoreBlocks /\ UNCHANGED stream /\ (InChain => sector = NoBlock)
  <2>1. vol.reliable => ~(k * BlockSize < t.size)
    BY <1>5, <1>6, VolumeAssumption
  <2>2. QED
    BY <1>1, <1>3, <1>6, <2>1, NoMoreKeeps
<1>7. CASE InChain /\ \E r \in BlockReads(sector) : FreadPass(r)
  <2>1. PICK r \in BlockReads(sector) : FreadPass(r)
    BY <1>7
  <2>2. k * BlockSize < t.size =>
          /\ sector \in Int \/ ~OnDevice(sector, BlockSectors)
          /\ ChainKnown => sector = t.blocks[k + 1] \/ ~OnDevice(sector, BlockSectors)
          /\ vol.reliable => sector = t.blocks[k + 1] /\ OnDevice(sector, BlockSectors)
    BY <1>5
  <2>3. QED
    BY <1>1, <1>3, <2>1, <2>2, PassKeeps
<1>8. QED
  BY <1>1, <1>6, <1>7 DEF ReadBlockAt

\* Where the inode leads on a device that reads it.
LEMMA Ext2FreadStepKeeps ==
  ASSUME IInv, Consistent, Ext2FreadStep
  PROVE  IInv'
<1> DEFINE k == pass.cur
<1>1. /\ Running("fread") /\ ~pass.over /\ fs.type = "ext2"
      /\ UNCHANGED <<call, disk, fs, walk, file, ffbo, wild, opened, calls>>
  BY DEF Ext2FreadStep, Ext2Reads
<1>2. PICK block \in BlocksOf(Inode(file), k) : ReadBlockAt(get_sector_num(block))
  BY DEF Ext2FreadStep
<1> DEFINE sector == get_sector_num(block)
<1>3. /\ Opens /\ stream.open /\ PathsLead /\ pass \in PassTypes /\ HeldByExt2
  BY <1>1, ReadIn DEF Consistent
<1>4. PICK t \in vol.truth : /\ IsOpen(t) /\ t.size \in 0 .. Word - 1 /\ stream.len = t.size
                             /\ True(opened) = {t}
  BY <1>3, OpenFile
<1>5. t.size \in Nat /\ k \in Nat /\ BlockSize \in Nat \ {0} /\ Word \in Nat \ {0}
  BY <1>3, <1>4, StreamAssumption DEF PassTypes
<1>6. Len(t.at) = 1 /\ t.blocks \in Seq(Nat) /\ Len(t.blocks) \in Nat
  <2>1. Len(t.at) = 1 /\ t.blocks \in Seq(Nat)
    BY <1>3 DEF HeldByExt2
  <2> DEFINE blocks == t.blocks
  <2>2. blocks \in Seq(Nat)
    BY <2>1
  <2> HIDE DEF blocks
  <2>3. Len(blocks) \in Nat
    BY <2>2
  <2>4. QED
    BY <2>1, <2>3 DEF blocks
<1>7. file = t.at[1]
  <2> DEFINE at == t.at
  <2>1. Len(at) = 1 /\ Len(<<>>) = 0
    BY <1>6
  <2>2. at = <<>> => Len(at) = Len(<<>>)
    OBVIOUS
  <2>3. at # <<>>
    <3> HIDE DEF at
    <3>1. QED
      BY <2>1, <2>2
  <2>4. QED
    BY <1>4, <2>3, ShownIs DEF IsOpen
<1>8. ASSUME k * BlockSize < t.size
      PROVE  /\ sector \in Int
             /\ vol.reliable => /\ sector = t.blocks[k + 1] /\ t.blocks[k + 1] \in Nat
                                /\ OnDevice(sector, BlockSectors)
  <2>1. t.size <= Len(t.blocks) * BlockSize
    BY <1>3 DEF HeldByExt2
  <2>2. k + 1 \in 1 .. Len(t.blocks) /\ (k + 1) - 1 = k
    <3> DEFINE n == Len(t.blocks)
               size == t.size
    <3>1. /\ k \in Nat /\ n \in Nat /\ size \in Nat /\ size <= n * BlockSize
          /\ k * BlockSize < size
      BY <1>5, <1>6, <1>8, <2>1
    <3> HIDE DEF k, n, size
    <3>2. k + 1 \in 1 .. n
      BY <3>1, BlockThere
    <3>3. (k + 1) - 1 = k
      BY <3>1
    <3>4. QED
      BY <3>2, <3>3 DEF n
  <2>3. block \in BlocksOf(Inode(t.at[1]), (k + 1) - 1)
    BY <1>7, <2>2
  <2>4. block \in Nat
    <3>1. BlocksOf(Inode(t.at[1]), (k + 1) - 1) \subseteq Nat
      BY <1>3, <2>2 DEF HeldByExt2
    <3>2. QED
      BY <2>3, <3>1
  <2>5. sector \in Int
    <3>1. block * BlockSize \in Int
      BY <1>5, <2>4
    <3>2. (block * BlockSize) % Word \in Int
      BY <1>5, <3>1, Division
    <3>3. SectorSize \in Nat \ {0}
      BY VolumeAssumption
    <3>4. QED
      BY <3>2, <3>3, Division DEF get_sector_num
  <2>6. vol.reliable => sector = t.blocks[k + 1] /\ BlockReadable(block)
    BY <1>3, <2>2, <2>3 DEF HeldByExt2, FileInExt2
  <2>7. t.blocks[k + 1] \in Nat
    BY <1>6, <2>2, ElementOf
  <2>8. QED
    BY <2>5, <2>6, <2>7 DEF BlockReadable, ReadOK
<1> HIDE DEF sector
<1>9. CASE NoMoreBlocks /\ UNCHANGED stream /\ sector = NoBlock
  <2>1. vol.reliable => ~(k * BlockSize < t.size)
    BY <1>8, <1>9, VolumeAssumption
  <2>2. QED
    BY <1>1, <1>4, <1>9, <2>1, NoMoreKeeps
<1>10. CASE \E r \in BlockReads(sector) : FreadPass(r)
  <2>1. PICK r \in BlockReads(sector) : FreadPass(r)
    BY <1>10
  <2>2. k * BlockSize < t.size =>
          /\ sector \in Int \/ ~OnDevice(sector, BlockSectors)
          /\ ChainKnown => sector = t.blocks[k + 1] \/ ~OnDevice(sector, BlockSectors)
          /\ vol.reliable => sector = t.blocks[k + 1] /\ OnDevice(sector, BlockSectors)
    BY <1>1, <1>8 DEF ChainKnown
  <2>3. QED
    BY <1>1, <1>4, <2>1, <2>2, PassKeeps
<1>11. QED
  BY <1>2, <1>9, <1>10 DEF ReadBlockAt, sector

\* A read ends at an inode that could not be read.
LEMMA Ext2FreadNullKeeps ==
  ASSUME IInv, Consistent, Ext2FreadNull
  PROVE  IInv'
<1>1. /\ Running("fread") /\ fs.type = "ext2" /\ InodeFails(file) /\ wild' = TRUE
      /\ call' = [call EXCEPT !.busy = FALSE] /\ walk' = [walk EXCEPT !.phase = "none"]
      /\ UNCHANGED <<stream, pass, disk, fs, file, ffbo, eof, opened, calls>>
  BY DEF Ext2FreadNull, Ext2Reads, NullInode
<1>2. /\ PathsLead /\ Mounted /\ Opens /\ stream.open /\ walk.phase = "none"
      /\ stream \in StreamTypes /\ call \in CallTypes /\ pass \in PassTypes /\ WalkTyped
      /\ ffbo.f_block \in Nat /\ calls \in Nat /\ FindsFile
      /\ fs.type \in {"unmounted", "none", "fat", "ext2"}
  BY <1>1, ReadIn DEF IInv
<1>3. PICK t \in vol.truth : IsOpen(t)
  BY <1>2 DEF Opens
<1>4. HeldByExt2
  BY <1>1 DEF Consistent
<1>5. file = t.at[1]
  <2> DEFINE at == t.at
  <2>1. Len(at) = 1 /\ Len(<<>>) = 0
    BY <1>4 DEF HeldByExt2
  <2>2. at = <<>> => Len(at) = Len(<<>>)
    OBVIOUS
  <2>3. at # <<>>
    <3> HIDE DEF at
    <3>1. QED
      BY <2>1, <2>2
  <2>4. QED
    BY <1>3, <2>3, ShownIs DEF IsOpen
<1>6. vol.reliable => InodeReadable(t.at[1])
  BY <1>4 DEF HeldByExt2, FileInExt2
<1>7. ~vol.reliable
  BY <1>1, <1>5, <1>6 DEF InodeReadable, InodeFails, BlockReadable, BlockFails, ReadOK, ReadFails
<1>8. call' \in CallTypes /\ call'.op = "fread" /\ call'.busy = FALSE
  BY <1>1, <1>2 DEF CallTypes, Running
<1>9. WalkTyped' /\ walk'.phase = "none"
  BY <1>1, <1>2 DEF WalkTyped, NoWalk
<1>10. TypeOK'
  BY <1>1, <1>2, <1>8, <1>9 DEF TypeOK, Mounted
<1>11. /\ vol' = vol /\ (\A u : Shown(u)' = Shown(u)) /\ \A path : True(path)' = True(path)
  BY <1>1, Static
<1>12. Opens'
  BY <1>1, <1>2, <1>3, <1>11 DEF Opens, IsOpen
<1>13. Walks' /\ Reads' /\ Chained' /\ Delivers' /\ ListsDirectory'
  BY <1>8, <1>9 DEF Walks, Walking, Running, Reads, Chained, Delivers, ListsDirectory
<1>14. NeverWild' /\ DeliversFile' /\ FindsFile'
  BY <1>1, <1>2, <1>7, <1>8, <1>11 DEF NeverWild, DeliversFile, FindsFile
<1>15. QED
  BY <1>10, <1>12, <1>13, <1>14 DEF IInv

\* What fread returns is what the passes have counted.
LEMMA FreadReturnsKeeps ==
  ASSUME IInv, Consistent, FreadReturns
  PROVE  IInv'
<1>1. /\ Running("fread") /\ pass.over /\ call' = Result
      /\ UNCHANGED <<stream, pass, disk, fs, walk, file, ffbo, eof, wild, opened, calls>>
  BY DEF FreadReturns
<1>2. /\ Mounted /\ Opens /\ Passes /\ Delivers /\ stream.open /\ walk.phase = "none"
      /\ stream \in StreamTypes /\ call \in CallTypes /\ pass \in PassTypes /\ WalkTyped
      /\ ffbo.f_block \in Nat /\ calls \in Nat /\ wild \in BOOLEAN /\ FindsFile /\ NeverWild
      /\ fs.type \in {"unmounted", "none", "fat", "ext2"}
  BY <1>1, ReadIn DEF IInv
<1> DEFINE n == ResultOf(pass.total)
           f == call.failed \/ pass.failed
<1>3. n \in Int
  <2>1. pass.total \in Int /\ call.size \in Nat \ {0} /\ Word \in Nat \ {0}
    BY <1>2, StreamAssumption DEF PassTypes, CallTypes
  <2>2. pass.total % Word \in Int
    BY <2>1, Division
  <2>3. QED
    BY <2>1, <2>2, Division DEF ResultOf
<1>4. f \in BOOLEAN
  BY <1>2 DEF PassTypes, CallTypes
<1>5. call' = [op |-> call.op, busy |-> FALSE, start |-> call.start, size |-> call.size,
               bytes |-> call.bytes, len |-> call.len, total |-> pass.total, ret |-> n,
               failed |-> f]
  BY <1>1, <1>2 DEF Result, CallTypes
<1> HIDE DEF n, f
<1>6. /\ call' \in CallTypes /\ call'.op = "fread" /\ call'.busy = FALSE
      /\ call'.start = call.start /\ call'.bytes = call.bytes /\ call'.total = pass.total
  <2>1. pass.total \in Int /\ call.op = "fread"
    BY <1>1, <1>2 DEF PassTypes, Running
  <2>2. QED
    BY <1>2, <1>3, <1>4, <1>5, <2>1 DEF CallTypes
<1>7. TypeOK'
  BY <1>1, <1>2, <1>6 DEF TypeOK, Mounted, WalkTyped
<1>8. /\ vol' = vol /\ (\A u : Shown(u)' = Shown(u)) /\ (\A path : True(path)' = True(path))
      /\ \A u, i : TrueByte(u, i)' = TrueByte(u, i)
  BY <1>1, Static
<1>9. Opens'
  BY <1>1, <1>2, <1>8 DEF Opens, IsOpen
<1>10. Walks' /\ Reads' /\ Chained' /\ Delivers' /\ ListsDirectory'
  BY <1>1, <1>2, <1>6 DEF Walks, Walking, Running, Reads, Chained, Delivers, ListsDirectory
<1>11. NeverWild' /\ FindsFile'
  BY <1>1, <1>2, <1>6, <1>8 DEF NeverWild, FindsFile
<1>12. DeliversFile'
  <2> SUFFICES ASSUME NEW t \in True(opened)
               PROVE  /\ vol.reliable /\ ~NothingToRead =>
                           /\ pass.total = call.bytes /\ stream.pos = call.start + call.bytes
                           /\ Len(pass.buf) = call.bytes
                           /\ \A i \in 1 .. call.bytes :
                                pass.buf[i] = TrueByte(t, call.start + i - 1)
                      /\ ChainKnown => \A i \in DOMAIN pass.buf :
                           \/ pass.buf[i] = TrueByte(t, call.start + i - 1)
                           \/ pass.failed /\ pass.buf[i] = -1
    BY <1>1, <1>6, <1>8 DEF DeliversFile, NothingToRead, ChainKnown
  <2>1. /\ vol.reliable /\ ~NothingToRead =>
             /\ pass.total = call.bytes /\ Len(pass.buf) = pass.total
             /\ \A i \in 1 .. pass.total : pass.buf[i] = TrueByte(t, call.start + i - 1)
        /\ ChainKnown => \A i \in DOMAIN pass.buf :
             \/ pass.buf[i] = TrueByte(t, call.start + i - 1)
             \/ pass.failed /\ pass.buf[i] = -1
    BY <1>1, <1>2 DEF Delivers
  <2>2. ~NothingToRead => stream.pos = call.start + pass.total
    BY <1>2 DEF Passes
  <2>3. QED
    BY <2>1, <2>2
<1>13. QED
  BY <1>7, <1>9, <1>10, <1>11, <1>12 DEF IInv

\* What is not read does not change what is true of it.
LEMMA StutterKeeps ==
  ASSUME IInv, UNCHANGED vars
  PROVE  IInv'
<1>1. UNCHANGED <<stream, call, pass, disk, fs, walk, file, ffbo, wild, opened, calls>>
  BY DEF vars
<1>2. /\ vol' = vol /\ (\A u : Shown(u)' = Shown(u)) /\ (\A path : True(path)' = True(path))
      /\ Directories' = Directories /\ (\A T : ShownOf(T)' = ShownOf(T))
      /\ (\A path : TrueIn(path)' = TrueIn(path))
      /\ (\A u, i : TrueByte(u, i)' = TrueByte(u, i))
      /\ (\A list, d, T : Lists(list, d, T)' <=> Lists(list, d, T))
      /\ \A d, i : Earlier(d, i)' = Earlier(d, i)
  BY <1>1, Static
<1>3. TypeOK'
  BY <1>1 DEF IInv, TypeOK, Mounted, WalkTyped
<1>4. Opens' /\ NeverWild' /\ FindsFile'
  BY <1>1, <1>2 DEF IInv, Opens, IsOpen, NeverWild, FindsFile
<1>5. Walks'
  <2>1. DirNames' = DirNames /\ Depth' = Depth /\ (Walking' <=> Walking)
    BY <1>1 DEF DirNames, Depth, Walking, Running
  <2>2. ASSUME NEW d \in Directories, WalksIn(d) PROVE WalksIn(d)'
    <3>1. ReadsPart(d)' <=> ReadsPart(d)
      BY <1>1 DEF ReadsPart
    <3>2. /\ Lists(walk.list, d, Earlier(d, walk.idx))' <=> Lists(walk.list, d, Earlier(d, walk.idx))
          /\ Lists(walk.list, d, TrueIn(d.path))' <=> Lists(walk.list, d, TrueIn(d.path))
      BY <1>1, <1>2 DEF Lists, Earlier
    <3>3. QED
      BY <1>1, <1>2, <2>1, <2>2, <3>1, <3>2 DEF WalksIn, Root
  <2>3. QED
    BY <1>1, <1>2, <2>1, <2>2 DEF IInv, Walks
<1>6. Reads' /\ Chained' /\ Delivers' /\ DeliversFile'
  BY <1>1, <1>2 DEF IInv, Reads, Passes, Running, NothingToRead, PassesFrom, PassesUpto, Reached,
                    Chained, IsOpen, Delivers, DeliversFile, ChainKnown
<1>7. ListsDirectory'
  BY <1>1, <1>2 DEF IInv, ListsDirectory
<1>8. QED
  BY <1>3, <1>4, <1>5, <1>6, <1>7 DEF IInv

(***************************************************************************)
(* The theorems.                                                           *)
(***************************************************************************)
LEMMA StepsKeep ==
  ASSUME IInv, Consistent, Consistent', Steps
  PROVE  IInv'
<1>1. CASE Mount
  BY <1>1, MountKeeps
<1>2. CASE NextDirectory
  BY <1>2, NextDirectoryKeeps
<1>3. CASE OpendirReturns
  BY <1>3, OpendirReturnsKeeps
<1>4. CASE NotFound
  BY <1>4, NotFoundKeeps
<1>5. CASE FreadReturns
  BY <1>5, FreadReturnsKeeps
<1>6. CASE FatDirBegin
  BY <1>6, FatDirBeginKeeps
<1>7. CASE FatDirStep
  BY <1>7, FatDirStepKeeps
<1>8. CASE FatFopen
  BY <1>8, FatFopenKeeps
<1>9. CASE FatFreadNothing
  BY <1>9, FatFreadNothingKeeps
<1>10. CASE FatChainStep
  BY <1>10, FatChainStepKeeps
<1>11. CASE FatFreadStep
  BY <1>11, FatFreadStepKeeps
<1>12. CASE Ext2DirBegin
  BY <1>12, Ext2DirBeginKeeps
<1>13. CASE Ext2DirStep
  BY <1>13, Ext2DirStepKeeps
<1>14. CASE Ext2DirEnds
  BY <1>14, Ext2DirEndsKeeps
<1>15. CASE Ext2Fopen
  BY <1>15, Ext2FopenKeeps
<1>16. CASE Ext2FreadNull
  BY <1>16, Ext2FreadNullKeeps
<1>17. CASE Ext2FreadStep
  BY <1>17, Ext2FreadStepKeeps
<1>18. QED
  BY <1>1, <1>2, <1>3, <1>4, <1>5, <1>6, <1>7, <1>8, <1>9, <1>10, <1>11, <1>12, <1>13, <1>14,
     <1>15, <1>16, <1>17 DEF Steps, FatStep, Ext2Step

LEMMA NextKeeps ==
  ASSUME IInv, Consistent, Consistent', [Next]_vars
  PROVE  IInv'
<1>1. ASSUME NEW path \in Paths, NEW mode \in UsedModes, Fopen(path, mode) PROVE IInv'
  BY <1>1, FopenKeeps
<1>2. ASSUME NEW path \in Paths, Opendir(path) PROVE IInv'
  BY <1>2, OpendirKeeps
<1>3. ASSUME NEW size \in Sizes, NEW nmemb \in Counts, Fread(size, nmemb) PROVE IInv'
  BY <1>3, FreadKeeps
<1>4. ASSUME NEW offset \in Offsets, NEW whence \in {"SEEK_SET", "SEEK_END", "SEEK_CUR"},
             Fseek(offset, whence)
      PROVE  IInv'
  BY <1>4, FseekKeeps
<1>5. CASE Fclose
  BY <1>5, FcloseKeeps
<1>6. CASE Steps
  BY <1>6, StepsKeep
<1>7. CASE UNCHANGED vars
  BY <1>7, StutterKeeps
<1>8. QED
  BY <1>1, <1>2, <1>3, <1>4, <1>5, <1>6, <1>7 DEF Next, Calls, Done

\* The invariant holds of every behaviour over a volume that holds what its maker says.
LEMMA Invariant == Spec /\ []Consistent => []IInv
<1>1. Init => IInv
  BY InitHolds
<1>2. IInv /\ Consistent /\ Consistent' /\ [Next]_vars => IInv'
  BY NextKeeps
<1>3. QED
  BY <1>1, <1>2, PTL DEF Spec

\* A walk or a read over a reliable device that holds what its maker says uses no inode
\* that could not be read and no entry of a list that was freed: ext2_read_dir,
\* ext2_fopen, ext2_fread, and the loops over the list in fopen.
THEOREM NothingIsTouched == Spec /\ []Consistent => []NeverWild
<1>1. IInv => NeverWild
  BY DEF IInv
<1>2. QED
  BY <1>1, Invariant, PTL

\* What fopen opens is the file of its path, whatever the device fails to read on the
\* way down; on a reliable device it opens every file there is: the walk of
\* fat_read_directory and ext2_read_directory over the lists of each directory.
THEOREM FilesAreFound == Spec /\ []Consistent => []FindsFile
<1>1. IInv => FindsFile
  BY DEF IInv
<1>2. QED
  BY <1>1, Invariant, PTL

\* opendir on a reliable device lists each file of the directory once, and nothing
\* else: the loops of fat_read_dir over clusters and of ext2_read_dir over blocks.
THEOREM DirectoriesAreListed == Spec /\ []Consistent => []ListsDirectory
<1>1. IInv => ListsDirectory
  BY DEF IInv
<1>2. QED
  BY <1>1, Invariant, PTL

\* fread on a reliable device delivers the bytes of the file from its position on, for
\* every size, count and position, over chains and indirect blocks of any length.  On a
\* FAT device that fails reads, as long as no read of the table has failed, each byte
\* that is counted is the file's or of a segment whose own read failed: fs_fread with
\* fat_get_next_bdev_block_num and ext2's blocks.
THEOREM FilesAreDelivered == Spec /\ []Consistent => []DeliversFile
<1>1. IInv => DeliversFile
  BY DEF IInv
<1>2. QED
  BY <1>1, Invariant, PTL
================================================================================
