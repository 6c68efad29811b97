----------------------------- MODULE NofsProofs -----------------------------
(***************************************************************************)
(* The safety theorems of Nofs, for blocks, partitions, marks and files of *)
(* any size, any number of calls, and a card that may fail any transfer.   *)
(***************************************************************************)
EXTENDS Nofs, WellFoundedInduction, TLAPS

(***************************************************************************)
(* Numbers.                                                                *)
(***************************************************************************)

\* Division with a remainder.
LEMMA Division ==
  ASSUME NEW d \in Nat \ {0}, NEW n \in Int
  PROVE  /\ n \div d \in Int /\ n % d \in 0 .. d - 1
         /\ n = (n \div d) * d + (n % d)
  OBVIOUS

\* Multiples are ordered as what they are multiples of.
LEMMA Multiples ==
  ASSUME NEW d \in Nat \ {0}, NEW a \in Int, NEW b \in Int, a < b
  PROVE  a * d + d <= b * d /\ a * d \in Int /\ b * d \in Int
  OBVIOUS

\* There is one quotient and one remainder.
LEMMA DivisionIsUnique ==
  ASSUME NEW d \in Nat \ {0}, NEW q \in Int, NEW r \in 0 .. d - 1
  PROVE  (q * d + r) \div d = q /\ (q * d + r) % d = r
  OBVIOUS

\* Blocks divide the numbers: an unsigned number lies at the same offset of its block
\* as the number it stands for.
LEMMA Aligned ==
  ASSUME NEW p \in Int
  PROVE  /\ (p % Word) \div BlockSize \in Nat /\ p % BlockSize \in Offset
         /\ ((p % Word) \div BlockSize) * BlockSize + (p % BlockSize) = p % Word
<1> DEFINE r == p % Word
           q == p \div Word
           k == Word \div BlockSize
           b == r \div BlockSize
           i == r % BlockSize
<1>1. Word \in Nat \ {0} /\ BlockSize \in Nat \ {0} /\ Word % BlockSize = 0
  BY StreamAssumption
<1>2. q \in Int /\ r \in 0 .. Word - 1 /\ p = q * Word + r
  BY <1>1, Division
<1>3. b \in Int /\ i \in 0 .. BlockSize - 1 /\ r = b * BlockSize + i
  BY <1>1, <1>2, Division
<1>4. k \in Int /\ Word = k * BlockSize + 0
  BY <1>1, Division
<1> HIDE DEF r, q, k, b, i
<1>5. p = (q * k + b) * BlockSize + i /\ q * k + b \in Int
  BY <1>1, <1>2, <1>3, <1>4
<1>6. p % BlockSize = i
  <2> DEFINE c == q * k + b
  <2>1. c \in Int /\ p = c * BlockSize + i
    BY <1>5
  <2> HIDE DEF c
  <2>2. QED
    BY <1>1, <1>3, <2>1, DivisionIsUnique
<1>7. b >= 0
  <2>1. b < 0 => b * BlockSize + BlockSize <= 0 * BlockSize
    BY <1>1, <1>3, Multiples
  <2>2. b * BlockSize \in Int
    BY <1>1, <1>3
  <2>3. QED
    BY <1>1, <1>2, <1>3, <2>1, <2>2
<1>8. QED
  BY <1>3, <1>6, <1>7 DEF r, b, Offset

\* Wrapping once is as good as wrapping twice.
LEMMA Wraps ==
  ASSUME NEW p \in Int, NEW n \in Int
  PROVE  /\ p % Word \in 0 .. Word - 1
         /\ ((p % Word) + n) % Word = (p + n) % Word
<1> DEFINE r == p % Word
           q == p \div Word
           c == (r + n) \div Word
           i == (r + n) % Word
<1>1. Word \in Nat \ {0}
  BY StreamAssumption
<1>2. q \in Int /\ r \in 0 .. Word - 1 /\ p = q * Word + r
  BY <1>1, Division
<1>3. r + n \in Int
  BY <1>2
<1>4. c \in Int /\ i \in 0 .. Word - 1 /\ r + n = c * Word + i
  BY <1>1, <1>3, Division
<1> HIDE DEF r, q, c, i
<1>5. p + n = (q + c) * Word + i /\ q + c \in Int
  BY <1>1, <1>2, <1>4
<1>6. (p + n) % Word = i
  <2> DEFINE d == q + c
  <2>1. d \in Int /\ p + n = d * Word + i
    BY <1>5
  <2> HIDE DEF d
  <2>2. QED
    BY <1>1, <1>4, <2>1, DivisionIsUnique
<1>7. QED
  BY <1>2, <1>6 DEF r, i

\* Small numbers do not wrap, and larger ones become smaller.
LEMMA NoWrap ==
  ASSUME NEW p \in Nat
  PROVE  p % Word <= p /\ (p < Word => p % Word = p)
<1>1. Word \in Nat \ {0}
  BY StreamAssumption
<1>2. p \div Word \in Int /\ p % Word \in 0 .. Word - 1 /\ p = (p \div Word) * Word + (p % Word)
  BY <1>1, Division
<1>3. p \div Word < 0 => (p \div Word) * Word + Word <= 0 * Word
  BY <1>1, <1>2, Multiples
<1>4. 0 < p \div Word => 0 * Word + Word <= (p \div Word) * Word
  BY <1>1, <1>2, Multiples
<1> DEFINE q == p \div Word
           r == p % Word
<1> HIDE DEF q, r
<1>5. q \in Int /\ r \in 0 .. Word - 1 /\ p = q * Word + r
  BY <1>2 DEF q, r
<1>6. q * Word \in Int
  BY <1>1, <1>5
<1>7. q < 0 => q * Word + Word <= 0
  BY <1>1, <1>3 DEF q
<1>8. 0 < q => Word <= q * Word
  BY <1>1, <1>4 DEF q
<1>9. q >= 0
  BY <1>1, <1>5, <1>6, <1>7
<1>10. q = 0 \/ 0 < q
  BY <1>5, <1>9
<1>11. r <= p /\ (p < Word => r = p)
  <2>1. CASE q = 0
    BY <1>1, <1>5, <2>1
  <2>2. CASE 0 < q
    <3> DEFINE m == q * Word
    <3>1. m \in Int /\ p = m + r /\ Word <= m
      BY <1>5, <1>6, <1>8, <2>2
    <3> HIDE DEF m
    <3>2. QED
      BY <1>1, <1>5, <3>1
  <2>3. QED
    BY <1>10, <2>1, <2>2
<1>12. QED
  BY <1>11 DEF r

\* Whole members are no more than all bytes.
LEMMA WholeMembers ==
  ASSUME NEW size \in Nat \ {0}, NEW n \in Nat
  PROVE  Whole(size, n) \in 0 .. n
<1> DEFINE q == n \div size
           r == n % size
<1>1. q \in Int /\ r \in 0 .. size - 1 /\ n = q * size + r
  BY Division
<1>2. Whole(size, n) = q * size
  BY DEF Whole
<1> HIDE DEF q, r
<1>3. q * size \in Int
  BY <1>1
<1>4. q < 0 => q * size + size <= 0 * size
  BY <1>1, Multiples
<1>5. q >= 0
  <2> DEFINE m == q * size
  <2>1. m \in Int /\ n = m + r /\ (q < 0 => m + size <= 0)
    BY <1>1, <1>3, <1>4
  <2> HIDE DEF m
  <2>2. QED
    BY <1>1, <2>1
<1>6. 0 <= q * size
  <2>1. 0 < q => 0 * size + size <= q * size
    BY <1>1, Multiples
  <2>2. q = 0 => q * size = 0
    BY <1>1
  <2>3. QED
    BY <1>1, <1>3, <1>5, <2>1, <2>2
<1>7. q * size <= n
  BY <1>1, <1>3
<1>8. QED
  BY <1>2, <1>3, <1>6, <1>7

(***************************************************************************)
(* The passes of a call.                                                   *)
(***************************************************************************)

\* The passes of a call begin at its position, unless that is behind its end.
LEMMA PassesBegin ==
  ASSUME NEW p \in Int, NEW n \in Nat, NEW b \in Seq(Bytes), BeginPasses(p, n, b)
  PROVE  /\ pass' \in PassTypes
         /\ PassesFrom' = p % Word /\ PassesUpto' = (p + n) % Word
         /\ PassesUpto' = (PassesFrom' + n) % Word
         /\ pass'.buf = b /\ pass'.total = 0 /\ pass'.failed = FALSE
         /\ pass'.over => PassesUpto' < PassesFrom'
         /\ ~pass'.over => pass'.cur \in pass'.first .. pass'.last
         /\ Reached' = PassesFrom'
<1> DEFINE f == (p % Word) \div BlockSize
           l == ((p + n) % Word) \div BlockSize
           i == p % BlockSize
           j == (p + n) % BlockSize
<1>1. BlockSize \in Nat \ {0} /\ p + n \in Int
  BY StreamAssumption
<1>2. f \in Nat /\ i \in Offset /\ f * BlockSize + i = p % Word
  BY Aligned
<1>3. l \in Nat /\ j \in Offset /\ l * BlockSize + j = (p + n) % Word
  BY <1>1, Aligned
<1>4. pass' = [cur |-> f, first |-> f, from |-> i, last |-> l, upto |-> j, buf |-> b,
               total |-> 0, over |-> f > l, failed |-> FALSE]
  BY DEF BeginPasses, ByteRange
<1>5. ((p % Word) + n) % Word = (p + n) % Word
  BY Wraps
<1> HIDE DEF f, l, i, j
<1>6. (f > l) \in BOOLEAN
  OBVIOUS
<1>7. pass' \in PassTypes
  BY <1>2, <1>3, <1>4, <1>6 DEF PassTypes
<1>8. /\ PassesFrom' = f * BlockSize + i /\ PassesUpto' = l * BlockSize + j
      /\ Reached' = PassesFrom'
  BY <1>4 DEF PassesFrom, PassesUpto, Reached
<1>9. f > l => l * BlockSize + j < f * BlockSize + i
  <2>1. f > l => l * BlockSize + BlockSize <= f * BlockSize
    BY <1>1, <1>2, <1>3, Multiples
  <2>2. l * BlockSize \in Int /\ f * BlockSize \in Int
    BY <1>1, <1>2, <1>3
  <2>3. QED
    BY <1>1, <1>2, <1>3, <2>1, <2>2 DEF Offset
<1>10. pass'.over => PassesUpto' < PassesFrom'
  BY <1>4, <1>8, <1>9
<1>11. ~pass'.over => pass'.cur \in pass'.first .. pass'.last
  <2>1. pass'.cur = f /\ pass'.first = f /\ pass'.last = l
    BY <1>4
  <2>2. ~pass'.over => ~(f > l)
    BY <1>4
  <2>3. QED
    BY <1>2, <1>3, <2>1, <2>2
<1>12. pass'.buf = b /\ pass'.total = 0 /\ pass'.failed = FALSE
  BY <1>4
<1>13. PassesFrom' = p % Word /\ PassesUpto' = (p + n) % Word
  BY <1>2, <1>3, <1>8
<1>14. QED
  BY <1>5, <1>7, <1>8, <1>10, <1>11, <1>12, <1>13

\* The bytes of one pass.
Moves == Transferred(BlockSize)

\* A pass is made in one block, and is within the range of the call.
LEMMA PassFacts ==
  ASSUME TypeOK, Passing, ~pass.over
  PROVE  /\ Reached = pass.cur * BlockSize + Segment.from
         /\ Segment.from \in Offset /\ Segment.upto \in 0 .. BlockSize
         /\ PassesFrom \in Nat /\ PassesFrom <= Reached /\ Reached \in Nat
         /\ Moves = IF Segment.upto < Segment.from THEN 0 ELSE Segment.upto - Segment.from
         /\ Moves \in 0 .. BlockSize
         /\ Transferred(-1) = IF WholeBlock THEN -1 ELSE Moves
         /\ Reached + Moves <= PassesFrom + Asked /\ Asked \in Nat
         /\ pass.cur < BlockSize => Reached + Moves <= Limit
         /\ pass.cur < pass.last => Reached + Moves = (pass.cur + 1) * BlockSize
         /\ PassesFrom <= PassesUpto /\ pass.cur = pass.last => Reached + Moves = PassesUpto
<1> DEFINE B == BlockSize
           c == pass.cur
           f == pass.first
           l == pass.last
           fb == f * B
           cb == c * B
           lb == l * B
           nb == (c + 1) * B
<1>1. B \in Nat \ {0}
  BY StreamAssumption
<1>2. /\ pass.from \in 0 .. B - 1 /\ pass.upto \in 0 .. B - 1 /\ pass.buf \in Seq(Bytes)
      /\ c \in Nat /\ f \in Nat /\ l \in Nat /\ call.bytes \in Nat
  BY DEF TypeOK, PassTypes, CallTypes, Offset
<1>3. c \in f .. l
  BY DEF Passing
<1>4. Asked \in Nat
  BY <1>2 DEF Asked
<1>5. fb \in Nat /\ cb \in Nat /\ lb \in Nat /\ nb \in Nat /\ nb = cb + B /\ B * B \in Nat
  <2>1. \A k \in Nat : k * B \in Nat
    BY <1>1
  <2>2. nb = cb + B
    BY <1>1, <1>2
  <2>3. c + 1 \in Nat /\ B \in Nat
    BY <1>1, <1>2
  <2>4. QED
    BY <1>2, <2>1, <2>2, <2>3
<1>6. /\ f < c => fb + B <= cb
      /\ c < l => cb + B <= lb
      /\ c < B => cb + B <= B * B
  <2>1. \A m, n \in Nat : m < n => m * B + B <= n * B
    BY <1>1, Multiples
  <2>2. B \in Nat
    BY <1>1
  <2>3. f < c => f * B + B <= c * B
    BY <1>2, <2>1
  <2>4. c < l => c * B + B <= l * B
    BY <1>2, <2>1
  <2>5. c < B => c * B + B <= B * B
    BY <1>2, <2>1, <2>2
  <2>6. QED
    BY <2>3, <2>4, <2>5
<1>7. f = c => fb = cb
  OBVIOUS
<1>8. c = l => cb = lb
  OBVIOUS
<1> HIDE DEF fb, cb, lb, nb
<1>9. /\ PassesFrom = fb + pass.from /\ PassesUpto = lb + pass.upto
      /\ Reached = IF c = f THEN fb + pass.from ELSE cb
  BY DEF PassesFrom, PassesUpto, Reached, fb, lb, cb
<1> DEFINE i == Segment.from
           j == Segment.upto
<1>10. /\ i = IF c = f THEN pass.from ELSE 0
       /\ j = IF c = l THEN pass.upto ELSE B
  BY DEF Segment
<1>11. WholeBlock <=> i = 0 /\ j = B
  BY DEF WholeBlock
<1>12. /\ Transferred(B) = IF WholeBlock THEN B ELSE
            LET upto == IF B < 0 THEN j ELSE Smaller(B, j) IN
            IF upto < i THEN 0 ELSE upto - i
       /\ Transferred(-1) = IF WholeBlock THEN -1 ELSE
            LET upto == IF -1 < 0 THEN j ELSE Smaller(-1, j) IN
            IF upto < i THEN 0 ELSE upto - i
  BY DEF Transferred
<1> HIDE DEF i, j
<1>13. i \in 0 .. B - 1 /\ j \in 0 .. B
  BY <1>1, <1>2, <1>10
<1>14. Smaller(B, j) = j /\ ~(B < 0)
  BY <1>1, <1>13 DEF Smaller
<1>15. Moves = IF j < i THEN 0 ELSE j - i
  BY <1>1, <1>11, <1>12, <1>13, <1>14 DEF Moves
<1>16. Moves \in 0 .. B
  BY <1>1, <1>13, <1>15
<1>17. Transferred(-1) = IF WholeBlock THEN -1 ELSE Moves
  BY <1>12, <1>15
<1>18. Reached = cb + i /\ fb + pass.from <= Reached
  BY <1>1, <1>2, <1>3, <1>5, <1>6, <1>7, <1>9, <1>10
<1>19. c < B => Reached + Moves <= B * B
  BY <1>1, <1>2, <1>5, <1>6, <1>13, <1>15, <1>18
<1>20. c < l => Reached + Moves = nb
  BY <1>1, <1>2, <1>3, <1>5, <1>10, <1>13, <1>15, <1>18
<1>21. c = l => \/ Reached + Moves = PassesUpto
                \/ PassesUpto < PassesFrom /\ Moves = 0 /\ Reached = PassesFrom
  BY SMTT(30), <1>1, <1>2, <1>3, <1>5, <1>6, <1>8, <1>9, <1>10, <1>13, <1>15, <1>18
<1>22. PassesUpto <= PassesFrom + Asked
  <2>1. PassesUpto = (PassesFrom + Asked) % Word
    BY DEF Passing
  <2>2. PassesFrom + Asked \in Nat
    BY SMTT(30), <1>2, <1>4, <1>5, <1>9
  <2>3. QED
    BY <2>1, <2>2, NoWrap
<1>23. Reached + Moves <= PassesFrom + Asked
  <2>1. CASE c < l
    BY <1>1, <1>2, <1>4, <1>5, <1>6, <1>9, <1>20, <1>22, <2>1
  <2>2. CASE c = l
    BY SMTT(30), <1>2, <1>4, <1>5, <1>9, <1>21, <1>22, <2>2
  <2>3. QED
    BY <1>2, <1>3, <2>1, <2>2
<1>24. PassesFrom \in Nat /\ PassesFrom <= Reached /\ Reached \in Nat
  BY SMTT(30), <1>2, <1>5, <1>9, <1>13, <1>18
<1>25. PassesFrom <= PassesUpto /\ c = l => Reached + Moves = PassesUpto
  <2>1. pass.upto \in Nat /\ PassesUpto = lb + pass.upto /\ lb \in Nat
    BY <1>1, <1>2, <1>5, <1>9
  <2>2. PassesUpto \in Nat
    BY ONLY <2>1
  <2>3. QED
    BY <1>21, <1>24, <2>2
<1>26. i \in Offset
  BY <1>13 DEF Offset
<1>27. QED
  BY <1>4, <1>13, <1>15, <1>16, <1>17, <1>18, <1>19, <1>20, <1>23, <1>24, <1>25, <1>26
  DEF Limit, i, j, cb, nb

\* What a pass leaves for the next one.
LEMMA PassCounted ==
  ASSUME TypeOK, Passing, ~pass.over, NEW n \in Int, NEW ret \in {-1, BlockSize},
         NEW b \in Seq(Bytes), CountPass(n, ret, b)
  PROVE  /\ pass' \in PassTypes
         /\ PassesFrom' = PassesFrom /\ PassesUpto' = PassesUpto
         /\ pass'.total = pass.total + n /\ pass'.buf = b
         /\ pass'.failed <=> ret = -1
         /\ pass'.over <=> ret = -1 \/ pass.cur = pass.last
         /\ ~pass'.over => /\ pass.cur < pass.last
                           /\ pass'.cur \in pass'.first .. pass'.last
                           /\ Reached' = (pass.cur + 1) * BlockSize
<1>1. BlockSize \in Nat \ {0}
  BY StreamAssumption
<1>2. pass \in PassTypes /\ pass.cur \in pass.first .. pass.last
  BY DEF TypeOK, Passing
<1>3. /\ pass.cur \in Nat /\ pass.first \in Nat /\ pass.last \in Nat /\ pass.total \in Int
      /\ pass.from \in Offset /\ pass.upto \in Offset
  BY <1>2 DEF PassTypes
<1> DEFINE over == ret # BlockSize \/ pass.cur = pass.last
           low == ret < 0
<1>4. over \in BOOLEAN /\ low \in BOOLEAN
  OBVIOUS
<1>5. pass' = [cur |-> pass.cur + 1, first |-> pass.first, from |-> pass.from,
               last |-> pass.last, upto |-> pass.upto, buf |-> b,
               total |-> pass.total + n, over |-> over, failed |-> low]
  BY <1>2 DEF CountPass, PassTypes
<1>6. (low <=> ret = -1) /\ (over <=> ret = -1 \/ pass.cur = pass.last)
  BY <1>1
<1> HIDE DEF over, low
<1>7. pass' \in PassTypes
  BY <1>3, <1>4, <1>5 DEF PassTypes
<1>8. PassesFrom' = PassesFrom /\ PassesUpto' = PassesUpto
  BY <1>5 DEF PassesFrom, PassesUpto
<1>9. pass'.total = pass.total + n /\ pass'.buf = b
  BY <1>5
<1>10. (pass'.failed <=> ret = -1) /\ (pass'.over <=> ret = -1 \/ pass.cur = pass.last)
  BY <1>5, <1>6
<1>11. pass'.cur = pass.cur + 1 /\ pass'.first = pass.first /\ pass'.last = pass.last
  BY <1>5
<1>12. pass.cur # pass.last => /\ pass.cur < pass.last
                               /\ pass'.cur \in pass'.first .. pass'.last
                               /\ pass'.cur # pass'.first
  BY <1>2, <1>3, <1>11
<1>13. QED
  BY <1>7, <1>8, <1>9, <1>10, <1>11, <1>12 DEF Reached

(***************************************************************************)
(* What a pass does to the card and to the buffer.                         *)
(***************************************************************************)
\* An address is an offset in a block of the card.
LEMMA AddressFacts ==
  ASSUME NEW p \in Address
  PROVE  /\ p \div BlockSize \in 0 .. DiskBlocks - 1 /\ p % BlockSize \in Offset
         /\ p = (p \div BlockSize) * BlockSize + (p % BlockSize)
<1> DEFINE B == BlockSize
           b == p \div B
           i == p % B
           D == DiskBlocks
<1>1. B \in Nat \ {0} /\ D \in Nat
  BY StreamAssumption, NofsAssumption
<1>2. D * B \in Nat
  BY <1>1
<1>3. p \in Nat /\ p < D * B
  BY <1>2 DEF Address
<1>4. b \in Int /\ i \in 0 .. B - 1 /\ p = b * B + i
  BY <1>1, <1>3, Division
<1> HIDE DEF b, i, B, D
<1>5. \A m, n \in Int : m < n => m * B + B <= n * B
  BY <1>1, Multiples
<1>6. 0 \in Int /\ D \in Int /\ 0 * B = 0
  BY <1>1
<1>7. (b < 0 => b * B + B <= 0) /\ (D < b => D * B + B <= b * B)
  BY <1>4, <1>5, <1>6
<1>8. D = b => D * B = b * B
  OBVIOUS
<1> DEFINE m == b * B
           n == D * B
<1>9. m \in Int /\ n \in Nat /\ p = m + i /\ p < n
  BY <1>1, <1>2, <1>3, <1>4
<1>10. (b < 0 => m + B <= 0) /\ (D < b => n + B <= m) /\ (D = b => n = m)
  BY <1>7, <1>8
<1> HIDE DEF m, n
<1>11. b >= 0 /\ b < D
  BY <1>1, <1>3, <1>4, <1>9, <1>10
<1>12. QED
  BY <1>1, <1>4, <1>11 DEF b, i, B, D, Offset

\* And the other way round.
LEMMA OffsetFacts ==
  ASSUME NEW b \in 0 .. DiskBlocks - 1, NEW i \in Offset
  PROVE  /\ b * BlockSize + i \in Address
         /\ (b * BlockSize + i) \div BlockSize = b /\ (b * BlockSize + i) % BlockSize = i
<1>1. BlockSize \in Nat \ {0} /\ DiskBlocks \in Nat /\ b \in Nat /\ i \in 0 .. BlockSize - 1
  BY StreamAssumption, NofsAssumption DEF Offset
<1>2. b * BlockSize \in Nat /\ DiskBlocks * BlockSize \in Nat
  BY <1>1
<1>3. b * BlockSize + BlockSize <= DiskBlocks * BlockSize
  BY <1>1, Multiples
<1>4. b * BlockSize + i \in Address
  BY <1>1, <1>2, <1>3 DEF Address
<1>5. QED
  BY <1>1, <1>4, DivisionIsUnique

\* The block a pass of fs_fwrite writes.
NewBlock == Edited(IF WholeBlock THEN JunkBlock ELSE disk[pass.cur])

\* A pass of fs_fwrite changes the bytes that it moves, and gives them their places
\* in the buffer.
LEMMA PassWrites ==
  ASSUME TypeOK, Passing, ~pass.over, ~Running("fread"), pass.cur < DiskBlocks,
         disk' = [disk EXCEPT ![pass.cur] = NewBlock]
  PROVE  /\ disk' \in Cards
         /\ \A p \in Address : Byte(disk', p) =
              IF p \in Reached .. Reached + Moves - 1 THEN pass.buf[p - PassesFrom + 1]
                                                      ELSE Byte(disk, p)
<1> DEFINE B == BlockSize
           c == pass.cur
           k == Segment.from
           u == Segment.upto
           t == pass.total
           d == disk'
           e == NewBlock
           old == IF WholeBlock THEN JunkBlock ELSE disk[c]
<1>1. B \in Nat \ {0} /\ DiskBlocks \in Nat
  BY StreamAssumption, NofsAssumption
<1>2. c \in 0 .. DiskBlocks - 1 /\ pass.buf \in Seq(Bytes) /\ c \in Nat
  BY <1>1 DEF TypeOK, PassTypes
<1>3. /\ Reached \in Nat /\ PassesFrom \in Nat /\ PassesFrom <= Reached
      /\ k \in 0 .. B - 1 /\ u \in 0 .. B
      /\ Moves = (IF u < k THEN 0 ELSE u - k)
      /\ Reached + Moves <= PassesFrom + Len(pass.buf) /\ Len(pass.buf) \in Nat
  BY PassFacts DEF Asked, Offset
<1>4. Reached = c * B + k
  BY PassFacts
<1>5. t = Reached - PassesFrom
  BY DEF Passing
<1>6. disk \in Cards
  BY DEF TypeOK, Cards
<1>7. old \in [Offset -> Bytes]
  <2>1. disk[c] \in [Offset -> Bytes]
    BY <1>2, <1>6 DEF Cards
  <2>2. JunkBlock \in [Offset -> Bytes]
    BY DEF JunkBlock, Bytes
  <2>3. QED
    BY <2>1, <2>2
<1>8. e = [i \in 0 .. B - 1 |-> IF i \in k .. u - 1 THEN pass.buf[t + 1 + i - k] ELSE old[i]]
  BY DEF Edited, NewBlock
<1>9. WholeBlock <=> k = 0 /\ u = B
  BY DEF WholeBlock
<1>10. ASSUME NEW p \in Address
      PROVE  Byte(d, p) = IF p \div BlockSize = c THEN e[p % BlockSize] ELSE Byte(disk, p)
  <2>1. p \div BlockSize \in 0 .. DiskBlocks - 1
    BY AddressFacts
  <2>2. \A b \in 0 .. DiskBlocks - 1 : d[b] = IF b = c THEN e ELSE disk[b]
    BY <1>2, <1>6 DEF Cards
  <2>3. QED
    BY <2>1, <2>2 DEF Byte
<1> HIDE DEF c, d, e, k, u, t, old
<1>11. \A i \in k .. u - 1 : t + 1 + i - k \in 1 .. Len(pass.buf)
  BY <1>1, <1>3, <1>5
<1>12. \A i \in 0 .. B - 1 :
         (IF i \in k .. u - 1 THEN pass.buf[t + 1 + i - k] ELSE old[i]) \in Bytes
  <2>1. \A j \in 1 .. Len(pass.buf) : pass.buf[j] \in Bytes
    BY <1>2
  <2>2. \A i \in 0 .. B - 1 : old[i] \in Bytes
    BY <1>7 DEF Offset
  <2>3. QED
    BY <1>11, <2>1, <2>2
<1>13. e \in [Offset -> Bytes]
  BY <1>8, <1>12 DEF Offset
<1>14. d \in Cards
  BY <1>2, <1>6, <1>13 DEF Cards, c, d, e
<1>15. ASSUME NEW p \in Address
       PROVE  Byte(d, p) = IF p \in Reached .. Reached + Moves - 1
                           THEN pass.buf[p - PassesFrom + 1] ELSE Byte(disk, p)
  <2> DEFINE b == p \div B
             i == p % B
  <2>1. b \in 0 .. DiskBlocks - 1 /\ i \in 0 .. B - 1 /\ p = b * B + i /\ p \in Int
    <3>1. p \in Int
      <4>1. DiskBlocks * BlockSize \in Nat
        BY <1>1
      <4>2. QED
        BY <4>1 DEF Address
    <3>2. b \in 0 .. DiskBlocks - 1 /\ i \in Offset /\ p = b * B + i
      BY AddressFacts
    <3>3. QED
      BY <3>1, <3>2 DEF Offset
  <2>2. Byte(d, p) = IF b = c THEN e[i] ELSE Byte(disk, p)
    BY <1>10
  <2>3. Byte(disk, p) = disk[b][i]
    BY DEF Byte
  <2> HIDE DEF b, i
  <2>4. CASE b = c
    <3> DEFINE m == c * B
    <3>1. m \in Int /\ p = m + i /\ Reached = m + k
      BY <1>1, <1>2, <1>3, <1>4, <2>1, <2>4
    <3> HIDE DEF m
    <3>2. p \in Reached .. Reached + Moves - 1 <=> i \in k .. u - 1
      BY <1>1, <1>3, <2>1, <3>1
    <3>3. t + 1 + i - k = p - PassesFrom + 1
      BY <1>1, <1>3, <1>5, <2>1, <3>1
    <3>4. i \notin k .. u - 1 => old[i] = disk[b][i]
      <4>1. i \notin k .. u - 1 => ~WholeBlock
        BY <1>1, <1>3, <1>9, <2>1
      <4>2. QED
        BY <2>4, <4>1 DEF old
    <3>5. e[i] = IF i \in k .. u - 1 THEN pass.buf[t + 1 + i - k] ELSE old[i]
      BY <1>8, <2>1
    <3>6. QED
      BY <2>2, <2>3, <2>4, <3>2, <3>3, <3>4, <3>5
  <2>5. CASE b # c
    <3>1. b * B + B <= c * B \/ c * B + B <= b * B
      <4>1. \A m, n \in Nat : m < n => m * B + B <= n * B
        BY <1>1, Multiples
      <4>2. b \in Nat /\ c \in Nat /\ (b < c \/ c < b)
        BY <1>1, <1>2, <2>1, <2>5
      <4>3. QED
        BY <4>1, <4>2
    <3> DEFINE m == c * B
               n == b * B
    <3>2. m \in Int /\ n \in Int /\ p = n + i /\ Reached = m + k /\ (n + B <= m \/ m + B <= n)
      BY <1>1, <1>2, <1>3, <1>4, <2>1, <3>1
    <3> HIDE DEF m, n
    <3>3. p \notin Reached .. Reached + Moves - 1
      BY <1>1, <1>3, <2>1, <3>2
    <3>4. QED
      BY <2>2, <2>5, <3>3
  <2>6. QED
    BY <2>4, <2>5
<1>16. QED
  BY <1>14, <1>15 DEF d

\* A function of the numbers from 1 is a sequence.
LEMMA SequenceOf ==
  ASSUME NEW S, NEW m \in Nat, NEW f \in [1 .. m -> S]
  PROVE  f \in Seq(S) /\ Len(f) = m
  OBVIOUS

\* A pass of fs_fread appends the bytes that it moves.
LEMMA PassReads ==
  ASSUME TypeOK, Passing, ~pass.over, NEW r \in Reads(pass.cur)
  PROVE  /\ r.ret \in {-1, BlockSize}
         /\ Received(r) \in Seq(Bytes)
         /\ r.ret = BlockSize => Received(r) =
              pass.buf \o [i \in 1 .. Moves |-> Byte(disk, Reached + i - 1)]
<1> DEFINE B == BlockSize
           c == pass.cur
           k == Segment.from
           u == Segment.upto
           n == Transferred(r.ret)
<1>1. B \in Nat \ {0} /\ DiskBlocks \in Nat
  BY StreamAssumption, NofsAssumption
<1>2. /\ Reached = c * B + k /\ k \in 0 .. B - 1 /\ u \in 0 .. B
      /\ Moves = (IF u < k THEN 0 ELSE u - k) /\ Moves \in 0 .. B
      /\ Transferred(-1) = IF WholeBlock THEN -1 ELSE Moves
  BY PassFacts DEF Offset
<1>3. disk \in Cards /\ c \in Nat /\ pass.buf \in Seq(Bytes)
  BY DEF TypeOK, Cards, PassTypes
<1>4. \/ c < DiskBlocks /\ r = [ret |-> B, data |-> disk[c]]
      \/ r = [ret |-> -1, data |-> JunkBlock]
  BY DEF Reads
<1>5. r.ret \in {-1, B} /\ r.data \in [Offset -> Bytes]
  <2>1. c < DiskBlocks => disk[c] \in [Offset -> Bytes]
    BY <1>1, <1>3 DEF Cards
  <2>2. JunkBlock \in [Offset -> Bytes]
    BY DEF JunkBlock, Bytes
  <2>3. QED
    BY <1>4, <2>1, <2>2
<1>6. n \in {-1, Moves}
  BY <1>2, <1>5 DEF Moves
<1>7. Received(r) = pass.buf \o [i \in 1 .. n |-> r.data[k + i - 1]]
  BY DEF Received
<1> HIDE DEF k, u, n, c
<1>8. \A i \in 1 .. n : r.data[k + i - 1] \in Bytes
  BY <1>1, <1>2, <1>5, <1>6 DEF Offset
<1>9. [i \in 1 .. n |-> r.data[k + i - 1]] \in Seq(Bytes)
  <2> DEFINE m == IF n = -1 THEN 0 ELSE n
  <2>1. m \in Nat /\ 1 .. n = 1 .. m
    BY <1>1, <1>2, <1>6
  <2> HIDE DEF m
  <2>2. [i \in 1 .. m |-> r.data[k + i - 1]] \in [1 .. m -> Bytes]
    BY <1>8, <2>1
  <2>3. [i \in 1 .. m |-> r.data[k + i - 1]] \in Seq(Bytes)
    BY <2>1, <2>2, SequenceOf
  <2>4. QED
    BY <2>1, <2>3
<1>10. Received(r) \in Seq(Bytes)
  <2> DEFINE s == [i \in 1 .. n |-> r.data[k + i - 1]]
  <2> HIDE DEF s
  <2>1. s \in Seq(Bytes) /\ Received(r) = pass.buf \o s
    BY <1>7, <1>9 DEF s
  <2>2. QED
    BY <1>3, <2>1
<1>11. ASSUME r.ret = B
       PROVE  Received(r) = pass.buf \o [i \in 1 .. Moves |-> Byte(disk, Reached + i - 1)]
  <2>1. c < DiskBlocks /\ r.data = disk[c] /\ n = Moves
    BY <1>1, <1>4, <1>11 DEF Moves, n
  <2>2. ASSUME NEW i \in 1 .. Moves PROVE r.data[k + i - 1] = Byte(disk, Reached + i - 1)
    <3> DEFINE j == k + i - 1
    <3>1. j \in Offset /\ Reached + i - 1 = c * B + j
      <4> DEFINE m == c * B
      <4>1. m \in Int
        BY <1>1, <1>3 DEF c
      <4> HIDE DEF m
      <4>2. Reached = m + k
        BY <1>2 DEF m, c
      <4>3. j \in Offset /\ Reached + i - 1 = m + j
        BY <1>1, <1>2, <4>1, <4>2 DEF Offset
      <4>4. QED
        BY <4>3 DEF m
    <3> HIDE DEF j
    <3>2. c \in 0 .. DiskBlocks - 1
      BY <1>1, <1>3, <2>1 DEF c
    <3>3. Byte(disk, c * B + j) = disk[c][j]
      BY <3>1, <3>2, OffsetFacts DEF Byte
    <3>4. QED
      BY <2>1, <3>1, <3>3 DEF j
  <2>3. QED
    BY <1>7, <2>1, <2>2
<1>12. QED
  BY <1>5, <1>10, <1>11

(***************************************************************************)
(* Types, and calls without passes.                                        *)
(***************************************************************************)

\* The marks fit in one block, and a file does not wrap.
LEMMA SizesFit ==
  /\ BlockSize \in Nat \ {0} /\ BomLen \in Nat \ {0} /\ MarkLen \in Nat \ {0}
  /\ BomLen + MarkLen <= BlockSize /\ DiskBlocks \in Nat \ {0}
  /\ Limit \in Nat /\ BlockSize <= Limit /\ Word \in Nat /\ Limit + BlockSize <= Word
<1> DEFINE B == BlockSize
           W == Word
           L == B * B
           k == W \div B
<1>1. B \in Nat \ {0} /\ W \in Nat \ {0} /\ W % B = 0 /\ L < W
  BY StreamAssumption, NofsAssumption DEF Limit
<1>2. k \in Int /\ W = k * B + 0
  BY <1>1, Division
<1>3. L \in Nat /\ k * B \in Int
  BY <1>1, <1>2
<1>4. /\ \A m, n \in Int : m < n => m * B + B <= n * B
      /\ 1 * B = B /\ B \in Int /\ 1 \in Int
  BY <1>1, Multiples
<1> HIDE DEF B, W, k
<1>5. /\ k < B => k * B + B <= L
      /\ B < k => L + B <= k * B
      /\ 1 < B => B + B <= L
      /\ 1 = B => B = L
  BY <1>2, <1>4
<1>6. k = B => k * B = L
  OBVIOUS
<1> DEFINE m == k * B
<1>7. /\ k < B => m + B <= L
      /\ B < k => L + B <= m
      /\ k = B => m = L
      /\ m \in Int /\ W = m
  BY <1>2, <1>3, <1>5, <1>6
<1> HIDE DEF m, L
<1>8. B <= L
  BY <1>1, <1>3, <1>5
<1>9. L + B <= W
  BY <1>1, <1>2, <1>3, <1>7
<1>10. QED
  BY <1>1, <1>3, <1>8, <1>9, NofsAssumption DEF B, W, L, Limit

\* The mark is a sequence of bytes.
LEMMA MarkFacts == eof_mark \in Seq(Bytes) /\ Len(eof_mark) = MarkLen
<1>1. MarkLen \in Nat
  BY SizesFit
<1>2. eof_mark \in [1 .. MarkLen -> Bytes]
  BY DEF eof_mark, Bytes
<1>3. QED
  BY <1>1, <1>2, SequenceOf

\* A call has just been made.
LEMMA NewCallFacts ==
  ASSUME stream \in StreamTypes, NEW o \in {"fread", "fwrite"},
         NEW p \in Int, NEW size \in Nat \ {0}, NEW n \in Nat, call' = NewCall(o, p, size, n)
  PROVE  /\ call' \in CallTypes
         /\ call'.op = o /\ call'.busy = TRUE /\ call'.start = p /\ call'.bytes = n
         /\ call'.len = stream.len /\ call'.failed = FALSE /\ call'.total = 0
<1>1. stream.len \in Int
  BY DEF StreamTypes
<1>2. call' = [op |-> o, busy |-> TRUE, start |-> p, size |-> size, bytes |-> n,
               len |-> stream.len, total |-> 0, ret |-> 0, failed |-> FALSE]
  BY DEF NewCall
<1>3. call' \in CallTypes
  BY <1>1, <1>2 DEF CallTypes
<1>4. QED
  BY <1>2, <1>3

\* And returns.
LEMMA EndedFacts ==
  ASSUME NEW c \in CallTypes, NEW d, d = [c EXCEPT !.busy = FALSE]
  PROVE  d \in CallTypes /\ d.op = c.op /\ d.busy = FALSE /\ d.start = c.start
         /\ d.bytes = c.bytes /\ d.len = c.len /\ d.total = c.total /\ d.failed = c.failed
  BY DEF CallTypes

\* A call that has neither a range nor passes.
LEMMA PlainCall ==
  ASSUME stream \in StreamTypes, NEW o \in {"fopen", "search", "fseek"},
         NEW c, c = NewCall(o, 0, 1, 0)
  PROVE  c \in CallTypes /\ c.op = o
<1>1. stream.len \in Int
  BY DEF StreamTypes
<1>2. c = [op |-> o, busy |-> TRUE, start |-> 0, size |-> 1, bytes |-> 0,
           len |-> stream.len, total |-> 0, ret |-> 0, failed |-> FALSE]
  BY DEF NewCall
<1>3. 0 \in Int /\ 0 \in Nat /\ 1 \in Nat \ {0}
  OBVIOUS
<1>4. \A p, t \in Int, size \in Nat \ {0}, n \in Nat :
        [op |-> o, busy |-> TRUE, start |-> p, size |-> size, bytes |-> n,
         len |-> stream.len, total |-> t, ret |-> t, failed |-> FALSE] \in CallTypes
  BY <1>1 DEF CallTypes
<1>5. c \in CallTypes
  BY <1>2, <1>3, <1>4
<1>6. QED
  BY <1>2, <1>5

\* What fopen answers.
LEMMA FopenResultFacts ==
  ASSUME stream \in StreamTypes, NEW b \in BOOLEAN, NEW c, c = FopenResult(b)
  PROVE  c \in CallTypes /\ c.op = "fopen" /\ c.busy = FALSE
<1> DEFINE n == NewCall("fopen", 0, 1, 0)
           d == [n EXCEPT !.busy = FALSE]
<1>1. n \in CallTypes /\ n.op = "fopen"
  BY PlainCall
<1>2. c = [d EXCEPT !.failed = b]
  BY DEF FopenResult
<1> HIDE DEF n
<1>3. d \in CallTypes /\ d.op = "fopen" /\ d.busy = FALSE
  BY <1>1, EndedFacts
<1> HIDE DEF d
<1>4. QED
  BY <1>2, <1>3 DEF CallTypes

\* The variables have their types.
LEMMA TypesHold ==
  ASSUME stream' \in StreamTypes, call' \in CallTypes, pass' \in PassTypes,
         disk' \in Cards, before' \in Cards, wild' \in BOOLEAN, failed' \in BOOLEAN,
         calls' \in Nat, payload' \in Seq(Data), wild' => failed'
  PROVE  TypeOK'
  BY DEF TypeOK

\* Without a call that reads or writes, most of the invariant says nothing.
LEMMA NoPasses ==
  ASSUME call'.op \notin {"fread", "fwrite", "mark"}, pass'.over = TRUE
  PROVE  /\ Passing' /\ Reading' /\ Writing' /\ ReadsFile' /\ WritesWithin(Limit)'
         /\ (stream'.open /\ ~failed' /\ BomLen < stream'.len /\ stream'.len < Limit =>
               stream'.len \in Address /\ Byte(disk', stream'.len) = Eof) => Marked'
<1>1. ~Running("fread")' /\ ~Running("fwrite")' /\ ~Running("mark")'
  BY DEF Running
<1>2. Passing' /\ Reading' /\ Writing' /\ ReadsFile' /\ WritesWithin(Limit)'
  BY <1>1 DEF Passing, Reading, Writing, ReadsFile, WritesWithin
<1>3. QED
  BY <1>1, <1>2 DEF Marked

\* Between two calls no pass is to be made.
LEMMA PassesOver ==
  ASSUME TypeOK, Passing, ~call.busy
  PROVE  pass.over = TRUE
<1>1. pass.over \in BOOLEAN
  BY DEF TypeOK, PassTypes
<1>2. QED
  BY <1>1 DEF Passing, Running

(***************************************************************************)
(* Opening, seeking and closing.                                           *)
(***************************************************************************)

\* A stream that has just been opened.
LEMMA OpenedFacts ==
  ASSUME NEW mode \in Modes, NEW pos \in Nat, NEW s, s = Opened(mode, pos, pos)
  PROVE  /\ s \in StreamTypes /\ s.open = TRUE /\ s.pos = pos /\ s.len = pos
  BY DEF Opened, StreamTypes

LEMMA ClosedFacts ==
  ASSUME NEW mode \in Modes, NEW s, s = [Closed EXCEPT !.mode = mode]
  PROVE  /\ s \in StreamTypes /\ Closed \in StreamTypes /\ s.open = FALSE /\ Closed.open = FALSE
         /\ s.pos = 0 /\ s.len = 0 /\ Closed.pos = 0 /\ Closed.len = 0
<1>1. s = [open |-> FALSE, pos |-> 0, len |-> 0, mode |-> mode]
  BY DEF Closed
<1>2. Closed = [open |-> FALSE, pos |-> 0, len |-> 0, mode |-> "r"] /\ "r" \in Modes
  BY DEF Closed, Modes
<1>3. 0 \in Int /\ 0 \in Nat /\ FALSE \in BOOLEAN
  OBVIOUS
<1>4. s \in StreamTypes /\ Closed \in StreamTypes
  BY <1>1, <1>2, <1>3 DEF StreamTypes
<1>5. QED
  BY <1>1, <1>2, <1>4

\* Every call of fopen starts afresh.
LEMMA OpensFacts ==
  ASSUME TypeOK, Opens
  PROVE  wild' \in BOOLEAN /\ failed' \in BOOLEAN /\ ~wild' /\ calls' \in Nat
<1>1. calls' \in Nat
  BY DEF Opens, Begins, TypeOK
<1>2. wild' = FALSE /\ failed' = FALSE
  BY DEF Opens
<1>3. wild' \in BOOLEAN /\ failed' \in BOOLEAN /\ ~wild'
  BY <1>2
<1>4. QED
  BY <1>1, <1>3

\* A file that is opened at its beginning.
LEMMA FopenedKeeps ==
  ASSUME IInv, NEW mode \in UsedModes, Opens,
         stream' = Opened(mode, BomLen, BomLen), call' = FopenResult(FALSE),
         disk' \in Cards, HasBom(disk'[0])
  PROVE  IInv'
<1>1. TypeOK /\ Passing
  BY DEF IInv
<1>2. /\ ~call.busy /\ calls \in Nat /\ calls' = calls + 1 /\ before' = disk
      /\ failed' = FALSE /\ wild' = FALSE /\ pass' = pass /\ payload' = payload
      /\ stream \in StreamTypes /\ pass \in PassTypes /\ disk \in Cards /\ payload \in Seq(Data)
  BY <1>1 DEF Opens, Begins, TypeOK
<1>3. pass.over = TRUE
  BY <1>1, <1>2, PassesOver
<1>4. mode \in Modes
  BY NofsAssumption
<1>5. BomLen \in Nat /\ BomLen <= Limit /\ BomLen < Word /\ Limit \in Nat
  BY SizesFit
<1>6. stream' \in StreamTypes /\ stream'.open = TRUE /\ stream'.pos = BomLen /\ stream'.len = BomLen
  BY <1>4, <1>5, OpenedFacts
<1>7. call' \in CallTypes /\ call'.op = "fopen" /\ call'.busy = FALSE
  BY <1>2, FopenResultFacts
<1>8. TypeOK'
  <2>1. wild' \in BOOLEAN /\ failed' \in BOOLEAN /\ ~wild' /\ calls' \in Nat
    BY <1>1, OpensFacts
  <2>2. QED
    BY <1>2, <1>6, <1>7, <2>1, TypesHold
<1>9. Stands'
  <2>1. ~Running("search")' /\ ~Running("mark")'
    BY <1>7 DEF Running
  <2>2. stream'.pos \in -1 .. stream'.len /\ stream'.len < Word
    BY <1>5, <1>6
  <2>3. BomLen <= stream'.pos /\ stream'.len <= Limit
    BY <1>5, <1>6
  <2>4. QED
    BY <2>1, <2>2, <2>3 DEF Stands
<1>10. HeaderIntact'
  BY DEF HeaderIntact, HasBom
<1>11. /\ Passing' /\ Reading' /\ Writing' /\ ReadsFile' /\ WritesWithin(Limit)'
       /\ (stream'.open /\ ~failed' /\ BomLen < stream'.len /\ stream'.len < Limit =>
             stream'.len \in Address /\ Byte(disk', stream'.len) = Eof) => Marked'
  BY <1>2, <1>3, <1>7, NoPasses
<1>12. ~(BomLen < stream'.len)
  BY <1>5, <1>6
<1>13. QED
  BY <1>8, <1>9, <1>10, <1>11, <1>12 DEF IInv

LEMMA FopenKeeps ==
  ASSUME IInv, NEW mode \in UsedModes, Fopen(mode)
  PROVE  IInv'
<1>1. disk' = disk /\ disk \in Cards
  BY DEF Fopen, IInv, TypeOK
<1>2. HasBom(disk'[0])
  BY <1>1 DEF Fopen
<1>3. QED
  BY <1>1, <1>2, FopenedKeeps DEF Fopen

\* A new file begins with the byte order mark.
LEMMA NewFileFacts ==
  ASSUME NEW block \in [Offset -> Bytes]
  PROVE  NewFile(block) \in [Offset -> Bytes] /\ HasBom(NewFile(block))
<1>1. /\ BlockSize \in Nat /\ BomLen \in Nat \ {0} /\ MarkLen \in Nat \ {0}
      /\ BomLen + MarkLen <= BlockSize
  BY SizesFit
<1>2. \A i \in 1 .. MarkLen : eof_mark[i] \in Bytes
  BY DEF eof_mark, Bytes
<1>3. \A i \in Offset : i < BomLen + MarkLen /\ ~(i < BomLen) => i - BomLen + 1 \in 1 .. MarkLen
  BY <1>1 DEF Offset
<1>4. Bom \in Bytes /\ \A i \in Offset : block[i] \in Bytes
  BY DEF Bytes
<1>5. NewFile(block) \in [Offset -> Bytes]
  BY <1>2, <1>3, <1>4 DEF NewFile
<1>6. HasBom(NewFile(block))
  BY <1>1 DEF NewFile, HasBom, Offset
<1>7. QED
  BY <1>5, <1>6

LEMMA FopenNewKeeps ==
  ASSUME IInv, NEW mode \in UsedModes, FopenNew(mode)
  PROVE  IInv'
<1>1. disk \in Cards /\ 0 \in 0 .. DiskBlocks - 1
  BY SizesFit DEF IInv, TypeOK
<1> DEFINE e == NewFile(disk[0])
<1>2. e \in [Offset -> Bytes] /\ HasBom(e)
  BY <1>1, NewFileFacts DEF Cards
<1>3. disk' = [disk EXCEPT ![0] = e]
  BY SizesFit DEF FopenNew, Writes
<1> HIDE DEF e
<1>4. disk' \in Cards /\ disk'[0] = e
  BY <1>1, <1>2, <1>3 DEF Cards
<1>5. HasBom(disk'[0])
  BY <1>2, <1>4
<1>6. QED
  BY <1>4, <1>5, FopenedKeeps DEF FopenNew

LEMMA FopenAppendKeeps ==
  ASSUME IInv, NEW mode \in UsedModes, FopenAppend(mode)
  PROVE  IInv'
<1>1. TypeOK /\ Passing
  BY DEF IInv
<1>2. /\ ~call.busy /\ calls \in Nat /\ calls' = calls + 1 /\ before' = disk /\ disk' = disk
      /\ failed' = FALSE /\ wild' = FALSE /\ pass' = pass /\ payload' = payload
      /\ stream \in StreamTypes /\ pass \in PassTypes /\ disk \in Cards /\ payload \in Seq(Data)
  BY <1>1 DEF FopenAppend, Opens, Begins, TypeOK
<1>3. pass.over = TRUE
  BY <1>1, <1>2, PassesOver
<1>4. mode \in Modes
  BY NofsAssumption
<1>5. stream' \in StreamTypes /\ stream'.open = FALSE /\ stream'.pos = 0 /\ stream'.len = 0
  BY <1>4, ClosedFacts DEF FopenAppend
<1>6. call' \in CallTypes /\ call'.op = "search"
  BY <1>2, PlainCall DEF FopenAppend
<1>7. TypeOK'
  <2>1. wild' \in BOOLEAN /\ failed' \in BOOLEAN /\ ~wild' /\ calls' \in Nat
    BY <1>1, OpensFacts DEF FopenAppend
  <2>2. QED
    BY <1>2, <1>5, <1>6, <2>1, TypesHold
<1>8. Stands'
  <2>1. HasBom(disk'[0])
    BY <1>2 DEF FopenAppend
  <2>2. 0 < Word
    BY SizesFit
  <2>3. QED
    BY <1>5, <1>6, <2>1, <2>2 DEF Stands, Running
<1>9. HeaderIntact'
  BY <1>5 DEF HeaderIntact
<1>10. QED
  BY <1>2, <1>3, <1>5, <1>6, <1>7, <1>8, <1>9, NoPasses DEF IInv

LEMMA FopenFailsKeeps ==
  ASSUME IInv, FopenFails
  PROVE  IInv'
<1>1. TypeOK /\ Passing /\ Stands
  BY DEF IInv
<1>2. /\ ~call.busy /\ calls \in Nat /\ calls' = calls + 1 /\ before' = disk
      /\ failed' = FALSE /\ wild' = FALSE /\ pass' = pass /\ payload' = payload
      /\ stream' = stream /\ ~stream.open
      /\ stream \in StreamTypes /\ pass \in PassTypes /\ disk \in Cards /\ payload \in Seq(Data)
  BY <1>1 DEF FopenFails, Opens, Begins, TypeOK
<1>3. pass.over = TRUE
  BY <1>1, <1>2, PassesOver
<1>4. call' \in CallTypes /\ call'.op = "fopen" /\ call'.busy = FALSE
  BY <1>2, FopenResultFacts DEF FopenFails
<1>5. disk' \in Cards
  <2> DEFINE e == NewFile(disk[0])
  <2>1. 0 \in 0 .. DiskBlocks - 1 /\ BlockSize # -1
    BY SizesFit
  <2>2. e \in [Offset -> Bytes]
    BY <1>2, <2>1, NewFileFacts DEF Cards
  <2>3. disk' = disk \/ disk' = [disk EXCEPT ![0] = e]
    BY <2>1 DEF FopenFails, Writes
  <2> HIDE DEF e
  <2>4. QED
    BY <1>2, <2>1, <2>2, <2>3 DEF Cards
<1>6. TypeOK'
  <2>1. wild' \in BOOLEAN /\ failed' \in BOOLEAN /\ ~wild' /\ calls' \in Nat
    BY <1>1, OpensFacts DEF FopenFails
  <2>2. QED
    BY <1>2, <1>4, <1>5, <2>1, TypesHold
<1>7. Stands'
  BY <1>1, <1>2, <1>4 DEF Stands, Running
<1>8. HeaderIntact'
  BY <1>2 DEF HeaderIntact
<1>9. QED
  BY <1>2, <1>3, <1>4, <1>6, <1>7, <1>8, NoPasses DEF IInv

\* A step that changes nothing.
LEMMA StutterKeeps ==
  ASSUME IInv, UNCHANGED vars
  PROVE  IInv'
<1>1. /\ stream' = stream /\ call' = call /\ pass' = pass /\ disk' = disk /\ wild' = wild
      /\ calls' = calls /\ before' = before /\ payload' = payload /\ failed' = failed
  BY DEF vars, history
<1>2. TypeOK'
  BY <1>1 DEF IInv, TypeOK
<1>3. \A o : Running(o)' = Running(o)
  BY <1>1 DEF Running
<1>4. PassesFrom' = PassesFrom /\ PassesUpto' = PassesUpto /\ Reached' = Reached
  BY <1>1 DEF PassesFrom, PassesUpto, Reached
<1>5. Asked' = Asked
  BY <1>1 DEF Asked, Running
<1>6. Grown' = Grown
  BY <1>1 DEF Grown
<1>7. Stands'
  BY <1>1, <1>3 DEF IInv, Stands, HasBom
<1>8. Passing'
  BY <1>1, <1>3, <1>4, <1>5 DEF IInv, Passing
<1>9. Reading'
  BY <1>1, <1>3, <1>4 DEF IInv, Reading
<1>10. Writing'
  BY <1>1, <1>3, <1>4 DEF IInv, Writing
<1>11. Marked'
  BY <1>1, <1>3, <1>4, <1>6 DEF IInv, Marked
<1>12. HeaderIntact' /\ ReadsFile'
  BY <1>1 DEF IInv, HeaderIntact, HasBom, ReadsFile
<1>13. WritesWithin(Limit)'
  BY <1>1, <1>3, <1>4 DEF IInv, WritesWithin
<1>14. QED
  BY <1>2, <1>7, <1>8, <1>9, <1>10, <1>11, <1>12, <1>13 DEF IInv

\* The first mark is one.
LEMMA FirstFacts ==
  ASSUME NEW S \in SUBSET Nat, S # {}
  PROVE  First(S) \in S
<1>1. PICK m \in S : \A j \in S : ~ (<<j, m>> \in OpToRel(<, Nat))
  BY WFMin, NatLessThanWellFounded
<1>2. \A j \in S : ~ (j < m)
  BY <1>1 DEF OpToRel
<1>3. \E i \in S : \A j \in S : i <= j
  BY <1>2
<1>4. QED
  BY <1>3 DEF First

\* The search ends at a mark behind the byte order mark, or anywhere.
LEMMA SearchPassKeeps ==
  ASSUME IInv, SearchPass
  PROVE  IInv'
<1>1. TypeOK /\ Passing /\ Stands /\ Running("search")
  BY DEF IInv, SearchPass
<1>2. /\ pass' = pass /\ disk' = disk /\ calls' = calls /\ before' = before /\ payload' = payload
      /\ call.op = "search" /\ HasBom(disk[0])
  BY <1>1 DEF SearchPass, Running, Stands
<1>3. /\ stream \in StreamTypes /\ call \in CallTypes /\ pass \in PassTypes /\ disk \in Cards
      /\ before \in Cards /\ wild \in BOOLEAN /\ failed \in BOOLEAN /\ calls \in Nat
      /\ payload \in Seq(Data) /\ (wild => failed) /\ stream.mode \in Modes
  BY <1>1 DEF TypeOK, StreamTypes
<1>4. pass.over = TRUE
  <2>1. pass.over \in BOOLEAN
    BY <1>3 DEF PassTypes
  <2>2. QED
    BY <1>1, <1>2, <2>1 DEF Passing, Running
<1>5. ASSUME NEW pos \in Nat, Found(pos), pos < Word,
             wild' \in BOOLEAN, failed' \in BOOLEAN, wild' => failed',
             ~wild' => BomLen <= pos /\ pos <= Limit,
             ~failed' => pos \in Address /\ Byte(disk, pos) = Eof
      PROVE  IInv'
  <2>1. stream' \in StreamTypes /\ stream'.open = TRUE /\ stream'.pos = pos /\ stream'.len = pos
    BY ZenonT(60), <1>3, <1>5, OpenedFacts DEF Found
  <2>2. call' \in CallTypes /\ call'.op = "search" /\ call'.busy = FALSE
    BY <1>2, <1>3, <1>5, EndedFacts DEF Found
  <2>3. TypeOK'
    BY <1>2, <1>3, <1>5, <2>1, <2>2, TypesHold
  <2>4. Stands'
    <3>1. ~Running("search")' /\ ~Running("mark")'
      BY <2>2 DEF Running
    <3>2. stream'.pos \in -1 .. stream'.len /\ stream'.len < Word
      BY <1>5, <2>1
    <3>3. ~wild' => BomLen <= stream'.pos /\ stream'.len <= Limit
      BY <1>5, <2>1
    <3>4. QED
      BY <3>1, <3>2, <3>3 DEF Stands
  <2>5. HeaderIntact'
    BY <1>2 DEF HeaderIntact, HasBom
  <2>6. ~failed' => stream'.len \in Address /\ Byte(disk', stream'.len) = Eof
    BY <1>2, <1>5, <2>1
  <2>7. /\ Passing' /\ Reading' /\ Writing' /\ ReadsFile' /\ WritesWithin(Limit)'
        /\ (stream'.open /\ ~failed' /\ BomLen < stream'.len /\ stream'.len < Limit =>
              stream'.len \in Address /\ Byte(disk', stream'.len) = Eof) => Marked'
    BY <1>2, <1>4, <2>2, NoPasses
  <2>8. QED
    BY <2>3, <2>4, <2>5, <2>6, <2>7 DEF IInv
<1>6. PICK r \in Reads(0) :
        IF r.ret = BlockSize
        THEN /\ UNCHANGED <<wild, failed>>
             /\ IF Marks(r.data) # {} THEN Found(First(Marks(r.data)))
                                      ELSE UNCHANGED <<stream, call>>
        ELSE /\ wild' = TRUE /\ failed' = TRUE
             /\ \E pos \in WildPositions : Found(pos)
  BY DEF SearchPass
<1>7. CASE r.ret # BlockSize
  <2>1. PICK pos \in WildPositions : Found(pos)
    BY <1>6, <1>7
  <2>2. wild' = TRUE /\ failed' = TRUE
    BY <1>6, <1>7
  <2>3. wild' \in BOOLEAN /\ failed' \in BOOLEAN /\ wild' /\ failed'
    BY <2>2
  <2>4. pos \in Nat /\ pos < Word
    <3>1. pos \in 0 .. Word - 1
      BY NofsAssumption
    <3>2. QED
      BY <3>1, SizesFit
  <2>5. QED
    BY <1>5, <2>1, <2>3, <2>4
<1>8. CASE r.ret = BlockSize /\ Marks(r.data) = {}
  <2>1. stream' = stream /\ call' = call /\ wild' = wild /\ failed' = failed
    BY <1>6, <1>8
  <2>2. QED
    BY <1>2, <2>1, StutterKeeps DEF vars, history
<1>9. CASE r.ret = BlockSize /\ Marks(r.data) # {}
  <2> DEFINE pos == First(Marks(disk[0]))
  <2>1. r.data = disk[0]
    BY <1>9, SizesFit DEF Reads
  <2>2. Found(pos) /\ wild' = wild /\ failed' = failed
    BY <1>6, <1>9, <2>1
  <2>3. pos \in Marks(disk[0])
    <3>1. Marks(disk[0]) \in SUBSET Nat
      BY DEF Marks, Offset
    <3>2. QED
      BY <1>9, <2>1, <3>1, FirstFacts
  <2> HIDE DEF pos
  <2>4. pos \in Offset /\ disk[0][pos] = Eof
    BY <2>3 DEF Marks
  <2>5. pos \in Nat /\ pos < BlockSize
    BY <2>4, SizesFit DEF Offset
  <2>6. BomLen <= pos
    <3>1. pos \in 0 .. BomLen - 1 => disk[0][pos] = Bom
      BY <1>2 DEF HasBom
    <3>2. Bom # Eof
      BY NofsAssumption
    <3>3. QED
      BY <2>4, <2>5, <3>1, <3>2, SizesFit
  <2>7. pos <= Limit /\ pos < Word
    BY <2>5, SizesFit
  <2>8. pos \in Address /\ Byte(disk, pos) = Eof
    <3>1. 0 \in 0 .. DiskBlocks - 1
      BY SizesFit
    <3>2. 0 * BlockSize + pos = pos
      BY <2>5, SizesFit
    <3>3. /\ 0 * BlockSize + pos \in Address
          /\ (0 * BlockSize + pos) \div BlockSize = 0
          /\ (0 * BlockSize + pos) % BlockSize = pos
      BY <2>4, <3>1, OffsetFacts
    <3>4. pos \in Address /\ pos \div BlockSize = 0 /\ pos % BlockSize = pos
      BY <3>2, <3>3
    <3>5. QED
      BY <2>4, <3>4 DEF Byte
  <2>9. wild' \in BOOLEAN /\ failed' \in BOOLEAN /\ (wild' => failed')
    BY <1>3, <2>2
  <2>10. QED
    BY <1>5, <2>2, <2>5, <2>6, <2>7, <2>8, <2>9
<1>10. QED
  BY <1>7, <1>8, <1>9

\* fseek stays in the file.
LEMMA FseekKeeps ==
  ASSUME IInv, NEW offset \in Offsets, NEW whence \in {"SEEK_SET", "SEEK_END", "SEEK_CUR"},
         Fseek(offset, whence)
  PROVE  IInv'
<1>1. TypeOK /\ Passing /\ Stands /\ Marked /\ HeaderIntact
  BY DEF IInv
<1>2. /\ stream.open /\ ~call.busy /\ calls' = calls + 1 /\ before' = disk
      /\ pass' = pass /\ disk' = disk /\ wild' = wild /\ payload' = payload /\ failed' = failed
  BY DEF Fseek, Begins
<1>3. /\ stream \in StreamTypes /\ call \in CallTypes /\ pass \in PassTypes /\ disk \in Cards
      /\ wild \in BOOLEAN /\ failed \in BOOLEAN /\ calls \in Nat
      /\ payload \in Seq(Data) /\ (wild => failed)
  BY <1>1 DEF TypeOK
<1>4. pass.over = TRUE
  BY <1>1, <1>2, PassesOver
<1> DEFINE pos == Clamped(Target(offset, whence, BomLen), BomLen)
<1>5. stream.pos \in Int /\ stream.len \in Int /\ offset \in Int
  BY <1>3, NofsAssumption DEF StreamTypes
<1>6. ~Running("mark") /\ ~Running("search") /\ ~Running("fwrite")
  BY <1>2 DEF Running
<1>7. stream.pos \in -1 .. stream.len /\ stream.len < Word
  BY <1>1, <1>6 DEF Stands
<1>8. ~wild => BomLen <= stream.pos /\ stream.len <= Limit
  BY <1>1, <1>2, <1>6 DEF Stands
<1>9. pos \in -1 .. stream.len /\ (BomLen <= stream.len => BomLen <= pos)
  <2>1. Target(offset, whence, BomLen) \in Int
    BY <1>5, SizesFit DEF Target
  <2> DEFINE t == Target(offset, whence, BomLen)
  <2> HIDE DEF t
  <2>2. t \in Int
    BY <2>1 DEF t
  <2>3. Clamped(t, BomLen) = Smaller(IF t < BomLen THEN BomLen ELSE t, stream.len)
    BY DEF Clamped
  <2>4. Clamped(t, BomLen) \in -1 .. stream.len
    BY <1>5, <1>7, <2>2, <2>3, SizesFit DEF Smaller
  <2>5. BomLen <= stream.len => BomLen <= Clamped(t, BomLen)
    BY <1>5, <1>7, <2>2, <2>3, SizesFit DEF Smaller
  <2>6. QED
    BY <2>4, <2>5 DEF t
<1>10. stream' = [stream EXCEPT !.pos = pos]
  BY DEF Fseek, SeekTo
<1> HIDE DEF pos
<1>11. pos \in Int
  BY <1>5, <1>9
<1>12. /\ stream' \in StreamTypes /\ stream'.open = stream.open
       /\ stream'.pos = pos /\ stream'.len = stream.len
  BY <1>3, <1>10, <1>11 DEF StreamTypes
<1>13. call' \in CallTypes /\ call'.op = "fseek" /\ call'.busy = FALSE
  <2> DEFINE c == NewCall("fseek", 0, 1, 0)
  <2>1. c \in CallTypes /\ c.op = "fseek"
    BY <1>3, PlainCall
  <2>2. call' = [c EXCEPT !.busy = FALSE]
    BY DEF Fseek
  <2> HIDE DEF c
  <2>3. QED
    BY <2>1, <2>2, EndedFacts
<1>14. calls' \in Nat
  BY <1>2, <1>3
<1>15. TypeOK'
  <2>1. wild' \in BOOLEAN /\ failed' \in BOOLEAN /\ (wild' => failed')
    BY <1>2, <1>3
  <2>2. QED
    BY <1>2, <1>3, <1>12, <1>13, <1>14, <2>1, TypesHold
<1>16. Stands'
  <2>1. ~Running("search")' /\ ~Running("mark")'
    BY <1>13 DEF Running
  <2>2. stream'.pos \in -1 .. stream'.len /\ stream'.len < Word
    BY <1>7, <1>9, <1>12
  <2>3. ~wild => BomLen <= stream'.pos /\ stream'.len <= Limit
    BY <1>5, <1>7, <1>8, <1>9, <1>12, SizesFit
  <2>4. QED
    BY <1>2, <2>1, <2>2, <2>3 DEF Stands
<1>17. HeaderIntact'
  BY <1>1, <1>2 DEF HeaderIntact, HasBom
<1>18. stream'.open /\ ~failed' /\ BomLen < stream'.len /\ stream'.len < Limit =>
         stream'.len \in Address /\ Byte(disk', stream'.len) = Eof
  BY <1>1, <1>2, <1>6, <1>12 DEF Marked
<1>19. /\ Passing' /\ Reading' /\ Writing' /\ ReadsFile' /\ WritesWithin(Limit)'
       /\ (stream'.open /\ ~failed' /\ BomLen < stream'.len /\ stream'.len < Limit =>
             stream'.len \in Address /\ Byte(disk', stream'.len) = Eof) => Marked'
  BY <1>2, <1>4, <1>13, NoPasses
<1>20. QED
  BY <1>15, <1>16, <1>17, <1>18, <1>19 DEF IInv

\* Before the first call.
LEMMA NoneFacts ==
  /\ NoCall \in CallTypes /\ NoCall.op = "none"
  /\ NoPass \in PassTypes /\ NoPass.over = TRUE
<1>1. 0 \in Int /\ 0 \in Nat /\ 1 \in Nat \ {0} /\ 0 \in Offset /\ <<>> \in Seq(Bytes)
  BY SizesFit DEF Offset
<1>2. \A z \in Int, n \in Nat, size \in Nat \ {0} :
        [op |-> "none", busy |-> FALSE, start |-> z, size |-> size, bytes |-> n,
         len |-> z, total |-> z, ret |-> z, failed |-> FALSE] \in CallTypes
  BY DEF CallTypes
<1>3. \A z \in Int, n \in Nat, o \in Offset, b \in Seq(Bytes) :
        [cur |-> n, first |-> n, from |-> o, last |-> n, upto |-> o, buf |-> b,
         total |-> z, over |-> TRUE, failed |-> FALSE] \in PassTypes
  BY DEF PassTypes
<1>4. NoCall \in CallTypes /\ NoPass \in PassTypes
  BY <1>1, <1>2, <1>3 DEF NoCall, NoPass
<1>5. QED
  BY <1>4 DEF NoCall, NoPass

\* Nothing is left of a closed file.
LEMMA FcloseKeeps ==
  ASSUME IInv, Fclose
  PROVE  IInv'
<1>1. TypeOK
  BY DEF IInv
<1>2. /\ stream' = Closed /\ call' = NoCall /\ pass' = NoPass /\ before' = disk
      /\ payload' = <<>> /\ failed' = FALSE /\ wild' = FALSE /\ disk' = disk /\ calls' = calls
      /\ disk \in Cards /\ calls \in Nat
  BY <1>1 DEF Fclose, TypeOK
<1>3. stream' \in StreamTypes /\ stream'.open = FALSE /\ stream'.pos = 0 /\ stream'.len = 0
  <2>1. "r" \in Modes
    BY DEF Modes
  <2>2. QED
    BY <1>2, <2>1, ClosedFacts
<1>4. call' \in CallTypes /\ call'.op = "none" /\ pass' \in PassTypes /\ pass'.over = TRUE
  BY <1>2, NoneFacts
<1>5. wild' \in BOOLEAN /\ failed' \in BOOLEAN /\ ~wild'
  BY <1>2
<1>6. payload' \in Seq(Data)
  BY <1>2
<1>7. TypeOK'
  BY <1>2, <1>3, <1>4, <1>5, <1>6, TypesHold
<1>8. Stands'
  <2>1. 0 < Word
    BY SizesFit
  <2>2. QED
    BY <1>3, <1>4, <2>1 DEF Stands, Running
<1>9. HeaderIntact'
  BY <1>3 DEF HeaderIntact
<1>10. /\ Passing' /\ Reading' /\ Writing' /\ ReadsFile' /\ WritesWithin(Limit)'
       /\ (stream'.open /\ ~failed' /\ BomLen < stream'.len /\ stream'.len < Limit =>
             stream'.len \in Address /\ Byte(disk', stream'.len) = Eof) => Marked'
  BY <1>4, NoPasses
<1>11. QED
  BY <1>3, <1>7, <1>8, <1>9, <1>10 DEF IInv

(***************************************************************************)
(* Reading.                                                                *)
(***************************************************************************)

\* The position before the file wraps, any other is the number it stands for.
LEMMA Unsigned ==
  ASSUME NEW p \in -1 .. Word - 1
  PROVE  p % Word = IF p = -1 THEN Word - 1 ELSE p
<1>1. Word \in Nat \ {0}
  BY StreamAssumption
<1>2. CASE p = -1
  <2> DEFINE q == -1
             r == Word - 1
  <2>1. q \in Int /\ r \in 0 .. Word - 1 /\ q * Word + r = p
    BY <1>1, <1>2
  <2> HIDE DEF q, r
  <2>2. (q * Word + r) % Word = r
    BY <1>1, <2>1, DivisionIsUnique
  <2>3. QED
    BY <1>2, <2>1, <2>2 DEF r
<1>3. CASE p # -1
  BY <1>1, <1>3, NoWrap
<1>4. QED
  BY <1>2, <1>3

\* A pass that moves a block begins in the file, and a whole block that is not the
\* first is behind the byte order mark.
LEMMA PassInFile ==
  ASSUME TypeOK, Passing, ~pass.over, pass.cur < BlockSize, NEW p \in -1 .. Word - 1,
         PassesFrom = p % Word
  PROVE  /\ PassesFrom = p /\ p \in Nat /\ Reached + Moves <= Limit
         /\ WholeBlock /\ BomLen <= p => BomLen <= Reached - 1
<1>1. /\ Reached + Moves <= Limit /\ Moves \in Nat /\ PassesFrom <= Reached /\ Reached \in Nat
      /\ Reached = pass.cur * BlockSize + Segment.from
  BY PassFacts
<1>2. Word \in Nat /\ Limit \in Nat /\ Limit < Word /\ BlockSize \in Nat \ {0}
      /\ BomLen \in Nat \ {0} /\ BomLen + 1 <= BlockSize
  BY SizesFit
<1>3. p % Word = IF p = -1 THEN Word - 1 ELSE p
  BY Unsigned
<1>4. p # -1
  <2>1. p = -1 => Word - 1 <= Reached
    BY <1>1, <1>3
  <2>2. Reached < Word - 1 \/ Moves = 0
    BY <1>1, <1>2
  <2>3. Reached < Limit
    <3>1. Segment.from \in 0 .. BlockSize - 1 /\ pass.cur \in Nat
      BY PassFacts DEF Offset, TypeOK, PassTypes
    <3>2. pass.cur * BlockSize + BlockSize <= BlockSize * BlockSize
      <4>1. \A m, n \in Nat : m < n => m * BlockSize + BlockSize <= n * BlockSize
        BY <1>2, Multiples
      <4>2. BlockSize \in Nat
        BY <1>2
      <4>3. QED
        BY <3>1, <4>1, <4>2
    <3> DEFINE m == pass.cur * BlockSize
               n == BlockSize * BlockSize
    <3>3. m \in Int /\ n \in Int /\ m + BlockSize <= n /\ Reached = m + Segment.from /\ Limit = n
      BY <1>1, <1>2, <3>1, <3>2 DEF Limit
    <3> HIDE DEF m, n
    <3>4. QED
      BY <1>2, <3>1, <3>3
  <2>4. QED
    BY <1>1, <1>2, <2>1, <2>3
<1>5. PassesFrom = p /\ p \in Nat
  BY <1>2, <1>3, <1>4
<1>6. ASSUME WholeBlock, BomLen <= p PROVE BomLen <= Reached - 1
  <2>1. Segment.from = 0
    BY <1>6 DEF WholeBlock
  <2>2. pass.cur \in Nat
    BY DEF TypeOK, PassTypes
  <2>3. Reached = pass.cur * BlockSize
    BY <1>1, <1>2, <2>1, <2>2
  <2>4. 0 < Reached
    BY <1>1, <1>2, <1>5, <1>6
  <2>5. 0 < pass.cur
    <3>1. pass.cur = 0 => Reached = 0
      BY <1>2, <2>3
    <3>2. QED
      BY <2>2, <2>4, <3>1
  <2>6. 0 * BlockSize + BlockSize <= pass.cur * BlockSize
    BY <1>2, <2>2, <2>5, Multiples
  <2>7. BlockSize <= Reached
    BY <1>2, <2>3, <2>6
  <2>8. QED
    BY <1>1, <1>2, <2>7
<1>7. QED
  BY <1>1, <1>5, <1>6

\* One pass of bytes behind those of the passes before.
LEMMA BytesAppended ==
  ASSUME call.start \in Int, pass.total \in Nat, Moves \in Nat, pass.buf \in Seq(Bytes),
         pass.buf = [i \in 1 .. pass.total |-> Byte(disk, call.start + i - 1)]
  PROVE  pass.buf \o [i \in 1 .. Moves |-> Byte(disk, call.start + pass.total + i - 1)]
           = [i \in 1 .. pass.total + Moves |-> Byte(disk, call.start + i - 1)]
<1> DEFINE d == disk
           a == call.start
           m == pass.total
           n == Moves
           s == pass.buf
           t == [i \in 1 .. n |-> Byte(d, a + m + i - 1)]
<1>1. /\ a \in Int /\ m \in Nat /\ n \in Nat
      /\ s = [i \in 1 .. m |-> Byte(d, a + i - 1)] /\ t = [i \in 1 .. n |-> Byte(d, a + m + i - 1)]
  OBVIOUS
<1> HIDE DEF d, a, m, n, s, t
<1> DEFINE S == {Byte(d, i) : i \in Int}
<1>2. s \in [1 .. m -> S] /\ t \in [1 .. n -> S]
  BY <1>1
<1>3. /\ \A i \in 1 .. m : s[i] = Byte(d, a + i - 1)
      /\ \A i \in 1 .. n : t[i] = Byte(d, a + m + i - 1)
  BY <1>1
<1> HIDE DEF S
<1>4. s \in Seq(S) /\ t \in Seq(S) /\ Len(s) = m /\ Len(t) = n
  BY <1>2, <1>1, SequenceOf
<1>5. /\ s \o t \in Seq(S) /\ Len(s \o t) = m + n
      /\ \A i \in 1 .. m : (s \o t)[i] = s[i]
      /\ \A i \in m + 1 .. m + n : (s \o t)[i] = t[i - m]
  BY <1>4, <1>1
<1>6. \A i \in 1 .. m + n : (s \o t)[i] = Byte(d, a + i - 1)
  <2> SUFFICES ASSUME NEW i \in 1 .. m + n PROVE (s \o t)[i] = Byte(d, a + i - 1)
    OBVIOUS
  <2>1. CASE i \in 1 .. m
    BY <1>3, <1>5, <1>1, <2>1
  <2>2. CASE i \in m + 1 .. m + n
    <3>1. i - m \in 1 .. n /\ a + m + (i - m) - 1 = a + i - 1
      BY <1>1, <2>2
    <3>2. QED
      BY <1>3, <1>5, <1>1, <2>2, <3>1
  <2>3. QED
    BY <1>1, <2>1, <2>2
<1>7. DOMAIN (s \o t) = 1 .. m + n
  BY <1>5, <1>1
<1>8. s \o t = [i \in 1 .. m + n |-> (s \o t)[i]]
  <2> DEFINE u == s \o t
  <2>1. u \in Seq(S) /\ DOMAIN u = 1 .. m + n
    BY <1>5, <1>7
  <2> HIDE DEF u
  <2>2. u = [i \in 1 .. m + n |-> u[i]]
    BY <2>1
  <2>3. QED
    BY <2>2 DEF u
<1>9. QED
  BY <1>6, <1>8 DEF d, a, m, n, s, t

\* What a call returns.
LEMMA ResultFacts ==
  ASSUME TypeOK, NEW c, c = Result
  PROVE  /\ c \in CallTypes /\ c.op = call.op /\ c.busy = FALSE /\ c.start = call.start
         /\ c.bytes = call.bytes /\ c.len = call.len /\ c.total = pass.total
         /\ c.failed <=> call.failed \/ pass.failed
<1>1. call \in CallTypes /\ pass.total \in Int /\ call.size \in Nat \ {0}
  BY DEF TypeOK, PassTypes, CallTypes
<1>2. call.failed \in BOOLEAN /\ pass.failed \in BOOLEAN
  BY DEF TypeOK, PassTypes, CallTypes
<1> DEFINE n == ResultOf(pass.total)
           f == call.failed \/ pass.failed
<1>3. n \in Int
  <2>1. pass.total % Word \in Int
    BY <1>1, StreamAssumption, Division
  <2>2. QED
    BY <1>1, <2>1, Division DEF ResultOf
<1>4. f \in BOOLEAN
  BY <1>2
<1>5. c = [op |-> call.op, busy |-> FALSE, start |-> call.start, size |-> call.size,
           bytes |-> call.bytes, len |-> call.len, total |-> pass.total, ret |-> n,
           failed |-> f]
  BY <1>1 DEF Result, CallTypes
<1> HIDE DEF n
<1> HIDE DEF f
<1>6. c \in CallTypes
  BY <1>1, <1>3, <1>4, <1>5 DEF CallTypes
<1>7. c.failed = f
  BY <1>5
<1>8. /\ c.op = call.op /\ c.busy = FALSE /\ c.start = call.start
      /\ c.bytes = call.bytes /\ c.len = call.len /\ c.total = pass.total
  BY <1>5
<1>9. c.failed <=> call.failed \/ pass.failed
  BY <1>7 DEF f
<1>10. QED
  BY <1>6, <1>8, <1>9

\* A call of fread begins with a range that is in the file.
LEMMA FreadKeeps ==
  ASSUME IInv, NEW size \in Sizes, NEW nmemb \in Counts, Fread(size, nmemb)
  PROVE  IInv'
<1>1. TypeOK /\ Passing /\ Stands /\ Marked /\ HeaderIntact
  BY DEF IInv
<1>2. /\ stream.open /\ ~call.busy /\ calls' = calls + 1 /\ before' = disk /\ stream' = stream
      /\ disk' = disk /\ wild' = wild /\ payload' = payload /\ failed' = failed
  BY DEF Fread, Begins, BeginFread
<1>3. /\ stream \in StreamTypes /\ disk \in Cards /\ wild \in BOOLEAN /\ failed \in BOOLEAN
      /\ calls \in Nat /\ payload \in Seq(Data) /\ (wild => failed)
      /\ stream.pos \in Int /\ stream.len \in Int
  BY <1>1 DEF TypeOK, StreamTypes
<1>4. size \in Nat \ {0} /\ nmemb \in Nat /\ size * nmemb \in Nat
  <2>1. size \in Nat \ {0} /\ nmemb \in Nat
    BY NofsAssumption
  <2>2. QED
    BY <2>1
<1>5. \A o : ~Running(o)
  BY <1>2 DEF Running
<1>6. /\ stream.pos \in -1 .. stream.len /\ stream.len < Word
      /\ ~wild => BomLen <= stream.pos /\ stream.len <= Limit
  BY <1>1, <1>2, <1>5 DEF Stands
<1> DEFINE p == stream.pos
           some == Smaller(size * nmemb, Left)
           n == Whole(size, some)
<1>7. n \in Nat /\ p + n <= stream.len
  <2>1. stream.len - p \in Nat
    BY <1>3, <1>6
  <2>2. Left \in Nat /\ Left <= stream.len - p
    <3>1. (stream.len - p) % Word \in 0 .. Word - 1
      BY <2>1, Wraps
    <3>2. (stream.len - p) % Word <= stream.len - p
      BY <2>1, NoWrap
    <3>3. QED
      BY <3>1, <3>2, SizesFit DEF Left
  <2>3. some \in Nat /\ some <= Left
    BY <1>4, <2>2 DEF Smaller
  <2> HIDE DEF some
  <2>4. n \in 0 .. some
    BY <1>4, <2>3, WholeMembers
  <2>5. QED
    BY <1>3, <2>1, <2>2, <2>3, <2>4
<1>8. call' = NewCall("fread", p, size, n) /\ BeginPasses(p, n, <<>>)
  BY DEF Fread, BeginFread
<1> HIDE DEF n
<1>9. /\ call' \in CallTypes /\ call'.op = "fread" /\ call'.busy = TRUE /\ call'.start = p
      /\ call'.bytes = n /\ call'.failed = FALSE
  <2>1. p \in Int /\ size \in Nat \ {0} /\ stream \in StreamTypes
    BY <1>3, <1>4
  <2> HIDE DEF p
  <2>2. call' = NewCall("fread", p, size, n)
    BY <1>8
  <2>3. QED
    BY <1>7, <2>1, <2>2, NewCallFacts
<1>10. /\ pass' \in PassTypes
       /\ PassesFrom' = p % Word /\ PassesUpto' = (p + n) % Word
       /\ PassesUpto' = (PassesFrom' + n) % Word
       /\ pass'.buf = <<>> /\ pass'.total = 0 /\ pass'.failed = FALSE
       /\ pass'.over => PassesUpto' < PassesFrom'
       /\ ~pass'.over => pass'.cur \in pass'.first .. pass'.last
       /\ Reached' = PassesFrom'
  <2>1. <<>> \in Seq(Bytes)
    OBVIOUS
  <2>2. QED
    BY <1>3, <1>7, <1>8, <2>1, PassesBegin
<1>11. TypeOK'
  <2>1. calls' \in Nat
    BY <1>2, <1>3
  <2>2. wild' \in BOOLEAN /\ failed' \in BOOLEAN /\ (wild' => failed')
    BY <1>2, <1>3
  <2>3. QED
    BY <1>2, <1>3, <1>9, <1>10, <2>1, <2>2, TypesHold
<1>12. Running("fread")' /\ ~Running("search")' /\ ~Running("fwrite")' /\ ~Running("mark")'
  BY <1>9 DEF Running
<1>13. Stands'
  BY <1>2, <1>6, <1>12 DEF Stands
<1>14. Passing'
  <2>1. Asked' = n
    BY <1>9, <1>12 DEF Asked
  <2>2. PassesFrom' \in Int
    BY <1>3, <1>10, Wraps
  <2>3. pass'.total = Reached' - PassesFrom'
    BY <1>10, <2>2
  <2>4. call'.start \in -1 .. Word - 1
    BY <1>3, <1>6, <1>9, SizesFit
  <2>5. stream'.pos = call'.start + pass'.total
    BY <1>2, <1>3, <1>9, <1>10
  <2>6. wild' \/ call'.start >= BomLen
    BY <1>2, <1>3, <1>6, <1>9, SizesFit
  <2>7. PassesFrom' = call'.start % Word
    BY <1>9, <1>10
  <2>8. QED
    BY <1>2, <1>10, <1>12, <2>1, <2>3, <2>4, <2>5, <2>6, <2>7 DEF Passing
<1>15. ~wild => ~pass'.over
  <2>1. ~wild => p \in Nat /\ p + n \in Nat /\ p + n < Word /\ p < Word
    BY <1>3, <1>6, <1>7, SizesFit
  <2>2. ~wild => PassesFrom' = p /\ PassesUpto' = p + n
    BY <1>10, <2>1, NoWrap
  <2>3. QED
    BY <1>3, <1>7, <1>10, <2>2
<1>16. Reading'
  <2>1. call'.start + call'.bytes <= stream'.len /\ ~call'.failed
    BY <1>2, <1>7, <1>9
  <2>2. pass'.buf = [i \in 1 .. pass'.total |-> Byte(disk', call'.start + i - 1)]
    <3>1. 1 .. pass'.total = {}
      BY <1>10
    <3>2. QED
      BY <1>10, <3>1
  <2>3. QED
    BY <1>2, <1>12, <1>15, <2>1, <2>2 DEF Reading
<1>17. Writing' /\ WritesWithin(Limit)'
  BY <1>9, <1>12 DEF Writing, WritesWithin
<1>18. Marked'
  BY <1>1, <1>2, <1>5, <1>9, <1>12 DEF Marked
<1>19. HeaderIntact'
  BY <1>1, <1>2 DEF HeaderIntact, HasBom
<1>20. ReadsFile'
  <2>1. stream'.pos = call'.start + pass'.total
    BY <1>2, <1>3, <1>9, <1>10
  <2>2. QED
    BY <1>9, <2>1 DEF ReadsFile
<1>21. QED
  BY <1>11, <1>13, <1>14, <1>16, <1>17, <1>18, <1>19, <1>20 DEF IInv

\* A pass of fs_fread moves the position by what it counts, within the range.
LEMMA FreadMoves ==
  ASSUME IInv, Running("fread"), ~pass.over, NEW t \in Int,
         stream' \in StreamTypes, stream'.open = stream.open, stream'.len = stream.len,
         stream'.pos = stream.pos + t, UNCHANGED <<call, disk, wild, calls, before, payload>>,
         failed' \in BOOLEAN, failed => failed',
         pass' \in PassTypes, PassesFrom' = PassesFrom, PassesUpto' = PassesUpto,
         pass'.total = pass.total + t,
         call.start + pass.total + t \in -1 .. call.start + call.bytes,
         ~wild => BomLen <= call.start + pass.total + t,
         ~pass'.over => /\ ~pass'.failed /\ pass'.cur \in pass'.first .. pass'.last
                        /\ pass'.total = Reached' - PassesFrom',
         ~pass'.failed /\ ~wild =>
           /\ pass'.buf = [i \in 1 .. pass.total + t |-> Byte(disk, call.start + i - 1)]
           /\ pass'.over => pass.total + t = call.bytes
  PROVE  IInv'
<1>1. TypeOK /\ Passing /\ Stands /\ Reading /\ Marked /\ HeaderIntact
  BY DEF IInv
<1>2. /\ call.op = "fread" /\ call.busy /\ call' = call /\ disk' = disk /\ wild' = wild
      /\ calls' = calls /\ before' = before /\ payload' = payload
  BY DEF Running
<1>3. /\ call \in CallTypes /\ disk \in Cards /\ before \in Cards /\ wild \in BOOLEAN
      /\ failed \in BOOLEAN /\ calls \in Nat /\ payload \in Seq(Data) /\ (wild => failed)
  BY <1>1 DEF TypeOK
<1>4. /\ stream.pos \in Int /\ stream.len \in Int /\ call.start \in Int /\ call.bytes \in Nat
      /\ pass.total \in Int
  BY <1>1 DEF TypeOK, StreamTypes, CallTypes, PassTypes
<1>5. \A o : Running(o) <=> o = "fread"
  BY <1>2 DEF Running
<1>6. \A o : Running(o)' <=> o = "fread"
  BY <1>2 DEF Running
<1>7. stream'.pos = call.start + pass.total + t
  BY <1>1, <1>2, <1>4 DEF Passing
<1>8. TypeOK'
  <2>1. wild' \in BOOLEAN /\ (wild' => failed')
    BY <1>2, <1>3
  <2>2. QED
    BY <1>2, <1>3, <2>1, TypesHold
<1>9. Stands'
  <2>1. stream.len < Word /\ (stream.open /\ ~wild => stream.len <= Limit)
    BY <1>1, <1>5 DEF Stands
  <2>2. call.start + call.bytes <= stream.len
    BY <1>1, <1>5 DEF Reading
  <2>3. stream'.pos \in -1 .. stream'.len
    BY <1>4, <1>7, <2>2
  <2>4. stream'.len < Word /\ (stream'.open /\ ~wild' => stream'.len <= Limit)
    BY <1>2, <2>1
  <2>5. ~wild' => BomLen <= stream'.pos
    BY <1>2, <1>7
  <2>6. QED
    BY <1>6, <2>3, <2>4, <2>5 DEF Stands
<1>10. Passing'
  <2>1. Asked' = call.bytes /\ Asked = call.bytes
    BY <1>2, <1>5, <1>6 DEF Asked
  <2>2. ~pass'.over => PassesUpto' = (PassesFrom' + Asked') % Word
    BY <2>1, <1>1, <1>5 DEF Passing
  <2>3. stream'.pos = call'.start + pass'.total
    BY <1>2, <1>4, <1>7
  <2>4. /\ call'.start \in -1 .. Word - 1 /\ PassesFrom' = call'.start % Word
        /\ stream'.open /\ (wild' \/ call'.start >= BomLen)
    BY <1>1, <1>2 DEF Passing
  <2>5. QED
    BY <1>6, <2>2, <2>3, <2>4 DEF Passing
<1>11. Reading'
  <2>1. call'.start + call'.bytes <= stream'.len /\ ~call'.failed
    BY <1>1, <1>2, <1>5 DEF Reading
  <2>2. ~pass'.failed /\ ~wild' =>
          /\ pass'.buf = [i \in 1 .. pass'.total |-> Byte(disk', call'.start + i - 1)]
          /\ pass'.over => pass'.total = call'.bytes
    BY <1>2
  <2>3. QED
    BY <2>1, <2>2 DEF Reading
<1>12. Writing' /\ WritesWithin(Limit)'
  BY <1>2, <1>6 DEF Writing, WritesWithin
<1>13. Marked'
  BY <1>1, <1>2, <1>5, <1>6 DEF Marked
<1>14. HeaderIntact'
  BY <1>1, <1>2 DEF HeaderIntact, HasBom
<1>15. ReadsFile'
  <2>1. stream'.pos = call'.start + pass'.total
    BY <1>2, <1>4, <1>7
  <2>2. QED
    BY <1>2, <2>1 DEF ReadsFile
<1>16. QED
  BY <1>8, <1>9, <1>10, <1>11, <1>12, <1>13, <1>14, <1>15 DEF IInv

\* Blocks a file may not have begin behind its end.
LEMMA NoBlockBehind ==
  ASSUME NEW c \in Nat, NEW n \in 0 .. Limit, c >= BlockSize \/ c > n \div BlockSize
  PROVE  n <= c * BlockSize
<1> DEFINE B == BlockSize
           q == n \div B
           r == n % B
<1>1. B \in Nat \ {0} /\ Limit \in Nat /\ Limit = B * B
  BY SizesFit DEF Limit
<1>2. n \in Int
  BY <1>1
<1>3. q \in Int /\ r \in 0 .. B - 1 /\ n = q * B + r
  BY <1>1, <1>2, Division
<1>4. \A k, m \in Int : k < m => k * B + B <= m * B
  BY <1>1, Multiples
<1>5. c >= B \/ c > q
  OBVIOUS
<1> HIDE DEF q, r
<1>6. c \in Int /\ B \in Int /\ c * B \in Int /\ q * B \in Int
  BY <1>1, <1>3
<1>7. (B < c => B * B + B <= c * B) /\ (q < c => q * B + B <= c * B)
  BY <1>3, <1>4, <1>6
<1>8. B = c => B * B = c * B
  OBVIOUS
<1> DEFINE x == c * B
           y == q * B
           z == B * B
<1>9. /\ x \in Int /\ y \in Int /\ z \in Int /\ n <= z /\ n = y + r
      /\ (B < c => z + B <= x) /\ (q < c => y + B <= x) /\ (B = c => z = x)
  BY <1>1, <1>3, <1>6, <1>7, <1>8
<1> HIDE DEF x, y, z
<1>10. n <= x
  BY <1>1, <1>2, <1>3, <1>5, <1>6, <1>9
<1>11. QED
  BY <1>10 DEF x

\* fs_fread moves on by one block, or ends.
LEMMA FreadStepKeeps ==
  ASSUME IInv, FreadStep
  PROVE  IInv'
<1> DEFINE b == nofs_get_next_bdev_block_num(pass.cur, FALSE)
           from == call.start
           n == call.bytes
           t == pass.total
<1>1. TypeOK /\ Passing /\ Stands /\ Reading
  BY DEF IInv
<1>2. /\ Running("fread") /\ ~pass.over /\ call.op = "fread" /\ call.busy
      /\ UNCHANGED <<call, disk, wild, calls, before, payload>>
  BY DEF FreadStep, Running
<1>3. /\ stream \in StreamTypes /\ pass \in PassTypes /\ wild \in BOOLEAN /\ failed \in BOOLEAN
       /\ pass.buf \in Seq(Bytes)
  BY <1>1 DEF TypeOK, PassTypes
<1>4. /\ pass.cur \in Nat /\ pass.last \in Nat /\ pass.first \in Nat /\ stream.pos \in Int
      /\ stream.len \in Int /\ from \in Int /\ n \in Nat /\ t \in Int
  BY <1>1 DEF TypeOK, PassTypes, StreamTypes, CallTypes
<1>5. /\ ~pass.failed /\ pass.cur \in pass.first .. pass.last /\ t = Reached - PassesFrom
      /\ from \in -1 .. Word - 1 /\ stream.pos = from + t
      /\ stream.open /\ (~wild => BomLen <= from)
  BY <1>1, <1>2, <1>4, SizesFit DEF Passing
<1>6. PassesFrom = from % Word /\ PassesUpto = (PassesFrom + n) % Word
  BY <1>1, <1>2 DEF Passing, Asked
<1>7. from + n <= stream.len
  BY <1>1, <1>2 DEF Reading
<1>8. stream.len < Word /\ (~wild => stream.len <= Limit)
  BY <1>1, <1>2, <1>5 DEF Stands, Running
<1>9. /\ Moves \in 0 .. BlockSize /\ PassesFrom \in Nat /\ PassesFrom <= Reached /\ Reached \in Nat
      /\ Reached + Moves <= PassesFrom + n
      /\ Transferred(-1) = IF WholeBlock THEN -1 ELSE Moves
      /\ pass.cur < pass.last => Reached + Moves = (pass.cur + 1) * BlockSize
      /\ PassesFrom <= PassesUpto /\ pass.cur = pass.last => Reached + Moves = PassesUpto
  BY <1>1, <1>2, PassFacts DEF Asked
<1>10. BlockSize \in Nat \ {0} /\ BomLen \in Nat \ {0} /\ Word \in Nat /\ Limit \in Nat
  BY SizesFit
<1>11. ~wild => PassesFrom = from /\ PassesUpto = from + n
  <2>1. ~wild => from \in Nat /\ from < Word /\ from + n \in Nat /\ from + n < Word
    BY <1>4, <1>5, <1>7, <1>8, <1>10
  <2>2. ~wild => PassesFrom = from
    BY <1>6, <2>1, NoWrap
  <2>3. QED
    BY <1>6, <2>1, <2>2, NoWrap
<1>12. ~wild => pass.buf = [i \in 1 .. t |-> Byte(disk, from + i - 1)]
  BY <1>1, <1>2, <1>5 DEF Reading
<1>13. CASE b = NoBlock
  <2>1. pass' = [pass EXCEPT !.over = TRUE] /\ stream' = stream /\ failed' = failed
    <3>1. \/ NoMoreBlocks /\ UNCHANGED <<stream, failed>>
          \/ b # NoBlock
      BY DEF FreadStep
    <3>2. QED
      BY <1>13, <3>1 DEF NoMoreBlocks
  <2>2. /\ pass' \in PassTypes /\ pass'.over = TRUE /\ pass'.failed = pass.failed
        /\ pass'.total = t /\ pass'.buf = pass.buf /\ pass'.cur = pass.cur
        /\ pass'.first = pass.first /\ pass'.last = pass.last /\ pass'.from = pass.from
        /\ pass'.upto = pass.upto
    BY <1>3, <2>1 DEF PassTypes
  <2>3. PassesFrom' = PassesFrom /\ PassesUpto' = PassesUpto
    BY <2>2 DEF PassesFrom, PassesUpto
  <2>4. ~wild => t = n
    <3>1. ~wild => stream.len \in 0 .. Limit
      BY <1>4, <1>5, <1>7, <1>8, <1>10
    <3>2. pass.cur >= BlockSize \/ pass.cur > stream.len \div BlockSize
      <4>1. pass.cur # NoBlock
        BY <1>4, NofsAssumption
      <4>2. QED
        BY <1>13, <4>1 DEF nofs_get_next_bdev_block_num
    <3>3. ~wild => stream.len <= pass.cur * BlockSize
      BY <1>4, <3>1, <3>2, NoBlockBehind
    <3>4. pass.cur * BlockSize <= Reached
      <4>1. Reached = pass.cur * BlockSize + Segment.from /\ Segment.from \in Offset
        BY <1>1, <1>2, PassFacts
      <4> DEFINE m == pass.cur * BlockSize
      <4>2. m \in Int
        BY <1>4, <1>10
      <4> HIDE DEF m
      <4>3. Reached = m + Segment.from /\ Segment.from \in 0 .. BlockSize - 1
        BY <4>1 DEF m, Offset
      <4>4. m <= Reached
        BY <1>10, <4>2, <4>3
      <4>5. QED
        BY <4>4 DEF m
    <3> DEFINE m == pass.cur * BlockSize
    <3>5. m \in Int /\ (~wild => stream.len <= m) /\ m <= Reached
      BY <1>4, <1>10, <3>3, <3>4
    <3> HIDE DEF m
    <3>6. QED
      BY <1>4, <1>5, <1>7, <1>9, <1>11, <3>5
  <2>5. /\ stream' \in StreamTypes /\ stream'.open = stream.open /\ stream'.len = stream.len
        /\ stream'.pos = stream.pos + 0
    BY <1>4, <1>3, <2>1
  <2>6. failed' \in BOOLEAN /\ (failed => failed')
    BY <1>3, <2>1
  <2>7. t + 0 = t /\ from + t + 0 \in -1 .. from + n /\ (~wild => BomLen <= from + t + 0)
    BY <1>4, <1>5, <1>9, <1>10
  <2>8. pass'.buf = pass.buf /\ pass'.total = t + 0
    BY <1>4, <2>2
  <2>9. ~wild => /\ pass'.buf = [i \in 1 .. t + 0 |-> Byte(disk, from + i - 1)]
                 /\ t + 0 = n
    BY <1>12, <2>2, <2>4, <2>7
  <2>10. QED
    BY <1>2, <2>2, <2>3, <2>5, <2>6, <2>7, <2>8, <2>9, FreadMoves
<1>14. CASE b # NoBlock
  <2>1. pass.cur < BlockSize /\ b = pass.cur
    BY <1>4, <1>10, <1>14 DEF nofs_get_next_bdev_block_num
  <2>2. PICK r \in Reads(pass.cur) : FreadPass(r) /\ failed' = (failed \/ r.ret = -1)
    BY <1>14, <2>1 DEF FreadStep
  <2>3. /\ r.ret \in {-1, BlockSize} /\ Received(r) \in Seq(Bytes)
        /\ r.ret = BlockSize => Received(r) =
             pass.buf \o [i \in 1 .. Moves |-> Byte(disk, Reached + i - 1)]
    BY <1>1, <1>2, PassReads
  <2> DEFINE k == Transferred(r.ret)
             w == r.ret = -1
  <2>4. k = IF r.ret = -1 /\ WholeBlock THEN -1 ELSE Moves
    BY <1>9, <1>10, <2>3 DEF Moves
  <2>5. k \in Int
    BY <1>9, <2>4
  <2>6. CountPass(k, r.ret, Received(r)) /\ stream' = [stream EXCEPT !.pos = @ + k]
    BY <2>2 DEF FreadPass
  <2>7. w \in BOOLEAN /\ failed' = (failed \/ w)
    BY <2>2
  <2> HIDE DEF k, w
  <2>8. failed' \in BOOLEAN /\ (failed => failed')
    BY <1>3, <2>7
  <2>9. /\ pass' \in PassTypes
        /\ PassesFrom' = PassesFrom /\ PassesUpto' = PassesUpto
        /\ pass'.total = t + k /\ pass'.buf = Received(r)
        /\ pass'.failed <=> r.ret = -1
        /\ pass'.over <=> r.ret = -1 \/ pass.cur = pass.last
        /\ ~pass'.over => /\ pass.cur < pass.last
                          /\ pass'.cur \in pass'.first .. pass'.last
                          /\ Reached' = (pass.cur + 1) * BlockSize
    BY <1>1, <1>2, <2>3, <2>5, <2>6, PassCounted
  <2>10. /\ stream' \in StreamTypes /\ stream'.open = stream.open /\ stream'.len = stream.len
         /\ stream'.pos = stream.pos + k
    <3>1. stream.pos + k \in Int
      BY <1>4, <2>5
    <3>2. QED
      BY <1>3, <2>6, <3>1 DEF StreamTypes
  <2>11. /\ PassesFrom = from /\ from \in Nat
         /\ WholeBlock /\ BomLen <= from => BomLen <= Reached - 1
    BY <1>1, <1>2, <1>5, <1>6, <2>1, PassInFile
  <2>12. from + t + k \in -1 .. from + n
    BY <1>4, <1>5, <1>9, <2>4, <2>11
  <2>13. ~wild => BomLen <= from + t + k
    BY <1>4, <1>5, <1>9, <1>10, <2>4, <2>11
  <2>14. ~pass'.over => /\ ~pass'.failed /\ pass'.cur \in pass'.first .. pass'.last
                        /\ pass'.total = Reached' - PassesFrom'
    <3>1. ~pass'.over => r.ret # -1
      BY <2>9
    <3>2. ~pass'.over => ~pass'.failed /\ k = Moves
      BY <2>4, <2>9, <3>1
    <3>3. ~pass'.over => Reached' = Reached + Moves
      BY <1>9, <2>9
    <3>4. QED
      BY <1>4, <1>5, <1>9, <2>9, <3>2, <3>3
  <2>15. ASSUME ~pass'.failed, ~wild
         PROVE  /\ pass'.buf = [i \in 1 .. t + k |-> Byte(disk, from + i - 1)]
                /\ pass'.over => t + k = n
    <3>1. r.ret = BlockSize /\ k = Moves
      BY <2>3, <2>4, <2>9, <2>15
    <3>2. pass'.over => t + k = n
      <4>1. pass'.over => pass.cur = pass.last
        BY <1>10, <2>9, <3>1
      <4>2. PassesFrom <= PassesUpto
        BY <1>4, <1>11, <2>15
      <4>3. pass.cur = pass.last => Reached + Moves = PassesUpto
        BY <1>9, <4>2
      <4>4. QED
        BY <1>4, <1>5, <1>9, <1>11, <2>15, <3>1, <4>1, <4>3
    <3> DEFINE s == pass.buf
               u == [i \in 1 .. Moves |-> Byte(disk, from + t + i - 1)]
    <3>3. Reached = from + t
      BY <1>4, <1>5, <1>9, <2>11
    <3>4. s = [i \in 1 .. t |-> Byte(disk, from + i - 1)] /\ s \in Seq(Bytes)
      BY <1>12, <1>3, <2>15
    <3>5. pass'.buf = s \o u
      BY <2>3, <2>9, <3>1, <3>3
    <3>6. t \in Nat /\ Moves \in Nat
      BY <1>4, <1>5, <1>9
    <3>7. s \o u = [i \in 1 .. t + Moves |-> Byte(disk, from + i - 1)]
      BY <1>4, <3>4, <3>6, BytesAppended
    <3>8. QED
      BY <3>1, <3>2, <3>5, <3>7
  <2>16. pass'.total = pass.total + k
    BY <2>9
  <2>17. QED
    BY <1>2, <2>5, <2>8, <2>9, <2>10, <2>12, <2>13, <2>14, <2>15, <2>16, FreadMoves
<1>15. QED
  BY <1>13, <1>14

(***************************************************************************)
(* Writing.                                                                *)
(***************************************************************************)

\* The bytes up to those that a pass writes are on the card, when its block is.
LEMMA InTheCard ==
  ASSUME TypeOK, Passing, ~pass.over, pass.cur < DiskBlocks
  PROVE  \A p \in 0 .. Reached + Moves - 1 : p \in Address
<1> DEFINE B == BlockSize
           c == pass.cur
           k == Segment.from
           u == Segment.upto
<1>1. B \in Nat \ {0} /\ DiskBlocks \in Nat
  BY SizesFit
<1>2. c \in Nat /\ c < DiskBlocks
  BY DEF TypeOK, PassTypes
<1>3. Reached \in Nat /\ Moves \in Nat /\ Moves = IF u < k THEN 0 ELSE u - k
  BY PassFacts
<1>4. k \in 0 .. B - 1 /\ u \in 0 .. B
  BY PassFacts DEF Offset
<1>5. Reached = c * B + k
  BY PassFacts
<1>6. c * B + B <= DiskBlocks * B /\ c * B \in Int /\ DiskBlocks * B \in Nat
  BY <1>1, <1>2, Multiples
<1> HIDE DEF c, k, u, B
<1> DEFINE m == c * B
           n == DiskBlocks * B
<1>7. m \in Int /\ n \in Nat /\ m + B <= n /\ Reached = m + k /\ B \in Nat
  BY <1>1, <1>5, <1>6
<1> HIDE DEF m, n
<1>8. Reached + Moves <= n
  BY <1>3, <1>4, <1>7
<1>9. \A p \in 0 .. Reached + Moves - 1 : p \in 0 .. n - 1
  BY <1>3, <1>7, <1>8
<1>10. Address = 0 .. n - 1
  BY DEF Address, n, B
<1>11. QED
  BY <1>9, <1>10

\* The card after a pass whose block was written, or was not.
LEMMA CardAfterPass ==
  ASSUME TypeOK, Passing, ~pass.over, ~Running("fread"),
         \/ disk' = disk
         \/ pass.cur < DiskBlocks /\ disk' = [disk EXCEPT ![pass.cur] = NewBlock]
  PROVE  /\ disk' \in Cards
         /\ \A p \in Address :
              \/ Byte(disk', p) = Byte(disk, p)
              \/ /\ p \in Reached .. Reached + Moves - 1
                 /\ Byte(disk', p) = pass.buf[p - PassesFrom + 1]
         /\ \A p \in 0 .. Reached - 1 : Byte(disk', p) = Byte(disk, p)
<1>1. CASE disk' = disk
  <2>1. disk' \in Cards
    BY <1>1 DEF TypeOK
  <2>2. \A p : Byte(disk', p) = Byte(disk, p)
    BY <1>1
  <2>3. QED
    BY <2>1, <2>2
<1>2. CASE pass.cur < DiskBlocks /\ disk' = [disk EXCEPT ![pass.cur] = NewBlock]
  <2>1. /\ disk' \in Cards
        /\ \A p \in Address : Byte(disk', p) =
             IF p \in Reached .. Reached + Moves - 1 THEN pass.buf[p - PassesFrom + 1]
                                                     ELSE Byte(disk, p)
    BY <1>2, PassWrites
  <2>2. Reached \in Nat /\ Moves \in Nat
    BY PassFacts
  <2>3. \A p \in 0 .. Reached - 1 :
          p \in 0 .. Reached + Moves - 1 /\ p \notin Reached .. Reached + Moves - 1
    BY <2>2
  <2>4. \A p \in 0 .. Reached - 1 : p \in Address /\ p \notin Reached .. Reached + Moves - 1
    BY <1>2, <2>3, InTheCard
  <2>5. QED
    BY <2>1, <2>4
<1>3. QED
  BY <1>1, <1>2

\* What a pass has counted.
Counted == pass'.total - pass.total

\* One pass of fs_fwrite: without a block, a failed read, or a write.
LEMMA WriteFacts ==
  ASSUME TypeOK, Passing, FwriteStep
  PROVE  /\ ~pass.over /\ UNCHANGED <<call, wild, calls, before, payload>>
         /\ stream' \in StreamTypes /\ stream'.open = stream.open /\ stream'.mode = stream.mode
         /\ stream'.pos = stream.pos + Counted
         /\ \/ stream'.len = stream.len /\ Counted = 0
            \/ stream'.len = IF stream'.pos > stream.len THEN stream'.pos ELSE stream.len
         /\ pass' \in PassTypes /\ pass'.buf = pass.buf
         /\ PassesFrom' = PassesFrom /\ PassesUpto' = PassesUpto
         /\ ~pass'.over => /\ ~pass'.failed /\ pass'.cur \in pass'.first .. pass'.last
                           /\ pass'.total = Reached' - PassesFrom'
         /\ failed' \in BOOLEAN /\ (failed => failed')
         /\ Counted \in {-1, 0, Moves}
         /\ pass.cur >= BlockSize => Counted = 0 /\ disk' = disk
         /\ Counted = -1 => WholeBlock /\ failed'
         /\ ~failed' /\ pass'.over /\ pass.cur < BlockSize => pass.cur = pass.last
         /\ ~failed' /\ pass.cur < BlockSize => Counted = Moves
         /\ disk' \in Cards
         /\ \A p \in Address :
              \/ Byte(disk', p) = Byte(disk, p)
              \/ /\ p \in Reached .. Reached + Moves - 1
                 /\ Byte(disk', p) = pass.buf[p - PassesFrom + 1]
         /\ \A p \in 0 .. Reached - 1 : Byte(disk', p) = Byte(disk, p)
         /\ ~failed' => \A p \in Reached .. Reached + Counted - 1 :
                          p \in Address /\ Byte(disk', p) = pass.buf[p - PassesFrom + 1]
<1> DEFINE b == nofs_get_next_bdev_block_num(pass.cur, TRUE)
<1>1. /\ ~pass.over /\ UNCHANGED <<call, wild, calls, before, payload>>
      /\ Running("fwrite") \/ Running("mark")
  BY DEF FwriteStep
<1>2. ~Running("fread")
  BY <1>1 DEF Running
<1>3. /\ pass.cur \in Nat /\ pass.total \in Int /\ stream.pos \in Int /\ stream.len \in Nat
      /\ pass.last \in Nat
  BY DEF TypeOK, PassTypes, StreamTypes
<1>4. pass \in PassTypes /\ stream \in StreamTypes /\ disk \in Cards /\ pass.buf \in Seq(Bytes)
  BY DEF TypeOK, PassTypes
<1>5. failed \in BOOLEAN
  BY DEF TypeOK
<1>6. BlockSize \in Nat \ {0} /\ BlockSize # -1
  BY SizesFit
<1>7. ~pass.failed /\ pass.cur \in pass.first .. pass.last /\ pass.total = Reached - PassesFrom
  BY <1>1, <1>3 DEF Passing
<1>8. /\ Moves \in 0 .. BlockSize /\ Transferred(-1) = IF WholeBlock THEN -1 ELSE Moves
      /\ Reached \in Nat /\ PassesFrom \in Nat
      /\ pass.cur < pass.last => Reached + Moves = (pass.cur + 1) * BlockSize
  BY <1>1, PassFacts
<1>9. ASSUME pass' \in PassTypes, pass'.total = pass.total, pass'.over = TRUE,
             pass'.cur = pass.cur, pass'.first = pass.first, pass'.from = pass.from,
             pass'.last = pass.last, pass'.upto = pass.upto
      PROVE  /\ PassesFrom' = PassesFrom /\ PassesUpto' = PassesUpto /\ Counted = 0
             /\ \A p \in Reached .. Reached + Counted - 1 : FALSE
  <2>1. Counted = 0
    BY <1>3, <1>9 DEF Counted
  <2>2. PassesFrom' = PassesFrom /\ PassesUpto' = PassesUpto
    BY <1>9 DEF PassesFrom, PassesUpto
  <2>3. \A p \in Reached .. Reached + 0 - 1 : FALSE
    BY <1>8
  <2>4. QED
    BY <2>1, <2>2, <2>3
<1>10. CASE b = NoBlock
  <2>1. pass.cur >= BlockSize
    <3>1. pass.cur # NoBlock
      BY <1>3, NofsAssumption
    <3>2. QED
      BY <1>10, <3>1 DEF nofs_get_next_bdev_block_num
  <2>2. /\ pass' = [pass EXCEPT !.over = TRUE]
        /\ stream' = stream /\ disk' = disk /\ failed' = failed
    BY <1>10 DEF FwriteStep, NoMoreBlocks
  <2>3. /\ pass' \in PassTypes /\ pass'.total = pass.total /\ pass'.over = TRUE
        /\ pass'.cur = pass.cur /\ pass'.first = pass.first /\ pass'.from = pass.from
        /\ pass'.last = pass.last /\ pass'.upto = pass.upto /\ pass'.buf = pass.buf
    BY <1>4, <2>2 DEF PassTypes
  <2>4. /\ PassesFrom' = PassesFrom /\ PassesUpto' = PassesUpto /\ Counted = 0
        /\ \A p \in Reached .. Reached + Counted - 1 : FALSE
    BY <1>9, <2>3
  <2>5. failed' \in BOOLEAN /\ (failed => failed')
    BY <1>5, <2>2
  <2>6. /\ stream' \in StreamTypes /\ stream'.open = stream.open /\ stream'.mode = stream.mode
        /\ stream'.len = stream.len
    BY <1>4, <2>2
  <2>7. stream'.pos = stream.pos + Counted
    BY <1>3, <2>2, <2>4
  <2>8. /\ disk' \in Cards
        /\ \A p : Byte(disk', p) = Byte(disk, p)
    BY <1>4, <2>2
  <2>9. ~(pass.cur < BlockSize) /\ Counted # -1
    BY <1>3, <1>6, <2>1, <2>4
  <2>10. QED
    BY <1>1, <2>2, <2>3, <2>4, <2>5, <2>6, <2>7, <2>8, <2>9
<1>11. CASE b # NoBlock
  <2>1. b = pass.cur /\ pass.cur < BlockSize /\ WriteTo(pass.cur)
    <3>1. b = pass.cur /\ pass.cur < BlockSize
      BY <1>3, <1>6, <1>11 DEF nofs_get_next_bdev_block_num
    <3>2. QED
      BY <1>11, <3>1 DEF FwriteStep
  <2>2. ~(pass.cur >= BlockSize)
    BY <1>3, <1>6, <2>1
  <2>3. CASE /\ ~WholeBlock
             /\ pass' = [pass EXCEPT !.over = TRUE, !.failed = TRUE]
             /\ failed' = TRUE
             /\ UNCHANGED <<stream, disk>>
    <3>1. /\ pass' \in PassTypes /\ pass'.total = pass.total /\ pass'.over = TRUE
          /\ pass'.cur = pass.cur /\ pass'.first = pass.first /\ pass'.from = pass.from
          /\ pass'.last = pass.last /\ pass'.upto = pass.upto /\ pass'.buf = pass.buf
      BY <1>4, <2>3 DEF PassTypes
    <3>2. /\ PassesFrom' = PassesFrom /\ PassesUpto' = PassesUpto /\ Counted = 0
          /\ \A p \in Reached .. Reached + Counted - 1 : FALSE
      BY <1>9, <3>1
    <3>3. failed' \in BOOLEAN /\ failed'
      BY <2>3
    <3>4. /\ stream' \in StreamTypes /\ stream'.open = stream.open /\ stream'.mode = stream.mode
          /\ stream'.len = stream.len
      BY <1>4, <2>3
    <3>5. stream'.pos = stream.pos + Counted
      BY <1>3, <2>3, <3>2
    <3>6. disk' \in Cards /\ \A p : Byte(disk', p) = Byte(disk, p)
      BY <1>4, <2>3
    <3>7. Counted # -1
      BY <3>2
    <3>8. QED
      BY <1>1, <2>2, <3>1, <3>2, <3>3, <3>4, <3>5, <3>6, <3>7
  <2>4. CASE \E ret \in {-1, BlockSize} :
               /\ Writes(pass.cur, NewBlock, ret)
               /\ FwritePass(ret)
               /\ failed' = (failed \/ ret = -1)
    <3>1. PICK ret \in {-1, BlockSize} :
            /\ Writes(pass.cur, NewBlock, ret)
            /\ FwritePass(ret)
            /\ failed' = (failed \/ ret = -1)
      BY <2>4
    <3> DEFINE k == Transferred(ret)
               w == ret = -1
    <3>2. k = IF ret = -1 /\ WholeBlock THEN -1 ELSE Moves
      BY <1>6, <1>8 DEF Moves
    <3>3. k \in Int
      BY <1>8, <3>2
    <3>4. /\ CountPass(k, ret, pass.buf)
          /\ stream' = [stream EXCEPT !.pos = stream.pos + k,
                                      !.len = IF stream.pos + k > @ THEN stream.pos + k ELSE @]
      BY <3>1 DEF FwritePass
    <3>5. failed' = (failed \/ w) /\ w \in BOOLEAN
      BY <3>1
    <3> HIDE DEF k
    <3>6. /\ pass' \in PassTypes
          /\ PassesFrom' = PassesFrom /\ PassesUpto' = PassesUpto
          /\ pass'.total = pass.total + k /\ pass'.buf = pass.buf
          /\ pass'.failed <=> ret = -1
          /\ pass'.over <=> ret = -1 \/ pass.cur = pass.last
          /\ ~pass'.over => /\ pass.cur < pass.last
                            /\ pass'.cur \in pass'.first .. pass'.last
                            /\ Reached' = (pass.cur + 1) * BlockSize
      BY <1>1, <1>4, <3>3, <3>4, PassCounted
    <3>7. Counted = k
      BY <1>3, <3>3, <3>6 DEF Counted
    <3>8. failed' \in BOOLEAN /\ (failed => failed') /\ (ret = -1 => failed')
      BY <1>5, <3>5
    <3>9. /\ stream' \in StreamTypes /\ stream'.open = stream.open
          /\ stream'.mode = stream.mode /\ stream'.pos = stream.pos + k
          /\ stream'.len = IF stream'.pos > stream.len THEN stream'.pos ELSE stream.len
      <4> DEFINE q == stream.pos + k
                 l == IF q > stream.len THEN q ELSE stream.len
      <4>1. q \in Int /\ l \in Nat
        BY <1>3, <3>3
      <4>2. stream' = [stream EXCEPT !.pos = q, !.len = l]
        BY <3>4
      <4> HIDE DEF q, l
      <4>3. /\ stream' \in StreamTypes /\ stream'.open = stream.open
            /\ stream'.mode = stream.mode /\ stream'.pos = q /\ stream'.len = l
        BY <1>4, <4>1, <4>2 DEF StreamTypes
      <4>4. QED
        BY <4>3 DEF q, l
    <3>10. \/ disk' = disk
           \/ pass.cur < DiskBlocks /\ disk' = [disk EXCEPT ![pass.cur] = NewBlock]
      BY <3>1 DEF Writes
    <3>11. /\ disk' \in Cards
           /\ \A p \in Address :
                \/ Byte(disk', p) = Byte(disk, p)
                \/ /\ p \in Reached .. Reached + Moves - 1
                   /\ Byte(disk', p) = pass.buf[p - PassesFrom + 1]
           /\ \A p \in 0 .. Reached - 1 : Byte(disk', p) = Byte(disk, p)
      BY <1>1, <1>2, <3>10, CardAfterPass
    <3>12. ASSUME ~failed', NEW p \in Reached .. Reached + k - 1
           PROVE  p \in Address /\ Byte(disk', p) = pass.buf[p - PassesFrom + 1]
      <4>1. ret = BlockSize
        BY <3>8, <3>12
      <4>2. pass.cur < DiskBlocks /\ disk' = [disk EXCEPT ![pass.cur] = NewBlock]
        BY <1>6, <3>1, <4>1 DEF Writes
      <4>3. p \in Reached .. Reached + Moves - 1 /\ p \in 0 .. Reached + Moves - 1
        BY <1>6, <1>8, <3>2, <3>12, <4>1
      <4>4. p \in Address
        BY <1>1, <4>2, <4>3, InTheCard
      <4>5. QED
        BY <1>1, <1>2, <4>2, <4>3, <4>4, PassWrites
    <3>13. ~pass'.over => /\ ~pass'.failed /\ pass'.cur \in pass'.first .. pass'.last
                          /\ pass'.total = Reached' - PassesFrom'
      <4>1. ~pass'.over => ret # -1 /\ ~pass'.failed
        BY <3>6
      <4>2. ~pass'.over => k = Moves
        BY <3>2, <4>1
      <4>3. ~pass'.over => Reached' = Reached + Moves
        BY <1>8, <3>6
      <4>4. QED
        BY <1>3, <1>7, <1>8, <3>6, <4>1, <4>2, <4>3
    <3>14. /\ k \in {-1, 0, Moves} /\ (k = -1 => WholeBlock /\ failed')
           /\ ~failed' => k = Moves
           /\ ~failed' /\ pass'.over => pass.cur = pass.last
      <4>1. k = -1 => WholeBlock /\ ret = -1
        BY <1>8, <3>2
      <4>2. ~failed' => ret # -1
        BY <3>8
      <4>3. QED
        BY <3>2, <3>6, <3>8, <4>1, <4>2
    <3>15. QED
      BY <1>1, <2>2, <3>6, <3>7, <3>8, <3>9, <3>11, <3>12, <3>13, <3>14
  <2>5. QED
    <3>1. \/ /\ ~WholeBlock
             /\ pass' = [pass EXCEPT !.over = TRUE, !.failed = TRUE]
             /\ failed' = TRUE
             /\ UNCHANGED <<stream, disk>>
          \/ \E ret \in {-1, BlockSize} :
               /\ Writes(pass.cur, NewBlock, ret)
               /\ FwritePass(ret)
               /\ failed' = (failed \/ ret = -1)
      BY <2>1 DEF WriteTo, NewBlock
    <3>2. QED
      BY <2>3, <2>4, <3>1
<1>12. QED
  BY <1>10, <1>11

\* The mark at the beginning stays when only bytes behind it change.
LEMMA HeaderStays ==
  ASSUME TypeOK, disk' \in Cards, HeaderIntact, stream'.open = stream.open, wild' = wild,
         stream.open /\ ~wild => \A p \in 0 .. BomLen - 1 : Byte(disk', p) = Byte(disk, p)
  PROVE  HeaderIntact'
<1>1. /\ BlockSize \in Nat \ {0} /\ BomLen \in Nat /\ BomLen <= BlockSize
      /\ 0 \in 0 .. DiskBlocks - 1
  BY SizesFit
<1>2. ASSUME NEW i \in 0 .. BomLen - 1, NEW d PROVE Byte(d, i) = d[0][i]
  <2>1. i \in Offset
    BY <1>1 DEF Offset
  <2>2. (0 * BlockSize + i) \div BlockSize = 0 /\ (0 * BlockSize + i) % BlockSize = i
    BY <1>1, <2>1, OffsetFacts
  <2>3. 0 * BlockSize + i = i
    BY <1>1
  <2>4. QED
    BY <2>2, <2>3 DEF Byte
<1>3. stream.open /\ ~wild => \A i \in 0 .. BomLen - 1 : disk'[0][i] = disk[0][i]
  BY <1>2
<1>4. QED
  BY <1>3 DEF HeaderIntact, HasBom

\* A pass of fs_fwrite over the bytes of the caller.
LEMMA FwriteMoves ==
  ASSUME IInv, FwriteStep, Running("fwrite")
  PROVE  IInv'
<1> DEFINE from == call.start
           t == pass.total
           k == Counted
<1>1. TypeOK /\ Passing /\ Stands /\ Writing /\ Marked /\ HeaderIntact /\ WritesWithin(Limit)
  BY DEF IInv
<1>2. /\ call.op = "fwrite" /\ call.busy /\ call' = call /\ wild' = wild /\ calls' = calls
      /\ before' = before /\ payload' = payload /\ ~pass.over
  BY <1>1, WriteFacts DEF Running
<1>3. \A o : (Running(o) <=> o = "fwrite") /\ (Running(o)' <=> o = "fwrite")
  BY <1>2 DEF Running
<1>4. /\ call \in CallTypes /\ wild \in BOOLEAN /\ failed \in BOOLEAN /\ before \in Cards
      /\ calls \in Nat /\ payload \in Seq(Data) /\ (wild => failed)
  BY <1>1 DEF TypeOK
<1>5. /\ stream.pos \in Int /\ stream.len \in Nat /\ from \in Int /\ t \in Int
      /\ call.len \in Int /\ call.bytes \in Nat /\ pass.cur \in Nat
  BY <1>1 DEF TypeOK, StreamTypes, CallTypes, PassTypes
<1>6. /\ from \in -1 .. Word - 1 /\ stream.pos = from + t /\ t = Reached - PassesFrom
      /\ stream.open /\ (~wild => BomLen <= from)
  BY <1>1, <1>2, <1>4, <1>5, SizesFit DEF Passing
<1>7. PassesFrom = from % Word
  BY <1>1, <1>2 DEF Passing
<1>8. Asked = call.bytes /\ pass.buf = payload /\ call.bytes = Len(payload)
  BY <1>1, <1>3 DEF Writing, Asked
<1>9. /\ stream.pos \in -1 .. stream.len /\ stream.len < Word
      /\ ~wild => BomLen <= stream.pos /\ stream.len <= Limit
  BY <1>1, <1>3, <1>6 DEF Stands
<1>10. /\ Moves \in Nat /\ PassesFrom \in Nat /\ PassesFrom <= Reached /\ Reached \in Nat
       /\ Reached + Moves <= PassesFrom + call.bytes
  BY <1>1, <1>2, <1>8, PassFacts
<1>11. /\ BlockSize \in Nat \ {0} /\ BomLen \in Nat \ {0} /\ Word \in Nat /\ Limit \in Nat
       /\ Limit < Word
  BY SizesFit
<1>12. /\ stream' \in StreamTypes /\ stream'.open = stream.open /\ stream'.mode = stream.mode
       /\ pass' \in PassTypes /\ pass'.buf = pass.buf /\ disk' \in Cards
       /\ PassesFrom' = PassesFrom /\ PassesUpto' = PassesUpto
       /\ failed' \in BOOLEAN /\ (failed => failed')
  BY <1>1, WriteFacts
<1>13. /\ stream'.pos \in Int /\ stream'.len \in Nat /\ pass'.total \in Int
  BY <1>12 DEF StreamTypes, PassTypes
<1>14. /\ stream'.pos = stream.pos + k /\ pass'.total = t + k
       /\ \/ stream'.len = stream.len /\ k = 0
          \/ stream'.len = IF stream'.pos > stream.len THEN stream'.pos ELSE stream.len
  BY <1>1, <1>5, <1>13, WriteFacts DEF Counted
<1>15. /\ k \in {-1, 0, Moves} /\ (pass.cur >= BlockSize => k = 0) /\ (k = -1 => WholeBlock)
       /\ ~failed' => k # -1
       /\ ~failed' /\ pass.cur < BlockSize => k = Moves
  BY <1>1, WriteFacts
<1> HIDE DEF k
<1>16. pass.cur < BlockSize =>
         /\ PassesFrom = from /\ from \in Nat /\ Reached + Moves <= Limit
         /\ WholeBlock /\ BomLen <= from => BomLen <= Reached - 1
  BY <1>1, <1>2, <1>6, <1>7, PassInFile
<1>17. pass.cur >= BlockSize => disk' = disk
  BY <1>1, WriteFacts
<1>18. /\ \A p \in Address :
            \/ Byte(disk', p) = Byte(disk, p)
            \/ /\ p \in Reached .. Reached + Moves - 1 /\ pass.cur < BlockSize
               /\ Byte(disk', p) = pass.buf[p - PassesFrom + 1]
       /\ \A p \in 0 .. Reached - 1 : Byte(disk', p) = Byte(disk, p)
  <2>1. pass.cur >= BlockSize => \A p : Byte(disk', p) = Byte(disk, p)
    BY <1>17
  <2>2. pass.cur >= BlockSize \/ pass.cur < BlockSize
    BY <1>5, <1>11
  <2>3. /\ \A p \in Address :
             \/ Byte(disk', p) = Byte(disk, p)
             \/ /\ p \in Reached .. Reached + Moves - 1
                /\ Byte(disk', p) = pass.buf[p - PassesFrom + 1]
        /\ \A p \in 0 .. Reached - 1 : Byte(disk', p) = Byte(disk, p)
    BY <1>1, WriteFacts
  <2>4. QED
    BY <2>1, <2>2, <2>3
<1>19. \/ k = 0
       \/ pass.cur < BlockSize /\ stream'.pos = Reached + k
  BY <1>5, <1>6, <1>10, <1>11, <1>14, <1>15, <1>16
<1>20. TypeOK'
  <2>1. wild' \in BOOLEAN /\ (wild' => failed')
    BY <1>2, <1>4, <1>12
  <2>2. QED
    BY <1>2, <1>4, <1>12, <2>1, TypesHold
<1>21. stream'.pos \in -1 .. stream'.len /\ stream'.len < Word
  <2>1. CASE k = 0
    BY <1>5, <1>9, <1>13, <1>14, <2>1
  <2>2. CASE pass.cur < BlockSize /\ stream'.pos = Reached + k
    BY <1>5, <1>9, <1>10, <1>11, <1>13, <1>14, <1>15, <1>16, <2>2
  <2>3. QED
    BY <1>19, <2>1, <2>2
<1>22. ~wild => BomLen <= stream'.pos /\ stream'.len <= Limit
  <2>1. CASE k = 0
    BY <1>5, <1>9, <1>11, <1>13, <1>14, <2>1
  <2>2. CASE pass.cur < BlockSize /\ stream'.pos = Reached + k
    BY <1>5, <1>6, <1>9, <1>10, <1>11, <1>13, <1>14, <1>15, <1>16, <2>2
  <2>3. QED
    BY <1>19, <2>1, <2>2
<1>23. Stands'
  BY <1>2, <1>3, <1>21, <1>22 DEF Stands
<1>24. Passing'
  <2>1. Asked' = Asked
    BY <1>3, <1>12 DEF Asked
  <2>2. PassesUpto' = (PassesFrom' + Asked') % Word
    BY <1>1, <1>2, <1>12, <2>1 DEF Passing
  <2>3. ~pass'.over => /\ ~pass'.failed /\ pass'.cur \in pass'.first .. pass'.last
                       /\ pass'.total = Reached' - PassesFrom'
    BY <1>1, WriteFacts
  <2>4. stream'.pos = call'.start + pass'.total
    BY <1>2, <1>5, <1>6, <1>14, <1>15, <1>10
  <2>5. /\ call'.start \in -1 .. Word - 1 /\ PassesFrom' = call'.start % Word
        /\ stream'.open /\ (wild' \/ call'.start >= BomLen)
    BY <1>1, <1>2, <1>12 DEF Passing
  <2>6. QED
    BY <1>3, <2>2, <2>3, <2>4, <2>5 DEF Passing
<1>25. Reading' /\ ReadsFile'
  BY <1>2, <1>3 DEF Reading, ReadsFile
<1>26. ~failed => stream.len = IF stream.pos > call.len THEN stream.pos ELSE call.len
  BY <1>1, <1>2 DEF Writing
<1>27. ~failed' => k \in Nat
  BY <1>10, <1>15
<1>28. Writing'
  <2>1. ~failed' => stream'.len = IF stream'.pos > call.len THEN stream'.pos ELSE call.len
    BY <1>5, <1>9, <1>12, <1>13, <1>14, <1>26, <1>27
  <2>2. stream'.open /\ stream'.mode = "a+" => call.start = call.len
    BY <1>1, <1>2, <1>12 DEF Writing
  <2>3. pass'.buf = payload' /\ call'.bytes = Len(payload')
    BY <1>2, <1>8, <1>12
  <2>4. QED
    BY <1>2, <1>3, <2>1, <2>2, <2>3 DEF Writing
<1>29. Marked'
  <2>1. ASSUME ~failed', ~Grown', BomLen < stream'.len, stream'.len < Limit
        PROVE  stream'.len \in Address /\ Byte(disk', stream'.len) = Eof
    <3>1. stream'.len <= call.len
      BY <1>2, <1>5, <1>13, <2>1 DEF Grown
    <3>2. stream'.len = stream.len /\ stream.len = call.len
      BY <1>5, <1>9, <1>12, <1>13, <1>14, <1>26, <1>27, <2>1, <3>1
    <3>3. stream.len \in Address /\ Byte(disk, stream.len) = Eof
      <4>1. ~Grown
        BY <1>5, <3>2 DEF Grown
      <4>2. QED
        BY <1>1, <1>3, <1>6, <1>12, <2>1, <3>2, <4>1 DEF Marked
    <3>4. pass.cur < BlockSize => stream.len \notin Reached .. Reached + Moves - 1
      <4>1. pass.cur < BlockSize => k = Moves /\ stream'.pos = Reached + Moves
        BY <1>5, <1>6, <1>10, <1>14, <1>15, <1>16, <2>1
      <4>2. QED
        BY <1>5, <1>10, <1>13, <1>21, <3>2, <4>1
    <3>5. QED
      BY <1>18, <3>2, <3>3, <3>4
  <2>2. QED
    BY <1>2, <1>3, <2>1 DEF Marked
<1>30. HeaderIntact'
  <2>1. ~wild /\ pass.cur < BlockSize => BomLen <= Reached
    BY <1>5, <1>6, <1>10, <1>11, <1>16
  <2>2. ~wild /\ pass.cur < BlockSize => \A p \in 0 .. BomLen - 1 : p \in 0 .. Reached - 1
    BY <1>10, <1>11, <2>1
  <2>3. ~wild => \A p \in 0 .. BomLen - 1 : Byte(disk', p) = Byte(disk, p)
    <3>1. pass.cur >= BlockSize \/ pass.cur < BlockSize
      BY <1>5, <1>11
    <3>2. QED
      BY <1>17, <1>18, <2>2, <3>1
  <2>4. QED
    BY <1>1, <1>2, <1>12, <2>3, HeaderStays
<1>31. WritesWithin(Limit)'
  <2>1. ASSUME ~failed', NEW i \in 1 .. pass'.total
        PROVE  Byte(disk', call'.start + i - 1) = payload'[i]
    <3>1. ~failed /\ ~wild
      BY <1>4, <1>12, <2>1
    <3>2. ~failed => \A j \in 1 .. t : Byte(disk, from + j - 1) = payload[j]
      BY <1>1, <1>2, <1>3 DEF WritesWithin
    <3>3. ~failed' => \A p \in Reached .. Reached + k - 1 :
                        p \in Address /\ Byte(disk', p) = pass.buf[p - PassesFrom + 1]
      BY <1>1, WriteFacts DEF k
    <3>4. from \in Nat /\ PassesFrom = from
      <4>1. from \in Nat /\ from < Word
        BY <1>5, <1>6, <1>11, <3>1
      <4>2. QED
        BY <1>7, <4>1, NoWrap
    <3>5. CASE i <= t
      <4>1. i \in 1 .. t /\ from + i - 1 \in 0 .. Reached - 1
        BY <1>5, <1>6, <1>10, <2>1, <3>4, <3>5
      <4>2. Byte(disk', from + i - 1) = Byte(disk, from + i - 1)
        BY <1>18, <4>1
      <4>3. Byte(disk, from + i - 1) = payload[i]
        BY <3>1, <3>2, <4>1
      <4>4. QED
        BY <1>2, <4>2, <4>3
    <3>6. CASE ~(i <= t)
      <4> DEFINE p == from + i - 1
      <4>1. p \in Reached .. Reached + k - 1 /\ p - PassesFrom + 1 = i
        BY <1>5, <1>6, <1>10, <1>14, <1>15, <2>1, <3>4, <3>6
      <4> HIDE DEF p
      <4>2. Byte(disk', p) = pass.buf[p - PassesFrom + 1]
        BY <2>1, <3>3, <4>1
      <4>3. Byte(disk', p) = payload[i]
        BY <1>8, <4>1, <4>2
      <4>4. QED
        BY <1>2, <4>3 DEF p
    <3>7. QED
      BY <3>5, <3>6
  <2>2. ASSUME NEW p \in Address
        PROVE  \/ Byte(disk', p) = Byte(before, p)
               \/ p < Limit /\ p \in from .. from + call.bytes - 1
    <3>1. \/ Byte(disk, p) = Byte(before, p)
          \/ p < Limit /\ p \in from .. from + call.bytes - 1
      BY <1>1, <1>2 DEF WritesWithin
    <3>2. p \in Int
      <4>1. DiskBlocks * BlockSize \in Nat
        BY SizesFit
      <4>2. QED
        BY <4>1 DEF Address
    <3>3. p \in Reached .. Reached + Moves - 1 /\ pass.cur < BlockSize =>
            p < Limit /\ p \in from .. from + call.bytes - 1
      BY <1>5, <1>10, <1>11, <1>16, <3>2
    <3>4. QED
      BY <1>18, <3>1, <3>3
  <2>3. QED
    BY <1>2, <1>3, <2>1, <2>2 DEF WritesWithin
<1>32. QED
  BY <1>20, <1>23, <1>24, <1>25, <1>28, <1>29, <1>30, <1>31 DEF IInv

\* Where the mark is written, its bytes do not wrap.
LEMMA MarkFits ==
  ASSUME NEW p \in Nat, p <= Limit
  PROVE  p % Word = p /\ (p + MarkLen) % Word = p + MarkLen
<1>1. /\ MarkLen \in Nat /\ BomLen \in Nat \ {0} /\ BlockSize \in Nat /\ Limit \in Nat
      /\ Word \in Nat /\ Limit + BlockSize <= Word /\ BomLen + MarkLen <= BlockSize
  BY SizesFit
<1>2. p < Word /\ p + MarkLen < Word /\ p + MarkLen \in Nat
  BY <1>1
<1>3. QED
  BY <1>2, NoWrap

\* A pass of fs_fwrite over the bytes of the mark.
LEMMA MarkMoves ==
  ASSUME IInv, FwriteStep, Running("mark")
  PROVE  IInv'
<1> DEFINE from == PassesFrom
           t == pass.total
           k == Counted
<1>1. TypeOK /\ Passing /\ Stands /\ Writing /\ Marked /\ HeaderIntact /\ WritesWithin(Limit)
  BY DEF IInv
<1>2. /\ call.op = "mark" /\ call.busy /\ call' = call /\ wild' = wild /\ calls' = calls
      /\ before' = before /\ payload' = payload /\ ~pass.over
  BY <1>1, WriteFacts DEF Running
<1>3. \A o : (Running(o) <=> o = "mark") /\ (Running(o)' <=> o = "mark")
  BY <1>2 DEF Running
<1>4. /\ call \in CallTypes /\ wild \in BOOLEAN /\ failed \in BOOLEAN /\ before \in Cards
      /\ calls \in Nat /\ payload \in Seq(Data) /\ (wild => failed)
  BY <1>1 DEF TypeOK
<1>5. /\ call.start \in Int /\ call.total \in Int /\ t \in Int /\ call.len \in Int
      /\ call.bytes \in Nat /\ pass.cur \in Nat /\ pass.last \in Nat
  BY <1>1 DEF TypeOK, CallTypes, PassTypes
<1>6. pass.buf = eof_mark /\ Asked = MarkLen /\ (~wild => BomLen <= from)
  <2>1. pass.buf = eof_mark /\ (wild \/ from >= BomLen)
    BY <1>1, <1>3 DEF Writing
  <2>2. from \in Nat
    BY <1>1, <1>2, PassFacts
  <2>3. QED
    BY <1>3, <1>4, <2>1, <2>2, MarkFacts, SizesFit DEF Asked
<1>7. t = Reached - from
  BY <1>1, <1>2 DEF Passing
<1>8. /\ Moves \in Nat /\ from \in Nat /\ from <= Reached /\ Reached \in Nat
      /\ Reached + Moves <= from + MarkLen
      /\ pass.cur < BlockSize => Reached + Moves <= Limit
  BY <1>1, <1>2, <1>6, PassFacts
<1>9. from <= PassesUpto /\ pass.cur = pass.last => Reached + Moves = PassesUpto
  BY <1>1, <1>2, PassFacts
<1>10. /\ BlockSize \in Nat \ {0} /\ BomLen \in Nat \ {0} /\ MarkLen \in Nat \ {0}
       /\ Word \in Nat /\ Limit \in Nat
  BY SizesFit
<1>11. /\ stream' \in StreamTypes /\ stream'.open = stream.open
       /\ pass' \in PassTypes /\ pass'.buf = pass.buf /\ disk' \in Cards
       /\ PassesFrom' = PassesFrom /\ PassesUpto' = PassesUpto
       /\ failed' \in BOOLEAN /\ (failed => failed')
  BY <1>1, WriteFacts
<1>12. pass'.total = t + k /\ pass'.total \in Int
  <2>1. pass'.total \in Int
    BY <1>11 DEF PassTypes
  <2>2. QED
    BY <1>5, <2>1 DEF Counted
<1>13. /\ pass.cur >= BlockSize => k = 0 /\ disk' = disk
       /\ ~failed' /\ pass'.over /\ pass.cur < BlockSize => pass.cur = pass.last
       /\ ~failed' /\ pass.cur < BlockSize => k = Moves
  BY <1>1, WriteFacts
<1>14. ~failed' => \A p \in Reached .. Reached + k - 1 :
                     p \in Address /\ Byte(disk', p) = pass.buf[p - PassesFrom + 1]
  BY <1>1, WriteFacts
<1> HIDE DEF k
<1>15. /\ \A p \in Address :
            \/ Byte(disk', p) = Byte(disk, p)
            \/ p \in Reached .. Reached + Moves - 1 /\ pass.cur < BlockSize
       /\ \A p \in 0 .. Reached - 1 : Byte(disk', p) = Byte(disk, p)
  <2>1. pass.cur >= BlockSize => \A p : Byte(disk', p) = Byte(disk, p)
    BY <1>13
  <2>2. pass.cur >= BlockSize \/ pass.cur < BlockSize
    BY <1>5, <1>10
  <2>3. /\ \A p \in Address :
             \/ Byte(disk', p) = Byte(disk, p)
             \/ p \in Reached .. Reached + Moves - 1
        /\ \A p \in 0 .. Reached - 1 : Byte(disk', p) = Byte(disk, p)
    BY <1>1, WriteFacts
  <2>4. QED
    BY <2>1, <2>2, <2>3
<1>16. ~failed' => ~failed /\ ~wild
  BY <1>4, <1>11
<1>17. ~failed => /\ call.start \in Nat
                  /\ from = call.len /\ from = call.start + call.total
  BY <1>1, <1>2 DEF Writing
<1>18. TypeOK'
  <2>1. wild' \in BOOLEAN /\ (wild' => failed')
    BY <1>2, <1>4, <1>11
  <2>2. QED
    BY <1>2, <1>4, <1>11, <2>1, TypesHold
<1>19. Stands'
  <2>1. call.len \in 0 .. Word - 1 /\ (~wild => call.len \in BomLen .. Limit)
    BY <1>1, <1>3 DEF Stands
  <2>2. QED
    BY <1>2, <1>3, <2>1 DEF Stands
<1>20. Passing'
  <2>1. Asked' = Asked
    BY <1>3, <1>11 DEF Asked
  <2>2. PassesUpto' = (PassesFrom' + Asked') % Word
    BY <1>1, <1>2, <1>11, <2>1 DEF Passing
  <2>3. ~pass'.over => /\ ~pass'.failed /\ pass'.cur \in pass'.first .. pass'.last
                       /\ pass'.total = Reached' - PassesFrom'
    BY <1>1, WriteFacts
  <2>4. QED
    BY <1>2, <1>3, <2>2, <2>3 DEF Passing
<1>21. Reading' /\ ReadsFile'
  BY <1>2, <1>3 DEF Reading, ReadsFile
<1>22. Writing'
  <2>1. pass'.buf = eof_mark /\ (wild' \/ PassesFrom' >= BomLen)
    BY <1>1, <1>2, <1>3, <1>11 DEF Writing
  <2>2. ~failed' => /\ call'.start \in Nat
                    /\ PassesFrom' = call'.len /\ PassesFrom' = call'.start + call'.total
    BY <1>2, <1>11, <1>16, <1>17
  <2>3. QED
    BY <1>2, <1>3, <2>1, <2>2 DEF Writing
<1>23. Marked'
  <2>1. ASSUME ~failed', NEW i \in 1 .. pass'.total
        PROVE  from + i - 1 \in Address /\ Byte(disk', from + i - 1) = eof_mark[i]
    <3>1. CASE i <= t
      <4>1. i \in 1 .. t /\ from + i - 1 \in 0 .. Reached - 1
        BY <1>5, <1>7, <1>8, <2>1, <3>1
      <4>2. from + i - 1 \in Address /\ Byte(disk, from + i - 1) = eof_mark[i]
        BY <1>1, <1>2, <1>16, <2>1, <4>1 DEF Marked
      <4>3. Byte(disk', from + i - 1) = Byte(disk, from + i - 1)
        BY <1>15, <4>1
      <4>4. QED
        BY <4>2, <4>3
    <3>2. CASE ~(i <= t)
      <4>1. k \in Int
        BY <1>5, <1>8, <1>10, <1>13, <2>1
      <4> DEFINE p == from + i - 1
      <4>2. p \in Reached .. Reached + k - 1 /\ p - PassesFrom + 1 = i
        BY <1>5, <1>7, <1>8, <1>12, <2>1, <3>2, <4>1
      <4> HIDE DEF p
      <4>3. p \in Address /\ Byte(disk', p) = pass.buf[p - PassesFrom + 1]
        BY <1>14, <2>1, <4>2
      <4>4. p \in Address /\ Byte(disk', p) = eof_mark[i]
        BY <1>6, <4>2, <4>3
      <4>5. QED
        BY <4>4 DEF p
    <3>3. QED
      BY <3>1, <3>2
  <2>2. ASSUME ~failed', pass'.over
        PROVE  pass'.total = MarkLen \/ from + pass'.total >= Limit
    <3>1. from <= Limit /\ PassesUpto = (from + MarkLen) % Word
      <4>1. call.len \in BomLen .. Limit
        BY <1>1, <1>3, <1>16, <2>2 DEF Stands
      <4>2. PassesUpto = (from + MarkLen) % Word
        BY <1>1, <1>2, <1>6 DEF Passing
      <4>3. QED
        BY <1>10, <1>16, <1>17, <2>2, <4>1, <4>2
    <3>2. PassesUpto = from + MarkLen
      BY <1>8, <3>1, MarkFits
    <3>3. CASE pass.cur < BlockSize
      <4>1. k = Moves /\ Reached + Moves = PassesUpto
        BY <1>8, <1>9, <1>10, <1>13, <2>2, <3>2, <3>3
      <4>2. QED
        BY <1>5, <1>7, <1>8, <1>10, <1>12, <3>2, <4>1
    <3>4. CASE pass.cur >= BlockSize
      <4>1. Limit <= pass.cur * BlockSize
        BY <1>5, <1>10, <3>4, NoBlockBehind
      <4>2. pass.cur * BlockSize <= Reached
        <5>1. Reached = pass.cur * BlockSize + Segment.from /\ Segment.from \in Offset
          BY <1>1, <1>2, PassFacts
        <5> DEFINE m == pass.cur * BlockSize
        <5>2. m \in Int
          BY <1>5, <1>10
        <5> HIDE DEF m
        <5>3. Reached = m + Segment.from /\ Segment.from \in 0 .. BlockSize - 1
          BY <5>1 DEF m, Offset
        <5>4. m <= Reached
          BY <1>10, <5>2, <5>3
        <5>5. QED
          BY <5>4 DEF m
      <4>3. k = 0
        BY <1>13, <3>4
      <4> DEFINE m == pass.cur * BlockSize
      <4>4. m \in Int /\ Limit <= m /\ m <= Reached
        BY <1>5, <1>10, <4>1, <4>2
      <4> HIDE DEF m
      <4>5. QED
        BY <1>5, <1>7, <1>8, <1>10, <1>12, <4>3, <4>4
    <3>5. QED
      BY <1>5, <1>10, <3>3, <3>4
  <2>3. QED
    BY <1>2, <1>3, <1>11, <2>1, <2>2 DEF Marked
<1>24. HeaderIntact'
  <2>1. ~wild => \A p \in 0 .. BomLen - 1 : p \in 0 .. Reached - 1
    BY <1>6, <1>8, <1>10
  <2>2. ~wild => \A p \in 0 .. BomLen - 1 : Byte(disk', p) = Byte(disk, p)
    BY <1>15, <2>1
  <2>3. QED
    BY <1>1, <1>2, <1>11, <2>2, HeaderStays
<1>25. WritesWithin(Limit)'
  <2>1. ASSUME ~failed', NEW i \in 1 .. call.total
        PROVE  Byte(disk', call.start + i - 1) = payload[i]
    <3>1. Byte(disk, call.start + i - 1) = payload[i]
      BY <1>1, <1>2, <1>3, <1>16, <2>1 DEF WritesWithin
    <3>2. call.start + i - 1 \in 0 .. Reached - 1
      BY <1>5, <1>8, <1>16, <1>17, <2>1
    <3>3. Byte(disk', call.start + i - 1) = Byte(disk, call.start + i - 1)
      BY <1>15, <3>2
    <3>4. QED
      BY <3>1, <3>3
  <2>2. ASSUME NEW p \in Address
        PROVE  \/ Byte(disk', p) = Byte(before, p)
               \/ /\ p < Limit
                  /\ \/ p \in call.start .. call.start + call.bytes - 1
                     \/ p \in from .. from + MarkLen - 1
    <3>1. \/ Byte(disk, p) = Byte(before, p)
          \/ /\ p < Limit
             /\ \/ p \in call.start .. call.start + call.bytes - 1
                \/ p \in from .. from + MarkLen - 1
      BY <1>1, <1>2 DEF WritesWithin
    <3>2. p \in Int
      <4>1. DiskBlocks * BlockSize \in Nat
        BY SizesFit
      <4>2. QED
        BY <4>1 DEF Address
    <3>3. p \in Reached .. Reached + Moves - 1 /\ pass.cur < BlockSize =>
            p < Limit /\ p \in from .. from + MarkLen - 1
      BY <1>8, <1>10, <3>2
    <3>4. QED
      BY <1>15, <3>1, <3>3
  <2>3. QED
    BY <1>2, <1>3, <1>11, <2>1, <2>2 DEF WritesWithin
<1>26. QED
  BY <1>18, <1>19, <1>20, <1>21, <1>22, <1>23, <1>24, <1>25 DEF IInv

\* Each of the two.
LEMMA FwriteStepKeeps ==
  ASSUME IInv, FwriteStep
  PROVE  IInv'
  BY FwriteMoves, MarkMoves DEF FwriteStep

(***************************************************************************)
(* Calls that end.                                                         *)
(***************************************************************************)

\* fread returns what its passes have read.
LEMMA FreadReturnsKeeps ==
  ASSUME IInv, FreadReturns
  PROVE  IInv'
<1>1. /\ TypeOK /\ Passing /\ Stands /\ Reading /\ Marked /\ HeaderIntact
  BY DEF IInv
<1>2. /\ Running("fread") /\ pass.over /\ call.op = "fread" /\ call.busy /\ call' = Result
      /\ stream' = stream /\ pass' = pass /\ disk' = disk /\ wild' = wild /\ calls' = calls
      /\ before' = before /\ payload' = payload /\ failed' = failed
  BY DEF FreadReturns, Running, history
<1>3. /\ stream \in StreamTypes /\ pass \in PassTypes /\ disk \in Cards /\ before \in Cards
      /\ wild \in BOOLEAN /\ failed \in BOOLEAN /\ calls \in Nat /\ payload \in Seq(Data)
      /\ (wild => failed)
  BY <1>1 DEF TypeOK
<1>4. /\ call' \in CallTypes /\ call'.op = call.op /\ call'.busy = FALSE
      /\ call'.start = call.start /\ call'.bytes = call.bytes /\ call'.len = call.len
      /\ call'.total = pass.total
      /\ call'.failed <=> call.failed \/ pass.failed
  BY <1>1, <1>2, ResultFacts
<1>5. \A o : ~Running(o)'
  BY <1>4 DEF Running
<1>6. TypeOK'
  <2>1. wild' \in BOOLEAN /\ failed' \in BOOLEAN /\ (wild' => failed')
    BY <1>2, <1>3
  <2>2. QED
    BY <1>2, <1>3, <1>4, <2>1, TypesHold
<1>7. Stands'
  <2>1. ~Running("mark")
    BY <1>2 DEF Running
  <2>2. QED
    BY <1>1, <1>2, <1>5, <2>1 DEF Stands
<1>8. Passing'
  <2>1. PassesFrom' = PassesFrom
    BY <1>2 DEF PassesFrom
  <2>2. /\ call.start \in -1 .. Word - 1 /\ PassesFrom = call.start % Word
        /\ stream.pos = call.start + pass.total
    BY <1>1, <1>2 DEF Passing
  <2>3. QED
    BY <1>2, <1>4, <2>1, <2>2 DEF Passing
<1>9. Reading' /\ Writing' /\ WritesWithin(Limit)'
  BY <1>2, <1>4, <1>5 DEF Reading, Writing, WritesWithin
<1>10. Marked'
  BY <1>1, <1>2, <1>4, <1>5 DEF Marked, Running
<1>11. HeaderIntact'
  BY <1>1, <1>2 DEF HeaderIntact, HasBom
<1>12. ReadsFile'
  <2>1. stream'.pos = call'.start + pass'.total
    BY <1>1, <1>2, <1>4 DEF Passing
  <2>2. ASSUME ~call'.failed, ~wild'
        PROVE  /\ call'.total = call'.bytes
               /\ pass'.buf = [i \in 1 .. call'.bytes |-> Byte(disk', call'.start + i - 1)]
    <3>1. ~pass.failed /\ ~wild
      BY <1>2, <1>4, <2>2
    <3>2. /\ pass.buf = [i \in 1 .. pass.total |-> Byte(disk, call.start + i - 1)]
          /\ pass.total = call.bytes
      BY <1>1, <1>2, <3>1 DEF Reading
    <3>3. QED
      BY <1>2, <1>4, <3>2
  <2>3. QED
    BY <2>1, <2>2 DEF ReadsFile
<1>13. QED
  BY <1>6, <1>7, <1>8, <1>9, <1>10, <1>11, <1>12 DEF IInv

\* fwrite returns when the file has not grown.
LEMMA FwriteReturnsKeeps ==
  ASSUME IInv, FwriteReturns
  PROVE  IInv'
<1>1. /\ TypeOK /\ Passing /\ Stands /\ Writing /\ Marked /\ HeaderIntact
      /\ WritesWithin(Limit)
  BY DEF IInv
<1>2. /\ Running("fwrite") /\ pass.over /\ call.op = "fwrite" /\ call.busy /\ call' = Result
      /\ stream' = stream /\ pass' = pass /\ disk' = disk /\ wild' = wild /\ calls' = calls
      /\ before' = before /\ payload' = payload /\ failed' = failed /\ ~Grown
  BY DEF FwriteReturns, Running, history
<1>3. /\ stream \in StreamTypes /\ pass \in PassTypes /\ disk \in Cards /\ before \in Cards
      /\ wild \in BOOLEAN /\ failed \in BOOLEAN /\ calls \in Nat /\ payload \in Seq(Data)
      /\ (wild => failed)
  BY <1>1 DEF TypeOK
<1>4. /\ call' \in CallTypes /\ call'.op = call.op /\ call'.busy = FALSE
      /\ call'.start = call.start /\ call'.bytes = call.bytes /\ call'.len = call.len
      /\ call'.total = pass.total
  BY <1>1, <1>2, ResultFacts
<1>5. \A o : ~Running(o)'
  BY <1>4 DEF Running
<1>6. TypeOK'
  <2>1. wild' \in BOOLEAN /\ failed' \in BOOLEAN /\ (wild' => failed')
    BY <1>2, <1>3
  <2>2. QED
    BY <1>2, <1>3, <1>4, <2>1, TypesHold
<1>7. Stands'
  <2>1. ~Running("mark")
    BY <1>2 DEF Running
  <2>2. QED
    BY <1>1, <1>2, <1>5, <2>1 DEF Stands
<1>8. PassesFrom' = PassesFrom
  BY <1>2 DEF PassesFrom
<1>9. Passing'
  <2>1. /\ call.start \in -1 .. Word - 1 /\ PassesFrom = call.start % Word
        /\ stream.pos = call.start + pass.total
    BY <1>1, <1>2 DEF Passing
  <2>2. QED
    BY <1>2, <1>4, <1>8, <2>1 DEF Passing
<1>10. Reading' /\ ReadsFile'
  BY <1>2, <1>4, <1>5 DEF Reading, ReadsFile
<1>11. Writing'
  BY <1>1, <1>2, <1>4, <1>5 DEF Writing
<1>12. Marked'
  <2>1. ~Running("mark")
    BY <1>2 DEF Running
  <2>2. QED
    BY <1>1, <1>2, <1>4, <1>5, <2>1 DEF Marked
<1>13. HeaderIntact'
  BY <1>1, <1>2 DEF HeaderIntact, HasBom
<1>14. WritesWithin(Limit)'
  <2>1. ~failed => \A i \in 1 .. pass.total : Byte(disk, call.start + i - 1) = payload[i]
    BY <1>1, <1>2 DEF WritesWithin
  <2>2. \A p \in Address :
          \/ Byte(disk, p) = Byte(before, p)
          \/ p < Limit /\ p \in call.start .. call.start + call.bytes - 1
    BY <1>1, <1>2 DEF WritesWithin
  <2>3. QED
    BY <1>2, <1>4, <1>5, <2>1, <2>2 DEF WritesWithin
<1>15. QED
  BY <1>6, <1>7, <1>9, <1>10, <1>11, <1>12, <1>13, <1>14 DEF IInv

\* The mark is written behind a file that has grown.
LEMMA BeginMarkKeeps ==
  ASSUME IInv, BeginMark
  PROVE  IInv'
<1> DEFINE p == WritePos
<1>1. /\ TypeOK /\ Passing /\ Stands /\ Writing /\ Marked /\ HeaderIntact
      /\ WritesWithin(Limit)
  BY DEF IInv
<1>2. /\ Running("fwrite") /\ pass.over /\ call.op = "fwrite" /\ call.busy /\ Grown
      /\ call' = [Result EXCEPT !.busy = TRUE, !.op = "mark", !.len = stream.len]
      /\ stream' = [stream EXCEPT !.pos = p] /\ BeginPasses(p, Len(eof_mark), eof_mark)
      /\ disk' = disk /\ wild' = wild /\ calls' = calls
      /\ before' = before /\ payload' = payload /\ failed' = failed
  BY DEF BeginMark, BeginFwrite, Running, history
<1>3. /\ stream \in StreamTypes /\ disk \in Cards /\ before \in Cards
      /\ wild \in BOOLEAN /\ failed \in BOOLEAN /\ calls \in Nat /\ payload \in Seq(Data)
      /\ (wild => failed)
  BY <1>1 DEF TypeOK
<1>4. /\ stream.pos \in Int /\ stream.len \in Nat /\ call.start \in Int /\ call.len \in Int
      /\ pass.total \in Int
  BY <1>1 DEF TypeOK, StreamTypes, CallTypes, PassTypes
<1>5. \A o : Running(o) <=> o = "fwrite"
  BY <1>2 DEF Running
<1>6. /\ call' \in CallTypes /\ call'.op = "mark" /\ call'.busy = TRUE
      /\ call'.start = call.start /\ call'.bytes = call.bytes /\ call'.len = stream.len
      /\ call'.total = pass.total
  <2> DEFINE c == Result
  <2>1. /\ c \in CallTypes /\ c.start = call.start /\ c.bytes = call.bytes
        /\ c.total = pass.total
    BY <1>1, ResultFacts
  <2>2. stream.len \in Int
    BY <1>4
  <2>3. call' = [c EXCEPT !.busy = TRUE, !.op = "mark", !.len = stream.len]
    BY <1>2
  <2> HIDE DEF c
  <2>4. QED
    BY <2>1, <2>2, <2>3 DEF CallTypes
<1>7. \A o : Running(o)' <=> o = "mark"
  BY <1>6 DEF Running
<1>8. /\ stream.pos \in -1 .. stream.len /\ stream.len < Word /\ stream.open
      /\ ~wild => BomLen <= stream.pos /\ stream.len <= Limit
  <2>1. stream.open
    BY <1>1, <1>2 DEF Passing
  <2>2. QED
    BY <1>1, <1>5, <2>1 DEF Stands
<1>9. p \in {stream.pos, stream.len}
  BY DEF WritePos
<1>10. p \in Int /\ (~wild => p \in Nat /\ BomLen <= p /\ p <= Limit)
  BY <1>4, <1>8, <1>9, SizesFit
<1> HIDE DEF p
<1>11. /\ stream' \in StreamTypes /\ stream'.open = stream.open /\ stream'.len = stream.len
  BY <1>2, <1>3, <1>10 DEF StreamTypes
<1>12. /\ pass' \in PassTypes
       /\ PassesFrom' = p % Word /\ PassesUpto' = (p + MarkLen) % Word
       /\ PassesUpto' = (PassesFrom' + MarkLen) % Word
       /\ pass'.buf = eof_mark /\ pass'.total = 0 /\ pass'.failed = FALSE
       /\ pass'.over => PassesUpto' < PassesFrom'
       /\ ~pass'.over => pass'.cur \in pass'.first .. pass'.last
       /\ Reached' = PassesFrom'
  <2>1. eof_mark \in Seq(Bytes) /\ Len(eof_mark) = MarkLen /\ MarkLen \in Nat
    BY MarkFacts, SizesFit
  <2>2. BeginPasses(p, MarkLen, eof_mark)
    BY <1>2, <2>1
  <2>3. QED
    BY <1>10, <2>1, <2>2, PassesBegin
<1>13. ~wild => PassesFrom' = p /\ PassesUpto' = p + MarkLen
  BY <1>10, <1>12, MarkFits
<1>14. TypeOK'
  <2>1. wild' \in BOOLEAN /\ failed' \in BOOLEAN /\ (wild' => failed')
    BY <1>2, <1>3
  <2>2. QED
    BY <1>2, <1>3, <1>6, <1>11, <1>12, <2>1, TypesHold
<1>15. Stands'
  <2>1. call'.len \in 0 .. Word - 1
    BY <1>4, <1>6, <1>8, SizesFit
  <2>2. ~wild => call'.len \in BomLen .. Limit
    BY <1>4, <1>6, <1>8, SizesFit
  <2>3. QED
    BY <1>2, <1>7, <2>1, <2>2 DEF Stands
<1>16. Passing'
  <2>1. Asked' = MarkLen
    BY <1>7, <1>12, MarkFacts DEF Asked
  <2>2. PassesFrom' \in Int
    BY <1>10, <1>12, Wraps
  <2>3. pass'.total = Reached' - PassesFrom'
    BY <1>12, <2>2
  <2>4. QED
    BY <1>6, <1>7, <1>12, <2>1, <2>3 DEF Passing
<1>17. Reading' /\ ReadsFile'
  BY <1>6, <1>7 DEF Reading, ReadsFile
<1>18. ~failed => ~wild
  BY <1>3
<1>19. ~failed => p = stream.len
  <2>1. ~failed => stream.len = IF stream.pos > call.len THEN stream.pos ELSE call.len
    BY <1>1, <1>2 DEF Writing
  <2>2. stream.len > call.len
    BY <1>2 DEF Grown
  <2>3. QED
    BY <1>4, <1>9, <2>1, <2>2
<1>20. ~failed => call.start \in Nat /\ stream.len = call.start + pass.total
  <2>1. stream.pos = call.start + pass.total /\ (wild \/ call.start >= BomLen)
    BY <1>1, <1>2 DEF Passing
  <2>2. ~wild => call.start \in Nat
    BY <1>4, <2>1, SizesFit
  <2>3. ~failed => stream.len = IF stream.pos > call.len THEN stream.pos ELSE call.len
    BY <1>1, <1>2 DEF Writing
  <2>4. stream.len > call.len
    BY <1>2 DEF Grown
  <2>5. ~failed => stream.len = stream.pos
    BY <1>4, <2>3, <2>4
  <2>6. QED
    BY <1>18, <2>1, <2>2, <2>5
<1>21. Writing'
  <2>1. wild' \/ PassesFrom' >= BomLen
    BY <1>2, <1>10, <1>13, SizesFit
  <2>2. ~failed' => /\ call'.start \in Nat
                    /\ PassesFrom' = call'.len /\ PassesFrom' = call'.start + call'.total
    BY <1>2, <1>6, <1>13, <1>18, <1>19, <1>20
  <2>3. QED
    BY <1>6, <1>7, <1>12, <2>1, <2>2 DEF Writing
<1>22. Marked'
  <2>1. ~failed => ~pass'.over
    <3>1. ~failed => PassesFrom' = p /\ PassesUpto' = p + MarkLen /\ p \in Nat
      BY <1>10, <1>13, <1>18
    <3>2. ~failed => ~(PassesUpto' < PassesFrom')
      BY <3>1, SizesFit
    <3>3. QED
      BY <1>12, <3>2
  <2>2. \A i \in 1 .. pass'.total : FALSE
    BY <1>12
  <2>3. QED
    BY <1>2, <1>6, <1>7, <2>1, <2>2 DEF Marked
<1>23. HeaderIntact'
  BY <1>1, <1>2, <1>11 DEF HeaderIntact, HasBom
<1>24. WritesWithin(Limit)'
  <2>1. ~failed => \A i \in 1 .. pass.total : Byte(disk, call.start + i - 1) = payload[i]
    BY <1>1, <1>2 DEF WritesWithin
  <2>2. \A q \in Address :
          \/ Byte(disk, q) = Byte(before, q)
          \/ q < Limit /\ q \in call.start .. call.start + call.bytes - 1
    BY <1>1, <1>2 DEF WritesWithin
  <2>3. QED
    BY <1>2, <1>6, <1>7, <2>1, <2>2 DEF WritesWithin
<1>25. QED
  BY <1>14, <1>15, <1>16, <1>17, <1>21, <1>22, <1>23, <1>24 DEF IInv

\* And then the file ends in front of it again.
LEMMA MarkReturnsKeeps ==
  ASSUME IInv, MarkReturns
  PROVE  IInv'
<1>1. /\ TypeOK /\ Passing /\ Stands /\ Writing /\ Marked /\ HeaderIntact
      /\ WritesWithin(Limit)
  BY DEF IInv
<1>2. /\ Running("mark") /\ pass.over /\ call.op = "mark" /\ call.busy
      /\ stream' = [stream EXCEPT !.pos = call.len, !.len = call.len]
      /\ call' = [call EXCEPT !.busy = FALSE]
      /\ pass' = pass /\ disk' = disk /\ wild' = wild /\ calls' = calls
      /\ before' = before /\ payload' = payload /\ failed' = failed
  BY DEF MarkReturns, Running, history
<1>3. /\ stream \in StreamTypes /\ call \in CallTypes /\ pass \in PassTypes
      /\ disk \in Cards /\ before \in Cards /\ wild \in BOOLEAN /\ failed \in BOOLEAN
      /\ calls \in Nat /\ payload \in Seq(Data) /\ (wild => failed)
  BY <1>1 DEF TypeOK
<1>4. call.len \in 0 .. Word - 1 /\ (~wild => call.len \in BomLen .. Limit)
  BY <1>1, <1>2 DEF Stands
<1>5. call.len \in Nat /\ call.len \in Int /\ call.len < Word /\ pass.total \in Int
  BY <1>3, <1>4, SizesFit DEF PassTypes
<1>6. /\ stream' \in StreamTypes /\ stream'.open = stream.open
      /\ stream'.pos = call.len /\ stream'.len = call.len
  BY <1>2, <1>3, <1>5 DEF StreamTypes
<1>7. /\ call' \in CallTypes /\ call'.op = call.op /\ call'.busy = FALSE
      /\ call'.start = call.start /\ call'.bytes = call.bytes /\ call'.len = call.len
      /\ call'.total = call.total
  BY <1>2, <1>3, EndedFacts
<1>8. \A o : ~Running(o)'
  BY <1>7 DEF Running
<1>9. PassesFrom' = PassesFrom
  BY <1>2 DEF PassesFrom
<1>10. TypeOK'
  <2>1. wild' \in BOOLEAN /\ failed' \in BOOLEAN /\ (wild' => failed')
    BY <1>2, <1>3
  <2>2. QED
    BY <1>2, <1>3, <1>6, <1>7, <2>1, TypesHold
<1>11. Stands'
  <2>1. stream'.pos \in -1 .. stream'.len /\ stream'.len < Word
    BY <1>5, <1>6
  <2>2. ~wild => BomLen <= stream'.pos /\ stream'.len <= Limit
    BY <1>4, <1>5, <1>6, SizesFit
  <2>3. QED
    BY <1>2, <1>8, <2>1, <2>2 DEF Stands
<1>12. Passing' /\ Reading' /\ ReadsFile'
  BY <1>2, <1>7, <1>8 DEF Passing, Reading, ReadsFile
<1>13. ~failed => /\ call.start \in Nat
                  /\ PassesFrom = call.len /\ PassesFrom = call.start + call.total
  BY <1>1, <1>2 DEF Writing
<1>14. Writing'
  BY <1>2, <1>6, <1>7, <1>8, <1>9, <1>13 DEF Writing
<1>15. ~failed => /\ \A i \in 1 .. pass.total :
                       /\ PassesFrom + i - 1 \in Address
                       /\ Byte(disk, PassesFrom + i - 1) = eof_mark[i]
                  /\ pass.total = MarkLen \/ PassesFrom + pass.total >= Limit
  BY <1>1, <1>2 DEF Marked
<1>16. Marked'
  <2>1. ASSUME ~failed, call.len < Limit
        PROVE  call.len \in Address /\ Byte(disk, call.len) = Eof
    <3>1. PassesFrom = call.len
      BY <1>13, <2>1
    <3>2. 1 \in 1 .. pass.total
      BY <1>5, <1>15, <2>1, <3>1, SizesFit
    <3>3. PassesFrom + 1 - 1 \in Address /\ Byte(disk, PassesFrom + 1 - 1) = eof_mark[1]
      BY <1>15, <2>1, <3>2
    <3>4. PassesFrom + 1 - 1 = call.len
      BY <1>5, <3>1
    <3>5. eof_mark[1] = Eof
      <4>1. 1 \in 1 .. MarkLen
        BY SizesFit
      <4>2. QED
        BY <4>1 DEF eof_mark
    <3>6. QED
      BY <3>3, <3>4, <3>5
  <2>2. QED
    BY <1>2, <1>6, <1>7, <1>8, <1>9, <1>15, <2>1 DEF Marked
<1>17. HeaderIntact'
  BY <1>1, <1>2, <1>6 DEF HeaderIntact, HasBom
<1>18. WritesWithin(Limit)'
  <2>1. ~Running("fwrite")
    BY <1>2 DEF Running
  <2>2. ~failed => \A i \in 1 .. call.total : Byte(disk, call.start + i - 1) = payload[i]
    BY <1>1, <1>2, <2>1 DEF WritesWithin
  <2>3. \A q \in Address :
          \/ Byte(disk, q) = Byte(before, q)
          \/ /\ q < Limit
             /\ \/ q \in call.start .. call.start + call.bytes - 1
                \/ q \in PassesFrom .. PassesFrom + MarkLen - 1
    BY <1>1, <1>2 DEF WritesWithin
  <2>4. QED
    BY <1>2, <1>7, <1>8, <1>9, <2>2, <2>3 DEF WritesWithin
<1>19. QED
  BY <1>10, <1>11, <1>12, <1>14, <1>16, <1>17, <1>18 DEF IInv

\* A call of fwrite begins at the position, or at the end.
LEMMA FwriteKeeps ==
  ASSUME IInv, NEW data \in Payloads, NEW size \in Sizes, Fwrite(data, size)
  PROVE  IInv'
<1> DEFINE p == WritePos
           w == Whole(size, Len(data))
           bytes == SubSeq(data, 1, w)
<1>1. TypeOK /\ Passing /\ Stands /\ Marked /\ HeaderIntact
  BY DEF IInv
<1>2. /\ stream.open /\ ~call.busy /\ calls' = calls + 1 /\ before' = disk
      /\ disk' = disk /\ wild' = wild /\ failed' = failed
  BY DEF Fwrite, Begins
<1>3. /\ call' = NewCall("fwrite", p, size, Len(bytes)) /\ payload' = bytes
      /\ stream' = [stream EXCEPT !.pos = p] /\ BeginPasses(p, Len(bytes), bytes)
  BY DEF Fwrite, BeginFwrite
<1>4. /\ stream \in StreamTypes /\ disk \in Cards /\ wild \in BOOLEAN /\ failed \in BOOLEAN
      /\ calls \in Nat /\ (wild => failed)
  BY <1>1 DEF TypeOK
<1>5. stream.pos \in Int /\ stream.len \in Nat
  BY <1>4 DEF StreamTypes
<1>6. \A o : ~Running(o)
  BY <1>2 DEF Running
<1>7. /\ stream.pos \in -1 .. stream.len /\ stream.len < Word
      /\ ~wild => BomLen <= stream.pos /\ stream.len <= Limit
  BY <1>1, <1>2, <1>6 DEF Stands
<1>8. p \in {stream.pos, stream.len} /\ (stream.mode = "a+" => p = stream.len)
  BY DEF WritePos, VFS_MODE_APPEND, VFS_MODE_R
<1>9. /\ p \in Int /\ p \in -1 .. stream.len /\ p \in -1 .. Word - 1
      /\ ~wild => BomLen <= p
  BY <1>5, <1>7, <1>8, SizesFit
<1>10. bytes \in Seq(Data) /\ Len(bytes) \in Nat
  <2>1. data \in Seq(Data) /\ size \in Nat \ {0} /\ Len(data) \in Nat
    BY NofsAssumption
  <2>2. w \in 0 .. Len(data)
    BY <2>1, WholeMembers
  <2> HIDE DEF w
  <2>3. QED
    BY <2>1, <2>2
<1> HIDE DEF p, bytes
<1>11. bytes \in Seq(Bytes)
  BY <1>10 DEF Bytes
<1>12. /\ call' \in CallTypes /\ call'.op = "fwrite" /\ call'.busy = TRUE /\ call'.start = p
       /\ call'.bytes = Len(bytes) /\ call'.len = stream.len /\ call'.failed = FALSE
  <2>1. size \in Nat \ {0}
    BY NofsAssumption
  <2>2. QED
    BY <1>3, <1>4, <1>9, <1>10, <2>1, NewCallFacts
<1>13. /\ pass' \in PassTypes
       /\ PassesFrom' = p % Word /\ PassesUpto' = (PassesFrom' + Len(bytes)) % Word
       /\ pass'.buf = bytes /\ pass'.total = 0 /\ pass'.failed = FALSE
       /\ ~pass'.over => pass'.cur \in pass'.first .. pass'.last
       /\ Reached' = PassesFrom'
  BY <1>3, <1>9, <1>10, <1>11, PassesBegin
<1>14. \A o : Running(o)' <=> o = "fwrite"
  BY <1>12 DEF Running
<1>15. /\ stream' \in StreamTypes /\ stream'.open = stream.open /\ stream'.pos = p
       /\ stream'.len = stream.len /\ stream'.mode = stream.mode
  BY <1>3, <1>4, <1>9 DEF StreamTypes
<1>16. TypeOK'
  <2>1. calls' \in Nat /\ payload' \in Seq(Data)
    BY <1>2, <1>3, <1>4, <1>10
  <2>2. wild' \in BOOLEAN /\ failed' \in BOOLEAN /\ (wild' => failed')
    BY <1>2, <1>4
  <2>3. QED
    BY <1>2, <1>4, <1>12, <1>13, <1>15, <2>1, <2>2, TypesHold
<1>17. Stands'
  BY <1>2, <1>7, <1>9, <1>14, <1>15 DEF Stands
<1>18. Passing'
  <2>1. Asked' = Len(bytes)
    BY <1>13, <1>14 DEF Asked
  <2>2. PassesFrom' \in Int
    BY <1>9, <1>13, Wraps
  <2>3. pass'.total = Reached' - PassesFrom'
    BY <1>13, <2>2
  <2>4. stream'.pos = call'.start + pass'.total
    BY <1>9, <1>12, <1>13, <1>15
  <2>5. wild' \/ call'.start >= BomLen
    BY <1>2, <1>9, <1>12, SizesFit
  <2>6. call'.start \in -1 .. Word - 1 /\ PassesFrom' = call'.start % Word
    BY <1>9, <1>12, <1>13
  <2>7. QED
    BY <1>2, <1>13, <1>14, <1>15, <2>1, <2>3, <2>4, <2>5, <2>6 DEF Passing
<1>19. Reading' /\ ReadsFile'
  BY <1>12, <1>14 DEF Reading, ReadsFile
<1>20. Writing'
  <2>1. stream'.len = IF stream'.pos > call'.len THEN stream'.pos ELSE call'.len
    BY <1>5, <1>9, <1>12, <1>15
  <2>2. stream'.mode = "a+" => call'.start = call'.len
    BY <1>8, <1>12, <1>15 DEF p
  <2>3. QED
    BY <1>3, <1>12, <1>13, <1>14, <2>1, <2>2 DEF Writing
<1>21. Marked'
  BY <1>1, <1>2, <1>6, <1>12, <1>14, <1>15 DEF Marked
<1>22. HeaderIntact'
  BY <1>1, <1>2, <1>15 DEF HeaderIntact, HasBom
<1>23. WritesWithin(Limit)'
  <2>1. \A i \in 1 .. pass'.total : FALSE
    BY <1>13
  <2>2. QED
    BY <1>2, <1>12, <1>14, <2>1 DEF WritesWithin
<1>24. QED
  BY <1>16, <1>17, <1>18, <1>19, <1>20, <1>21, <1>22, <1>23 DEF IInv

(***************************************************************************)
(* The theorems.                                                           *)
(***************************************************************************)

\* Before the first call nothing is open.
LEMMA InitIInv == Init => IInv
<1> SUFFICES ASSUME Init PROVE IInv
  OBVIOUS
<1>1. /\ stream = Closed /\ call = NoCall /\ pass = NoPass /\ disk \in Disks
      /\ wild = FALSE /\ calls = 0 /\ before = disk /\ payload = <<>> /\ failed = FALSE
  BY DEF Init
<1>2. /\ call \in CallTypes /\ call.op = "none" /\ pass \in PassTypes /\ pass.over = TRUE
  BY <1>1, NoneFacts
<1>3. stream \in StreamTypes /\ stream.open = FALSE /\ stream.pos = 0 /\ stream.len = 0
  <2>1. "r" \in Modes
    BY DEF Modes
  <2>2. QED
    BY <1>1, <2>1, ClosedFacts
<1>4. disk \in Cards /\ before \in Cards
  BY <1>1, NofsAssumption
<1>5. wild \in BOOLEAN /\ failed \in BOOLEAN /\ ~wild
  BY <1>1
<1>6. calls \in Nat /\ payload \in Seq(Data)
  BY <1>1
<1>7. TypeOK
  BY <1>2, <1>3, <1>4, <1>5, <1>6 DEF TypeOK
<1>8. \A o : o # "none" => ~Running(o)
  BY <1>2 DEF Running
<1>9. Stands
  <2>1. 0 < Word
    BY SizesFit
  <2>2. QED
    BY <1>3, <1>8, <2>1 DEF Stands
<1>10. Passing /\ Reading /\ Writing /\ ReadsFile /\ WritesWithin(Limit)
  BY <1>2, <1>8 DEF Passing, Reading, Writing, ReadsFile, WritesWithin
<1>11. Marked /\ HeaderIntact
  BY <1>2, <1>3 DEF Marked, HeaderIntact
<1>12. QED
  BY <1>7, <1>9, <1>10, <1>11 DEF IInv

\* Every call and every step keeps it.
LEMMA NextIInv == IInv /\ [Next]_vars => IInv'
<1> SUFFICES ASSUME IInv, [Next]_vars PROVE IInv'
  OBVIOUS
<1>1. ASSUME NEW mode \in UsedModes, Fopen(mode) \/ FopenNew(mode) \/ FopenAppend(mode)
      PROVE  IInv'
  BY <1>1, FopenKeeps, FopenNewKeeps, FopenAppendKeeps
<1>2. FopenFails \/ Fclose => IInv'
  BY FopenFailsKeeps, FcloseKeeps
<1>3. ASSUME NEW n \in Counts, NEW size \in Sizes, Fread(size, n) PROVE IInv'
  BY <1>3, FreadKeeps
<1>4. ASSUME NEW data \in Payloads, NEW size \in Sizes, Fwrite(data, size) PROVE IInv'
  BY <1>4, FwriteKeeps
<1>5. ASSUME NEW offset \in Offsets, NEW whence \in {"SEEK_SET", "SEEK_END", "SEEK_CUR"},
             Fseek(offset, whence)
      PROVE  IInv'
  BY <1>5, FseekKeeps
<1>6. Calls => IInv'
  BY <1>1, <1>2, <1>3, <1>4, <1>5 DEF Calls
<1>7. Step => IInv'
  BY SearchPassKeeps, FreadStepKeeps, FreadReturnsKeeps, FwriteStepKeeps, FwriteReturnsKeeps,
     BeginMarkKeeps, MarkReturnsKeeps DEF Step
<1>8. UNCHANGED vars => IInv'
  BY StutterKeeps
<1>9. QED
  BY <1>6, <1>7, <1>8 DEF Next

\* The position, the passes, the bytes counted and the marks of a raw file belong
\* together, whatever was called (nofs.c, and fs_fread and fs_fwrite of libfs.c).
THEOREM FileInvariant == Spec => []IInv
  BY InitIInv, NextIInv, PTL DEF Spec

\* Files of nofs.c stay between their two marks, unless the card fails.
THEOREM FileIsFramed == Spec => []Framed
<1>1. IInv => Framed
  <2> SUFFICES ASSUME IInv PROVE Framed
    OBVIOUS
  <2>1. TypeOK /\ Passing /\ Writing /\ Marked /\ HeaderIntact /\ Stands
    BY DEF IInv
  <2>2. ASSUME stream.open, ~call.busy, ~failed, stream.len > BomLen, NEW i \in 1 .. MarkLen,
               stream.len + i - 1 < Limit, i = 1 \/ call.op = "mark"
        PROVE  Byte(disk, stream.len + i - 1) = eof_mark[i]
    <3>1. stream.len \in Nat /\ pass.total \in Int /\ i \in Nat
      BY <2>1, SizesFit DEF TypeOK, StreamTypes, PassTypes
    <3>2. \A o : ~Running(o)
      BY <2>2 DEF Running
    <3>3. CASE i = 1
      <4>1. stream.len + i - 1 = stream.len /\ stream.len < Limit /\ BomLen < stream.len
        BY <2>2, <3>1, <3>3, SizesFit
      <4>2. Byte(disk, stream.len) = Eof
        BY <2>1, <2>2, <3>2, <4>1 DEF Marked
      <4>3. eof_mark[1] = Eof
        BY <2>2, <3>3 DEF eof_mark
      <4>4. QED
        BY <3>3, <4>1, <4>2, <4>3
    <3>4. CASE call.op = "mark"
      <4>1. pass.over
        BY <2>1, <2>2, PassesOver
      <4>2. PassesFrom = stream.len
        BY <2>1, <2>2, <3>4 DEF Writing
      <4>3. /\ \A j \in 1 .. pass.total : Byte(disk, PassesFrom + j - 1) = eof_mark[j]
            /\ pass.total = MarkLen \/ PassesFrom + pass.total >= Limit
        BY <2>1, <2>2, <3>4, <4>1 DEF Marked
      <4>4. i \in 1 .. pass.total
        BY <2>2, <3>1, <4>2, <4>3, SizesFit
      <4>5. QED
        BY <4>2, <4>3, <4>4
    <3>5. QED
      BY <2>2, <3>3, <3>4
  <2>3. EndMarked
    BY <2>2 DEF EndMarked
  <2>4. QED
    BY <2>1, <2>3 DEF Framed
<1>2. QED
  BY <1>1, FileInvariant, PTL

\* fread returns the bytes of the file from the position, and moves the position by
\* what it has counted, also when the card fails.
THEOREM ReadsAreRight == Spec => []ReadsFile
<1>1. IInv => ReadsFile
  BY DEF IInv
<1>2. QED
  BY <1>1, FileInvariant, PTL

\* fwrite puts the bytes in their place and changes no others, and none of the next
\* partition, when the partition has room for as many blocks as a block has bytes:
\* nofs_get_next_bdev_block_num bounds a file by the size of a block, and not by the
\* partition.
THEOREM WritesInRange == ASSUME BlockSize <= NumBlocks PROVE Spec => []WritesRange
<1>1. Limit <= NumBlocks * BlockSize /\ Limit \in Nat /\ NumBlocks * BlockSize \in Nat
  <2>1. BlockSize \in Nat /\ NumBlocks \in Nat /\ BlockSize \in Nat \ {0}
    BY SizesFit, NofsAssumption
  <2>2. \A m, n \in Nat : m < n => m * BlockSize + BlockSize <= n * BlockSize
    BY <2>1, Multiples
  <2>3. BlockSize < NumBlocks => BlockSize * BlockSize + BlockSize <= NumBlocks * BlockSize
    BY <2>1, <2>2
  <2>4. BlockSize = NumBlocks => BlockSize * BlockSize = NumBlocks * BlockSize
    OBVIOUS
  <2>5. BlockSize * BlockSize \in Nat /\ NumBlocks * BlockSize \in Nat
    BY <2>1
  <2> DEFINE m == BlockSize * BlockSize
             n == NumBlocks * BlockSize
  <2> HIDE DEF m, n
  <2>6. /\ m \in Nat /\ n \in Nat /\ (BlockSize < NumBlocks => m + BlockSize <= n)
        /\ BlockSize = NumBlocks => m = n
    BY <2>3, <2>4, <2>5 DEF m, n
  <2>7. m <= n
    BY <2>1, <2>6
  <2>8. QED
    BY <2>6, <2>7 DEF m, n, Limit
<1>2. IInv => WritesRange
  <2> SUFFICES ASSUME IInv PROVE WritesRange
    OBVIOUS
  <2>1. WritesWithin(Limit)
    BY DEF IInv
  <2>2. DiskBlocks * BlockSize \in Nat
    BY SizesFit
  <2>3. \A p \in Address : p < Limit => p < NumBlocks * BlockSize
    <3> DEFINE n == NumBlocks * BlockSize
    <3>1. \A p \in Address : p \in Nat
      BY <2>2 DEF Address
    <3>2. n \in Nat /\ Limit \in Nat /\ Limit <= n
      BY <1>1
    <3> HIDE DEF n
    <3>3. \A p \in Address : p < Limit => p < n
      BY <3>1, <3>2
    <3>4. QED
      BY <3>3 DEF n
  <2>4. QED
    BY <2>1, <2>3 DEF WritesRange, WritesWithin
<1>3. QED
  BY <1>2, FileInvariant, PTL

\* In the mode "a+" no byte in front of the end is written over.
THEOREM AppendsBehind == Spec => []AppendsAtEnd
<1>1. IInv => AppendsAtEnd
  <2> SUFFICES ASSUME IInv, stream.open, stream.mode = "a+", call.op = "fwrite",
                      NEW p \in Address, p < call.len
               PROVE  Byte(disk, p) = Byte(before, p)
    BY DEF AppendsAtEnd
  <2>1. call.start = call.len
    BY DEF IInv, Writing
  <2>2. \/ Byte(disk, p) = Byte(before, p)
        \/ p \in call.start .. call.start + call.bytes - 1
    BY DEF IInv, WritesWithin
  <2>3. p \in Int /\ call.len \in Int /\ call.bytes \in Nat
    <3>1. DiskBlocks * BlockSize \in Nat
      BY SizesFit
    <3>2. QED
      BY <3>1 DEF Address, IInv, TypeOK, CallTypes
  <2>4. QED
    BY <2>1, <2>2, <2>3
<1>2. QED
  BY <1>1, FileInvariant, PTL

================================================================================
