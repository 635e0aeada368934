--------------------------- MODULE MachineProofs ---------------------------
(***************************************************************************)
(* Proof that the machine of module Machine keeps its words, its bitmap    *)
(* and its page tables sound (TypeOK), for all programs, command lines and *)
(* inputs: no instruction reaches a word of the operating system, and its  *)
(* calls hand out frames of their own only.                                *)
(***************************************************************************)
EXTENDS Machine, NaturalsInduction, WellFoundedInduction, TLAPS

-----------------------------------------------------------------------------
(* Bits                                                                     *)

\* A set of numbers has a least one.
LEMMA LeastOne ==
    ASSUME NEW S \in SUBSET Nat, S # {}
    PROVE  \E n \in S : \A m \in S : n <= m
<1>1. IsWellFoundedOn(OpToRel(<, Nat), Nat)
  BY NatLessThanWellFounded
<1>2. PICK n \in S : \A m \in S : <<m, n>> \notin OpToRel(<, Nat)
  BY <1>1, WFMin
<1>3. \A m \in S : ~(m < n)
  BY <1>2 DEF OpToRel
<1> QED
  BY <1>3

\* A bit is 0 or 1.
LEMMA BitIsBinary == ASSUME NEW w \in Word, NEW k \in 0..15 PROVE Bit(w, k) \in {0, 1}
<1>1. (w \div 2^k) % 2^1 \in {0, 1}
  BY SMTT(30) DEF Word
<1> QED
  BY <1>1 DEF Bit, Field

\* The number with four bits.
Nibble(a, b, c, d) == a + 2 * b + 4 * c + 8 * d

LEMMA BitsOfNibble ==
    ASSUME NEW a \in {0, 1}, NEW b \in {0, 1}, NEW c \in {0, 1}, NEW d \in {0, 1}
    PROVE  LET q == Nibble(a, b, c, d)
           IN  q \in Int /\ 0 <= q /\ q <= 15
               /\ Bit(q, 0) = a /\ Bit(q, 1) = b /\ Bit(q, 2) = c /\ Bit(q, 3) = d
<1> USE DEF Nibble, Bit, Field
<1>1. CASE a = 0
  BY <1>1
<1>2. CASE a = 1
  BY <1>2
<1> QED
  BY <1>1, <1>2

LEMMA InRange == ASSUME NEW n \in Int, NEW w \in Int, 0 <= w, w <= n PROVE w \in 0..n
  OBVIOUS

\* A number of 16 bits is a word: with the number named, because the provers
\* count a long interval out.
LEMMA InWord == ASSUME NEW w \in Int, 0 <= w, w <= 65535 PROVE w \in Word
<1>1. PICK n \in Int : n = 65535
  OBVIOUS
<1>2. w <= n
  BY <1>1
<1>3. w \in 0..n
  BY <1>2, InRange
<1>4. Word = 0..n
  BY <1>1 DEF Word
<1> QED
  BY <1>3, <1>4

LEMMA WordBounds == ASSUME NEW w \in Word PROVE w \in Int /\ 0 <= w /\ w <= 65535
  BY SMTT(30) DEF Word

\* The word with four nibbles.
Nibbles(q, r, s, t) == q + 16 * r + 256 * s + 4096 * t

\* Its bits are theirs.
Spelt(w, q, r, s, t) ==
    /\ Bit(w, 0) = Bit(q, 0) /\ Bit(w, 1) = Bit(q, 1)
    /\ Bit(w, 2) = Bit(q, 2) /\ Bit(w, 3) = Bit(q, 3)
    /\ Bit(w, 4) = Bit(r, 0) /\ Bit(w, 5) = Bit(r, 1)
    /\ Bit(w, 6) = Bit(r, 2) /\ Bit(w, 7) = Bit(r, 3)
    /\ Bit(w, 8) = Bit(s, 0) /\ Bit(w, 9) = Bit(s, 1)
    /\ Bit(w, 10) = Bit(s, 2) /\ Bit(w, 11) = Bit(s, 3)
    /\ Bit(w, 12) = Bit(t, 0) /\ Bit(w, 13) = Bit(t, 1)
    /\ Bit(w, 14) = Bit(t, 2) /\ Bit(w, 15) = Bit(t, 3)

LEMMA BitsOfWord ==
    ASSUME NEW q \in Int, NEW r \in Int, NEW s \in Int, NEW t \in Int,
           0 <= q, q <= 15, 0 <= r, r <= 15, 0 <= s, s <= 15, 0 <= t, t <= 15
    PROVE  Nibbles(q, r, s, t) \in Word /\ Spelt(Nibbles(q, r, s, t), q, r, s, t)
<1>1. PICK w \in Int : w = q + 16 * r + 256 * s + 4096 * t
  OBVIOUS
<1>2. 0 <= w /\ w <= 65535
  BY <1>1
<1>3. w \in Word
  BY <1>2, InWord
<1>4. Bit(w, 0) = Bit(q, 0) /\ Bit(w, 1) = Bit(q, 1)
  BY <1>1 DEF Bit, Field
<1>5. Bit(w, 2) = Bit(q, 2) /\ Bit(w, 3) = Bit(q, 3)
  BY <1>1 DEF Bit, Field
<1>6. Bit(w, 4) = Bit(r, 0) /\ Bit(w, 5) = Bit(r, 1)
  BY <1>1 DEF Bit, Field
<1>7. Bit(w, 6) = Bit(r, 2) /\ Bit(w, 7) = Bit(r, 3)
  BY <1>1 DEF Bit, Field
<1>8. Bit(w, 8) = Bit(s, 0) /\ Bit(w, 9) = Bit(s, 1)
  BY <1>1 DEF Bit, Field
<1>9. Bit(w, 10) = Bit(s, 2) /\ Bit(w, 11) = Bit(s, 3)
  BY <1>1 DEF Bit, Field
<1>10. Bit(w, 12) = Bit(t, 0) /\ Bit(w, 13) = Bit(t, 1)
  BY <1>1 DEF Bit, Field
<1>11. Bit(w, 14) = Bit(t, 2) /\ Bit(w, 15) = Bit(t, 3)
  BY <1>1 DEF Bit, Field
<1>12. Spelt(w, q, r, s, t)
  BY <1>4, <1>5, <1>6, <1>7, <1>8, <1>9, <1>10, <1>11 DEF Spelt
<1> QED
  BY <1>1, <1>3, <1>12 DEF Nibbles

\* The word that WordOfBits makes of the bits b.
FromBits(b) ==
    Nibbles(Nibble(b[0], b[1], b[2], b[3]), Nibble(b[4], b[5], b[6], b[7]),
            Nibble(b[8], b[9], b[10], b[11]), Nibble(b[12], b[13], b[14], b[15]))

\* It has these bits.
LEMMA BitsOfSum ==
    ASSUME NEW b \in [0..15 -> {0, 1}]
    PROVE  FromBits(b) \in Word /\ \A k \in 0..15 : Bit(FromBits(b), k) = b[k]
<1>1. \A k \in 0..15 : b[k] \in {0, 1}
  OBVIOUS
<1>2. PICK q \in Int : q = Nibble(b[0], b[1], b[2], b[3])
  BY <1>1, BitsOfNibble
<1>3. 0 <= q /\ q <= 15
      /\ Bit(q, 0) = b[0] /\ Bit(q, 1) = b[1]
      /\ Bit(q, 2) = b[2] /\ Bit(q, 3) = b[3]
  BY <1>1, <1>2, BitsOfNibble
<1>4. PICK r \in Int : r = Nibble(b[4], b[5], b[6], b[7])
  BY <1>1, BitsOfNibble
<1>5. 0 <= r /\ r <= 15
      /\ Bit(r, 0) = b[4] /\ Bit(r, 1) = b[5]
      /\ Bit(r, 2) = b[6] /\ Bit(r, 3) = b[7]
  BY <1>1, <1>4, BitsOfNibble
<1>6. PICK s \in Int : s = Nibble(b[8], b[9], b[10], b[11])
  BY <1>1, BitsOfNibble
<1>7. 0 <= s /\ s <= 15
      /\ Bit(s, 0) = b[8] /\ Bit(s, 1) = b[9]
      /\ Bit(s, 2) = b[10] /\ Bit(s, 3) = b[11]
  BY <1>1, <1>6, BitsOfNibble
<1>8. PICK t \in Int : t = Nibble(b[12], b[13], b[14], b[15])
  BY <1>1, BitsOfNibble
<1>9. 0 <= t /\ t <= 15
      /\ Bit(t, 0) = b[12] /\ Bit(t, 1) = b[13]
      /\ Bit(t, 2) = b[14] /\ Bit(t, 3) = b[15]
  BY <1>1, <1>8, BitsOfNibble
<1>10. FromBits(b) = Nibbles(q, r, s, t)
  BY <1>2, <1>4, <1>6, <1>8 DEF FromBits
<1>11. PICK w : w = FromBits(b)
  OBVIOUS
<1>12. w \in Word /\ Spelt(w, q, r, s, t)
  <2>1. Nibbles(q, r, s, t) \in Word /\ Spelt(Nibbles(q, r, s, t), q, r, s, t)
    BY <1>3, <1>5, <1>7, <1>9, BitsOfWord
  <2> QED
    BY <2>1, <1>10, <1>11
<1>13. \A k \in 0..15 : Bit(w, k) = b[k]
  BY <1>3, <1>5, <1>7, <1>9, <1>12 DEF Spelt
<1> QED
  BY <1>11, <1>12, <1>13

\* A nibble is made of its bits.
LEMMA NibbleOfBits ==
    ASSUME NEW q \in Int, 0 <= q, q <= 15
    PROVE  q = Nibble(Bit(q, 0), Bit(q, 1), Bit(q, 2), Bit(q, 3))
  BY DEF Nibble, Bit, Field

BitsOf(w) == [k \in 0..15 |-> Bit(w, k)]

\* A word is made of its nibbles.
LEMMA WordOfNibbles ==
    ASSUME NEW w \in Word
    PROVE  \E q \in Int, r \in Int, s \in Int, t \in Int :
              /\ 0 <= q /\ q <= 15 /\ 0 <= r /\ r <= 15 /\ 0 <= s /\ s <= 15 /\ 0 <= t /\ t <= 15
              /\ w = Nibbles(q, r, s, t)
<1>1. w \in Int /\ 0 <= w /\ w <= 65535
  BY WordBounds
<1>2. PICK q \in Int, x \in Int : 0 <= q /\ q <= 15 /\ 0 <= x /\ x <= 4095 /\ w = q + 16 * x
  <2>1. /\ w % 16 \in Int /\ 0 <= w % 16 /\ w % 16 <= 15
        /\ w \div 16 \in Int /\ 0 <= w \div 16 /\ w \div 16 <= 4095
        /\ w = (w % 16) + 16 * (w \div 16)
    BY <1>1
  <2> QED
    BY <2>1
<1>3. PICK r \in Int, y \in Int : 0 <= r /\ r <= 15 /\ 0 <= y /\ y <= 255 /\ x = r + 16 * y
  <2>1. /\ x % 16 \in Int /\ 0 <= x % 16 /\ x % 16 <= 15
        /\ x \div 16 \in Int /\ 0 <= x \div 16 /\ x \div 16 <= 255
        /\ x = (x % 16) + 16 * (x \div 16)
    BY <1>2
  <2> QED
    BY <2>1
<1>4. PICK s \in Int, t \in Int : 0 <= s /\ s <= 15 /\ 0 <= t /\ t <= 15 /\ y = s + 16 * t
  <2>1. /\ y % 16 \in Int /\ 0 <= y % 16 /\ y % 16 <= 15
        /\ y \div 16 \in Int /\ 0 <= y \div 16 /\ y \div 16 <= 15
        /\ y = (y % 16) + 16 * (y \div 16)
    BY <1>3
  <2> QED
    BY <2>1
<1>5. w = Nibbles(q, r, s, t)
  BY <1>2, <1>3, <1>4 DEF Nibbles
<1> QED
  BY <1>2, <1>3, <1>4, <1>5

\* A word is made of its bits.
LEMMA WordFromItsBits == ASSUME NEW w \in Word PROVE w = FromBits(BitsOf(w))
<1>1. PICK q \in Int, r \in Int, s \in Int, t \in Int :
         /\ 0 <= q /\ q <= 15 /\ 0 <= r /\ r <= 15 /\ 0 <= s /\ s <= 15 /\ 0 <= t /\ t <= 15
         /\ w = Nibbles(q, r, s, t)
  BY WordOfNibbles
<1>2. Spelt(w, q, r, s, t)
  BY <1>1, BitsOfWord
<1>3. /\ q = Nibble(Bit(w, 0), Bit(w, 1), Bit(w, 2), Bit(w, 3))
      /\ r = Nibble(Bit(w, 4), Bit(w, 5), Bit(w, 6), Bit(w, 7))
      /\ s = Nibble(Bit(w, 8), Bit(w, 9), Bit(w, 10), Bit(w, 11))
      /\ t = Nibble(Bit(w, 12), Bit(w, 13), Bit(w, 14), Bit(w, 15))
  <2>1. q = Nibble(Bit(q, 0), Bit(q, 1), Bit(q, 2), Bit(q, 3))
    BY <1>1, NibbleOfBits
  <2>2. r = Nibble(Bit(r, 0), Bit(r, 1), Bit(r, 2), Bit(r, 3))
    BY <1>1, NibbleOfBits
  <2>3. s = Nibble(Bit(s, 0), Bit(s, 1), Bit(s, 2), Bit(s, 3))
    BY <1>1, NibbleOfBits
  <2>4. t = Nibble(Bit(t, 0), Bit(t, 1), Bit(t, 2), Bit(t, 3))
    BY <1>1, NibbleOfBits
  <2> QED
    BY <1>2, <2>1, <2>2, <2>3, <2>4 DEF Spelt
<1>4. FromBits(BitsOf(w)) =
          Nibbles(Nibble(Bit(w, 0), Bit(w, 1), Bit(w, 2), Bit(w, 3)),
                  Nibble(Bit(w, 4), Bit(w, 5), Bit(w, 6), Bit(w, 7)),
                  Nibble(Bit(w, 8), Bit(w, 9), Bit(w, 10), Bit(w, 11)),
                  Nibble(Bit(w, 12), Bit(w, 13), Bit(w, 14), Bit(w, 15)))
  BY DEF FromBits, BitsOf
<1> QED
  BY <1>1, <1>3, <1>4

\* What taking away the value of a bit that is set leaves.
LEMMA ClearedBits ==
    ASSUME NEW w \in Word, NEW k \in 0..15, Bit(w, k) = 1
    PROVE  /\ w - 2^k \in Word
           /\ \A j \in 0..15 : Bit(w - 2^k, j) = IF j = k THEN 0 ELSE Bit(w, j)
<1> DEFINE b == BitsOf(w)
           c == [j \in 0..15 |-> IF j = k THEN 0 ELSE b[j]]
<1>1. b \in [0..15 -> {0, 1}] /\ b[k] = 1 /\ \A j \in 0..15 : b[j] = Bit(w, j)
  BY BitIsBinary DEF BitsOf
<1>2. c \in [0..15 -> {0, 1}] /\ \A j \in 0..15 : c[j] = IF j = k THEN 0 ELSE b[j]
  BY <1>1
<1> HIDE DEF b, c
<1>3. FromBits(c) = FromBits(b) - 2^k
  <2>1. \A j \in 0..15 : b[j] \in Int
    BY <1>1
  <2>2. CASE k = 0
    BY <1>1, <1>2, <2>1, <2>2 DEF FromBits, Nibbles, Nibble
  <2>3. CASE k = 1
    BY <1>1, <1>2, <2>1, <2>3 DEF FromBits, Nibbles, Nibble
  <2>4. CASE k = 2
    BY <1>1, <1>2, <2>1, <2>4 DEF FromBits, Nibbles, Nibble
  <2>5. CASE k = 3
    BY <1>1, <1>2, <2>1, <2>5 DEF FromBits, Nibbles, Nibble
  <2>6. CASE k = 4
    BY <1>1, <1>2, <2>1, <2>6 DEF FromBits, Nibbles, Nibble
  <2>7. CASE k = 5
    BY <1>1, <1>2, <2>1, <2>7 DEF FromBits, Nibbles, Nibble
  <2>8. CASE k = 6
    BY <1>1, <1>2, <2>1, <2>8 DEF FromBits, Nibbles, Nibble
  <2>9. CASE k = 7
    BY <1>1, <1>2, <2>1, <2>9 DEF FromBits, Nibbles, Nibble
  <2>10. CASE k = 8
    BY <1>1, <1>2, <2>1, <2>10 DEF FromBits, Nibbles, Nibble
  <2>11. CASE k = 9
    BY <1>1, <1>2, <2>1, <2>11 DEF FromBits, Nibbles, Nibble
  <2>12. CASE k = 10
    BY <1>1, <1>2, <2>1, <2>12 DEF FromBits, Nibbles, Nibble
  <2>13. CASE k = 11
    BY <1>1, <1>2, <2>1, <2>13 DEF FromBits, Nibbles, Nibble
  <2>14. CASE k = 12
    BY <1>1, <1>2, <2>1, <2>14 DEF FromBits, Nibbles, Nibble
  <2>15. CASE k = 13
    BY <1>1, <1>2, <2>1, <2>15 DEF FromBits, Nibbles, Nibble
  <2>16. CASE k = 14
    BY <1>1, <1>2, <2>1, <2>16 DEF FromBits, Nibbles, Nibble
  <2>17. CASE k = 15
    BY <1>1, <1>2, <2>1, <2>17 DEF FromBits, Nibbles, Nibble
  <2> QED
    BY <2>2, <2>3, <2>4, <2>5, <2>6, <2>7, <2>8, <2>9,
       <2>10, <2>11, <2>12, <2>13, <2>14, <2>15, <2>16, <2>17
<1>4. w - 2^k = FromBits(c)
  BY <1>3, WordFromItsBits DEF b
<1> QED
  BY <1>1, <1>2, <1>4, BitsOfSum

\* What giving back frames sets.
Regained(k, a, pfns) == \E f \in pfns : BitmapWord(f) = a /\ BitmapBit(f) = k

LEMMA ReleasedBits ==
    ASSUME NEW m, NEW a, m[a] \in Word, NEW pfns
    PROVE  /\ Released(m, a, pfns) \in Word
           /\ \A k \in 0..15 :
                 Bit(Released(m, a, pfns), k) = IF Regained(k, a, pfns) THEN 1 ELSE Bit(m[a], k)
<1> DEFINE b == [k \in 0..15 |-> IF Regained(k, a, pfns) THEN 1 ELSE Bit(m[a], k)]
<1>1. b \in [0..15 -> {0, 1}]
  BY BitIsBinary
<1>2. Released(m, a, pfns) = FromBits(b)
  BY DEF Released, WordOfBits, FromBits, Nibbles, Nibble, Regained
<1>3. \A k \in 0..15 : b[k] = IF Regained(k, a, pfns) THEN 1 ELSE Bit(m[a], k)
  OBVIOUS
<1> HIDE DEF b
<1> QED
  BY <1>1, <1>2, <1>3, BitsOfSum

LEMMA BitAndWord == ASSUME NEW v \in Word, NEW w \in Word PROVE BitAnd(v, w) \in Word
<1> DEFINE b == [k \in 0..15 |-> Bit(v, k) * Bit(w, k)]
<1>1. b \in [0..15 -> {0, 1}]
  BY BitIsBinary
<1>2. BitAnd(v, w) = FromBits(b)
  BY DEF BitAnd, WordOfBits, FromBits, Nibbles, Nibble
<1> HIDE DEF b
<1> QED
  BY <1>1, <1>2, BitsOfSum

\* Results of arithmetic are words.
LEMMA WrapWord == ASSUME NEW x \in Int PROVE Wrap(x) \in Word
<1>1. x % 65536 \in Int /\ 0 <= x % 65536 /\ x % 65536 <= 65535
  OBVIOUS
<1> QED
  BY <1>1, InWord DEF Wrap

\* The bitmap has no bit for frames 0, 1 and 2: its first word is below 2^13.
LEMMA LowWord ==
    ASSUME NEW w \in Word
    PROVE  w < 2^13 <=> (Bit(w, 13) = 0 /\ Bit(w, 14) = 0 /\ Bit(w, 15) = 0)
<1>1. w \in Int /\ 0 <= w /\ w <= 65535
  BY WordBounds
<1> QED
  BY <1>1 DEF Bit, Field

-----------------------------------------------------------------------------
(* The array                                                                *)

Words(m) == \A a \in DOMAIN m : a \in Word /\ m[a] \in Word
Bitmap(m) == {3, 4} \subseteq DOMAIN m /\ Peek(m, 3) < 2^13
EntryAt(p, v) == TableAt(p) + v
Entry(m, p, v) == Peek(m, EntryAt(p, v))
Tables(m) == \A p \in 0..7, v \in 0..31 : Entry(m, p, v) = 0 \/ FrameIn(Entry(m, p, v)) >= 3

\* What TypeOK says of the memory.
Sound(m) == Words(m) /\ Bitmap(m) /\ Tables(m)

LEMMA PeekWord == ASSUME NEW m, Words(m), NEW a PROVE Peek(m, a) \in Word
<1>1. 0 \in Word
  BY InWord
<1> QED
  BY <1>1 DEF Peek, Words

LEMMA PeekPoke ==
    ASSUME NEW m, NEW a, NEW w, NEW b
    PROVE  Peek(Poke(m, a, w), b) = IF b = a THEN w ELSE Peek(m, b)
  BY DEF Poke, Peek

LEMMA DomainPoke == ASSUME NEW m, NEW a, NEW w PROVE DOMAIN Poke(m, a, w) = DOMAIN m \cup {a}
  BY DEF Poke

LEMMA WordsPoke ==
    ASSUME NEW m, Words(m), NEW a \in Word, NEW w \in Word
    PROVE  Words(Poke(m, a, w))
  BY DEF Words, Poke

\* The tables take the words from 4096 to 4351, each 32 of them.
LEMMA TableBounds ==
    ASSUME NEW p \in 0..7, NEW v \in 0..31
    PROVE  /\ TableAt(p) + v \in Word
           /\ 4096 <= TableAt(p) + v /\ TableAt(p) + v <= 4351
<1>1. TableAt(p) + v \in Int /\ 4096 <= TableAt(p) + v /\ TableAt(p) + v <= 4351
  BY DEF TableAt
<1> QED
  BY <1>1, InWord

LEMMA EntryBounds ==
    ASSUME NEW p \in 0..7, NEW v \in 0..31
    PROVE  EntryAt(p, v) \in Word /\ 4096 <= EntryAt(p, v) /\ EntryAt(p, v) <= 4351
  BY TableBounds DEF EntryAt

LEMMA EntriesApart ==
    ASSUME NEW p \in 0..7, NEW v \in 0..31, NEW q \in 0..7, NEW u \in 0..31,
           EntryAt(p, v) = EntryAt(q, u)
    PROVE  p = q /\ v = u
  BY DEF EntryAt, TableAt

LEMMA PcbBounds ==
    ASSUME NEW p \in 0..7, NEW i \in 0..2
    PROVE  PcbAt(p) + i \in Word /\ 12 <= PcbAt(p) + i /\ PcbAt(p) + i <= 35
<1>1. PcbAt(p) + i \in Int /\ 12 <= PcbAt(p) + i /\ PcbAt(p) + i <= 35
  BY DEF PcbAt
<1> QED
  BY <1>1, InWord

\* A word that belongs neither to the bitmap nor to a table.
Elsewhere(a) == a \in Word /\ (a <= 2 \/ (12 <= a /\ a <= 35) \/ 6144 <= a)

LEMMA SoundPoke ==
    ASSUME NEW m, Sound(m), NEW a, Elsewhere(a), NEW w \in Word
    PROVE  Sound(Poke(m, a, w))
<1>1. Words(Poke(m, a, w))
  BY WordsPoke DEF Sound, Elsewhere
<1>2. a # 3 /\ a # 4 /\ ~(4096 <= a /\ a <= 4351)
  BY WordBounds DEF Elsewhere
<1>3. Bitmap(Poke(m, a, w))
  <2>1. Peek(Poke(m, a, w), 3) = Peek(m, 3)
    BY <1>2, PeekPoke
  <2>2. DOMAIN Poke(m, a, w) = DOMAIN m \cup {a}
    BY DomainPoke
  <2> QED
    BY <2>1, <2>2 DEF Sound, Bitmap
<1>4. ASSUME NEW p \in 0..7, NEW v \in 0..31
      PROVE  Entry(Poke(m, a, w), p, v) = Entry(m, p, v)
  <2>1. TableAt(p) + v # a
    BY <1>2, TableBounds
  <2> QED
    BY <2>1, PeekPoke DEF Entry, EntryAt
<1> QED
  BY <1>1, <1>3, <1>4 DEF Sound, Tables

-----------------------------------------------------------------------------
(* Page table entries                                                       *)

LEMMA FrameBounds == ASSUME NEW w \in Word PROVE FrameIn(w) \in Int /\ 0 <= FrameIn(w) /\ FrameIn(w) <= 31
<1>1. w \in Int /\ 0 <= w /\ w <= 65535
  BY WordBounds
<1> QED
  BY <1>1 DEF FrameIn, Field

\* A new entry says what it was made of.
LEMMA FrameOfNew ==
    ASSUME NEW f \in 3..31, NEW read, NEW write
    PROVE  LET pte == NewPte(f, read, write)
           IN  pte \in Word /\ FrameIn(pte) = f /\ Valid(pte)
<1>1. PICK r \in Int : 0 <= r /\ r <= 6 /\ r % 2 = 0
                       /\ NewPte(f, read, write) = f * 2048 + r + 1
  <2>1. PICK r \in {0, 2, 4, 6} :
           r = (IF write THEN 4 ELSE 0) + (IF read THEN 2 ELSE 0)
    OBVIOUS
  <2>2. NewPte(f, read, write) = f * 2048 + r + 1
    BY <2>1 DEF NewPte
  <2> QED
    BY <2>2
<1>2. PICK w \in Int : w = f * 2048 + r + 1
  BY <1>1
<1>3. 0 <= w /\ w <= 65535
  BY <1>1, <1>2
<1>4. w \in Word
  BY <1>3, InWord
<1>5. FrameIn(w) = f
  BY <1>1, <1>2 DEF FrameIn, Field
<1>6. Valid(w)
  BY <1>1, <1>2 DEF Valid, Bit, Field
<1> QED
  BY <1>1, <1>2, <1>4, <1>5, <1>6

\* An entry that loses its valid bit keeps its frame.
LEMMA FrameKept ==
    ASSUME NEW w \in Word, Valid(w)
    PROVE  w - 1 \in Word /\ FrameIn(w - 1) = FrameIn(w) /\ ~Valid(w - 1)
<1>1. w \in Int /\ 0 <= w /\ w <= 65535
  BY WordBounds
<1>2. w % 2 = 1
  BY <1>1 DEF Valid, Bit, Field
<1>3. w - 1 \in Int /\ 0 <= w - 1 /\ w - 1 <= 65535
  BY <1>1, <1>2
<1>4. w - 1 \in Word
  BY <1>3, InWord
<1>5. FrameIn(w - 1) = FrameIn(w)
  BY <1>1, <1>2 DEF FrameIn, Field
<1>6. ~Valid(w - 1)
  BY <1>1, <1>2 DEF Valid, Bit, Field
<1> QED
  BY <1>4, <1>5, <1>6

LEMMA ZeroIsInvalid == ~Valid(0)
  BY DEF Valid, Bit, Field

-----------------------------------------------------------------------------
(* allocMem                                                                 *)

\* The word and the bit of a frame.
LEMMA BitmapPlace ==
    ASSUME NEW f \in 3..31
    PROVE  BitmapWord(f) \in {3, 4} /\ BitmapBit(f) \in 0..15
           /\ (BitmapWord(f) = 3 => BitmapBit(f) \notin {13, 14, 15})
  BY DEF BitmapWord, BitmapBit

LEMMA BitmapPlacesApart ==
    ASSUME NEW f \in 3..31, NEW g \in 3..31, BitmapWord(f) = BitmapWord(g), BitmapBit(f) = BitmapBit(g)
    PROVE  f = g
  BY DEF BitmapWord, BitmapBit

\* The memory once frame f is taken for the entry at a.
Taken(m, f, a, pte) ==
    Poke(Poke(m, BitmapWord(f), Peek(m, BitmapWord(f)) - 2^BitmapBit(f)), a, pte)

FirstFree(m, f) == f \in 3..31 /\ IsFree(m, f) /\ \A g \in 3..(f - 1) : ~IsFree(m, g)

\* If a frame is free, one of them is the first.
LEMMA FirstFreeExists ==
    ASSUME NEW m, NEW h \in 3..31, IsFree(m, h)
    PROVE  \E f \in 3..31 : FirstFree(m, f)
<1> DEFINE S == {f \in 3..31 : IsFree(m, f)}
<1>1. S \in SUBSET Nat /\ S # {}
  OBVIOUS
<1>2. PICK f \in S : \A g \in S : f <= g
  BY <1>1, LeastOne
<1> QED
  BY <1>2 DEF FirstFree

\* The three results of allocMem: the page has a frame, no frame is free, or the
\* first that is free is taken.
AllocResult(m, p, v, read, write, got) ==
    \/ Valid(Entry(m, p, v)) /\ got = [mem |-> m, pfn |-> 0]
    \/ /\ ~Valid(Entry(m, p, v)) /\ \A f \in 3..31 : ~IsFree(m, f)
       /\ got = [mem |-> m, pfn |-> NoFrame]
    \/ /\ ~Valid(Entry(m, p, v))
       /\ \E f \in 3..31 :
             /\ FirstFree(m, f)
             /\ got = [mem |-> Taken(m, f, EntryAt(p, v), NewPte(f, read, write)), pfn |-> f]

LEMMA AllocCases ==
    ASSUME NEW m, NEW p, NEW v, NEW read, NEW write
    PROVE  AllocResult(m, p, v, read, write, AllocMem(m, TableAt(p), v, read, write))
<1> USE DEF AllocResult
<1>1. CASE Valid(Entry(m, p, v))
  BY <1>1 DEF AllocMem, Entry, EntryAt
<1>2. CASE ~Valid(Entry(m, p, v)) /\ \A f \in 3..31 : ~IsFree(m, f)
  BY <1>2 DEF AllocMem, Entry, EntryAt
<1>3. CASE ~Valid(Entry(m, p, v)) /\ ~\A f \in 3..31 : ~IsFree(m, f)
  <2> DEFINE f == CHOOSE f \in 3..31 : IsFree(m, f) /\ \A g \in 3..(f - 1) : ~IsFree(m, g)
  <2>1. \E x \in 3..31 : IsFree(m, x) /\ \A g \in 3..(x - 1) : ~IsFree(m, g)
    BY <1>3, FirstFreeExists DEF FirstFree
  <2>2. f \in 3..31 /\ IsFree(m, f) /\ \A g \in 3..(f - 1) : ~IsFree(m, g)
    BY <2>1
  <2>3. AllocMem(m, TableAt(p), v, read, write) =
            [mem |-> Taken(m, f, EntryAt(p, v), NewPte(f, read, write)), pfn |-> f]
    BY <1>3 DEF AllocMem, Taken, Entry, EntryAt
  <2> HIDE DEF f
  <2>4. FirstFree(m, f)
    BY <2>2 DEF FirstFree
  <2> QED
    BY <1>3, <2>2, <2>3, <2>4
<1> QED
  BY <1>1, <1>2, <1>3

\* A frame that is taken has its bit cleared and its number in an entry, and
\* nothing else changes.
Takes(m, n, f, p, v, pte) ==
    /\ Sound(n)
    /\ Entry(n, p, v) = pte
    /\ \A b : b \notin {3, 4, EntryAt(p, v)} => Peek(n, b) = Peek(m, b)
    /\ \A g \in 3..31 : IsFree(n, g) <=> IsFree(m, g) /\ g # f

LEMMA TakenSound ==
    ASSUME NEW m, Sound(m), NEW f \in 3..31, IsFree(m, f), NEW p \in 0..7, NEW v \in 0..31,
           NEW read, NEW write
    PROVE  Takes(m, Taken(m, f, EntryAt(p, v), NewPte(f, read, write)), f, p, v, NewPte(f, read, write))
<1> DEFINE b == BitmapWord(f)
           k == BitmapBit(f)
           w == Peek(m, b) - 2^k
           a == TableAt(p) + v
           pte == NewPte(f, read, write)
           l == Poke(m, b, w)
           n == Poke(l, a, pte)
<1>1. b \in {3, 4} /\ k \in 0..15 /\ (b = 3 => k \notin {13, 14, 15})
  BY BitmapPlace
<1>2. Peek(m, b) \in Word /\ Bit(Peek(m, b), k) = 1
  BY PeekWord DEF Sound, IsFree
<1>3. w \in Word /\ \A j \in 0..15 : Bit(w, j) = IF j = k THEN 0 ELSE Bit(Peek(m, b), j)
  BY <1>1, <1>2, ClearedBits
<1>4. a \in Word /\ 4096 <= a /\ a <= 4351
  BY TableBounds
<1>5. pte \in Word /\ FrameIn(pte) = f /\ Valid(pte)
  BY FrameOfNew
<1> HIDE DEF b, k, w, a, pte
<1>6. Words(l)
  <2>1. b \in Word
    BY <1>1, InWord
  <2> QED
    BY <1>3, <2>1, WordsPoke DEF Sound
<1>7. Words(n)
  BY <1>4, <1>5, <1>6, WordsPoke
<1>8. \A c : Peek(l, c) = IF c = b THEN w ELSE Peek(m, c)
  BY PeekPoke
<1>9. \A c : Peek(n, c) = IF c = a THEN pte ELSE Peek(l, c)
  BY PeekPoke
<1>10. DOMAIN n = DOMAIN m \cup {a, b}
  <2>1. DOMAIN l = DOMAIN m \cup {b}
    BY DomainPoke
  <2>2. DOMAIN n = DOMAIN l \cup {a}
    BY DomainPoke
  <2> QED
    BY <2>1, <2>2
<1>11. n = Taken(m, f, EntryAt(p, v), NewPte(f, read, write))
  BY DEF Taken, EntryAt, b, k, w, a, pte
<1> HIDE DEF l, n
<1>12. \A c : c \notin {3, 4, a} => Peek(n, c) = Peek(m, c)
  BY <1>1, <1>8, <1>9
<1>13. a # 3 /\ a # 4
  BY <1>4, WordBounds
<1>14. Bitmap(n)
  <2>1. {3, 4} \subseteq DOMAIN n /\ Peek(m, 3) < 2^13
    BY <1>10 DEF Sound, Bitmap
  <2>2. CASE b = 3
    <3>1. Peek(n, 3) = w /\ Peek(m, b) < 2^13
      BY <1>8, <1>9, <1>13, <2>1, <2>2
    <3>2. Bit(Peek(m, b), 13) = 0 /\ Bit(Peek(m, b), 14) = 0 /\ Bit(Peek(m, b), 15) = 0
      BY <1>2, <3>1, LowWord
    <3>3. Bit(w, 13) = 0 /\ Bit(w, 14) = 0 /\ Bit(w, 15) = 0
      BY <1>3, <3>2
    <3>4. w < 2^13
      BY <1>3, <3>3, LowWord
    <3> QED
      BY <2>1, <3>1, <3>4 DEF Bitmap
  <2>3. CASE b # 3
    <3>1. Peek(n, 3) = Peek(m, 3)
      BY <1>8, <1>9, <1>13, <2>3
    <3> QED
      BY <2>1, <3>1 DEF Bitmap
  <2> QED
    BY <2>2, <2>3
<1>15. Tables(n)
  <2>1. SUFFICES ASSUME NEW q \in 0..7, NEW u \in 0..31
                 PROVE  Entry(n, q, u) = 0 \/ FrameIn(Entry(n, q, u)) >= 3
    BY DEF Tables
  <2>2. CASE TableAt(q) + u = a
    BY <1>5, <1>9, <2>2 DEF Entry, EntryAt
  <2>3. CASE TableAt(q) + u # a
    <3>1. TableAt(q) + u \notin {3, 4}
      BY TableBounds
    <3>2. Entry(n, q, u) = Entry(m, q, u)
      BY <1>12, <2>3, <3>1 DEF Entry, EntryAt
    <3> QED
      BY <3>2 DEF Sound, Tables
  <2> QED
    BY <2>2, <2>3
<1>16. ASSUME NEW g \in 3..31
       PROVE  IsFree(n, g) <=> IsFree(m, g) /\ g # f
  <2>1. BitmapWord(g) \in {3, 4} /\ BitmapBit(g) \in 0..15
    BY BitmapPlace
  <2>2. Peek(n, BitmapWord(g)) = IF BitmapWord(g) = b THEN w ELSE Peek(m, BitmapWord(g))
    BY <1>8, <1>9, <1>13, <2>1
  <2>3. CASE BitmapWord(g) # b
    <3>1. g # f
      BY <2>3 DEF b
    <3> QED
      BY <2>2, <2>3, <3>1 DEF IsFree
  <2>4. CASE BitmapWord(g) = b /\ BitmapBit(g) # k
    <3>1. g # f
      BY <2>4 DEF k
    <3>2. Bit(w, BitmapBit(g)) = Bit(Peek(m, b), BitmapBit(g))
      BY <1>3, <2>1, <2>4
    <3> QED
      BY <2>2, <2>4, <3>1, <3>2 DEF IsFree
  <2>5. CASE BitmapWord(g) = b /\ BitmapBit(g) = k
    <3>1. g = f
      BY <2>5, BitmapPlacesApart DEF b, k
    <3>2. Bit(w, BitmapBit(g)) = 0
      BY <1>3, <2>1, <2>5
    <3> QED
      BY <2>2, <2>5, <3>1, <3>2 DEF IsFree
  <2> QED
    BY <2>3, <2>4, <2>5
<1>17. Entry(n, p, v) = pte
  BY <1>9 DEF Entry, EntryAt, a
<1>18. Sound(n)
  BY <1>7, <1>14, <1>15 DEF Sound
<1>19. \A c : c \notin {3, 4, EntryAt(p, v)} => Peek(n, c) = Peek(m, c)
  BY <1>12 DEF EntryAt, a
<1> QED
  BY <1>11, <1>16, <1>17, <1>18, <1>19 DEF Takes, pte

-----------------------------------------------------------------------------
(* freeMem                                                                  *)

InTables(a) == a \in Word /\ 4096 <= a /\ a <= 4351

\* The frames that freeMem gives back.
Given(m, vpns, p) == {FrameIn(Entry(m, p, v)) : v \in {u \in vpns : Valid(Entry(m, p, u))}}

\* Pages that are freed lose their valid bits, their frames get their bits back,
\* and nothing else changes.
Frees(m, n, vpns, p) ==
    /\ Sound(n)
    /\ \A q \in 0..7, u \in 0..31 :
          Entry(n, q, u) = IF q = p /\ u \in vpns /\ Valid(Entry(m, q, u))
                             THEN Entry(m, q, u) - 1 ELSE Entry(m, q, u)
    /\ \A b : b \notin {3, 4} /\ ~InTables(b) => Peek(n, b) = Peek(m, b)
    /\ \A f \in 3..31 : IsFree(n, f) <=> IsFree(m, f) \/ f \in Given(m, vpns, p)

LEMMA FreedSound ==
    ASSUME NEW m, Sound(m), NEW p \in 0..7, NEW vpns \in SUBSET (0..31)
    PROVE  Frees(m, FreeMem(m, vpns, TableAt(p)), vpns, p)
<1> DEFINE t == TableAt(p)
           pfns == Given(m, vpns, p)
           n == FreeMem(m, vpns, t)
<1>1. DOMAIN n = DOMAIN m
      /\ \A a \in DOMAIN m :
            n[a] = IF a - t \in vpns /\ Valid(m[a]) THEN m[a] - 1
                   ELSE IF a \in {3, 4} THEN Released(m, a, pfns) ELSE m[a]
  BY DEF FreeMem, Given, Entry, EntryAt
<1>2. {3, 4} \subseteq DOMAIN m /\ Peek(m, 3) < 2^13
  BY DEF Sound, Bitmap
<1>3. \A a \in DOMAIN m : a \in Int /\ a \in Word /\ m[a] \in Word
  BY WordBounds DEF Sound, Words
<1>4. t \in Int /\ 4096 <= t /\ t <= 4320
  BY DEF TableAt
<1>5. pfns \subseteq 3..31
  <2>1. ASSUME NEW v \in vpns, Valid(Entry(m, p, v))
        PROVE  FrameIn(Entry(m, p, v)) \in 3..31
    <3>1. Entry(m, p, v) \in Word /\ Entry(m, p, v) # 0
      BY <2>1, PeekWord, ZeroIsInvalid DEF Sound, Entry, EntryAt
    <3>2. FrameIn(Entry(m, p, v)) >= 3
      BY <3>1 DEF Sound, Tables
    <3> QED
      BY <3>1, <3>2, FrameBounds
  <2> QED
    BY <2>1 DEF Given
<1>6. 3 - t \notin vpns /\ 4 - t \notin vpns
  BY <1>4
<1>7. n[3] = Released(m, 3, pfns) /\ n[4] = Released(m, 4, pfns)
  BY <1>1, <1>2, <1>6
<1>8. m[3] = Peek(m, 3) /\ m[4] = Peek(m, 4) /\ n[3] = Peek(n, 3) /\ n[4] = Peek(n, 4)
  BY <1>1, <1>2 DEF Peek
<1> HIDE DEF n, t, pfns
<1>9. \A a \in {3, 4} :
         Peek(n, a) \in Word
         /\ \A k \in 0..15 : Bit(Peek(n, a), k) = IF Regained(k, a, pfns) THEN 1 ELSE Bit(Peek(m, a), k)
  BY <1>2, <1>3, <1>7, <1>8, ReleasedBits
<1>10. Words(n)
  <2>1. SUFFICES ASSUME NEW a \in DOMAIN m PROVE n[a] \in Word
    BY <1>1, <1>3 DEF Words
  <2>2. CASE a - t \in vpns /\ Valid(m[a])
    BY <1>1, <1>3, <2>2, FrameKept
  <2>3. CASE a \in {3, 4}
    BY <1>8, <1>9, <2>3
  <2>4. CASE ~(a - t \in vpns /\ Valid(m[a])) /\ a \notin {3, 4}
    BY <1>1, <1>3, <2>4
  <2> QED
    BY <2>2, <2>3, <2>4
<1>11. Bitmap(n)
  <2>1. Bit(Peek(m, 3), 13) = 0 /\ Bit(Peek(m, 3), 14) = 0 /\ Bit(Peek(m, 3), 15) = 0
    BY <1>2, <1>3, <1>8, LowWord
  <2>2. ~Regained(13, 3, pfns) /\ ~Regained(14, 3, pfns) /\ ~Regained(15, 3, pfns)
    BY <1>5, BitmapPlace DEF Regained
  <2>3. Bit(Peek(n, 3), 13) = 0 /\ Bit(Peek(n, 3), 14) = 0 /\ Bit(Peek(n, 3), 15) = 0
    BY <1>9, <2>1, <2>2
  <2>4. Peek(n, 3) < 2^13
    BY <1>9, <2>3, LowWord
  <2> QED
    BY <1>1, <1>2, <2>4 DEF Bitmap
<1>12. ASSUME NEW q \in 0..7, NEW u \in 0..31
       PROVE  Entry(n, q, u) = IF q = p /\ u \in vpns /\ Valid(Entry(m, q, u))
                                 THEN Entry(m, q, u) - 1 ELSE Entry(m, q, u)
  <2> DEFINE a == TableAt(q) + u
  <2>1. a \in Int /\ 4096 <= a /\ a <= 4351
    BY TableBounds, WordBounds
  <2>2. a - t \in vpns <=> q = p /\ u \in vpns
    <3>1. ASSUME a - t \in vpns PROVE q = p /\ u \in vpns
      <4>1. PICK v \in 0..31 : v = a - t /\ v \in vpns
        BY <3>1
      <4>2. TableAt(p) + v = TableAt(q) + u
        BY <1>4, <2>1, <4>1 DEF t
      <4>3. p = q /\ v = u
        BY <4>2 DEF TableAt
      <4> QED
        BY <4>1, <4>3
    <3>2. ASSUME q = p, u \in vpns PROVE a - t \in vpns
      <4>1. a - t = u
        BY <1>4, <3>2 DEF t
      <4> QED
        BY <4>1, <3>2
    <3> QED
      BY <3>1, <3>2
  <2> HIDE DEF a
  <2>3. CASE a \in DOMAIN m
    <3>1. Peek(n, a) = n[a] /\ Peek(m, a) = m[a] /\ a \notin {3, 4}
      BY <1>1, <2>1, <2>3 DEF Peek
    <3>2. Peek(n, a) = IF q = p /\ u \in vpns /\ Valid(Peek(m, a)) THEN Peek(m, a) - 1 ELSE Peek(m, a)
      BY <1>1, <2>2, <2>3, <3>1
    <3> QED
      BY <3>2 DEF Entry, EntryAt, a
  <2>4. CASE a \notin DOMAIN m
    <3>1. Peek(n, a) = 0 /\ Peek(m, a) = 0
      BY <1>1, <2>4 DEF Peek
    <3> QED
      BY <3>1, ZeroIsInvalid DEF Entry, EntryAt, a
  <2> QED
    BY <2>3, <2>4
<1>13. Tables(n)
  <2>1. SUFFICES ASSUME NEW q \in 0..7, NEW u \in 0..31
                 PROVE  Entry(n, q, u) = 0 \/ FrameIn(Entry(n, q, u)) >= 3
    BY DEF Tables
  <2>2. Entry(m, q, u) \in Word /\ (Entry(m, q, u) = 0 \/ FrameIn(Entry(m, q, u)) >= 3)
    BY PeekWord DEF Sound, Tables, Entry, EntryAt
  <2>3. CASE q = p /\ u \in vpns /\ Valid(Entry(m, q, u))
    <3>1. FrameIn(Entry(m, q, u)) >= 3
      BY <2>2, <2>3, ZeroIsInvalid
    <3>2. FrameIn(Entry(m, q, u) - 1) = FrameIn(Entry(m, q, u))
      BY <2>2, <2>3, FrameKept
    <3> QED
      BY <1>12, <2>3, <3>1, <3>2
  <2>4. CASE ~(q = p /\ u \in vpns /\ Valid(Entry(m, q, u)))
    <3>1. Entry(n, q, u) = Entry(m, q, u)
      BY <1>12, <2>4
    <3> QED
      BY <2>2, <3>1
  <2> QED
    BY <2>3, <2>4
<1>14. ASSUME NEW b, b \notin {3, 4}, ~InTables(b)
       PROVE  Peek(n, b) = Peek(m, b)
  <2>1. CASE b \in DOMAIN m
    <3>1. b - t \notin vpns
      <4>1. ASSUME b - t \in vpns PROVE FALSE
        <5>1. b \in Int /\ b - t \in 0..31
          BY <1>3, <2>1, <4>1
        <5>2. 4096 <= b /\ b <= 4351
          BY <1>4, <5>1
        <5> QED
          BY <1>3, <1>14, <2>1, <5>2 DEF InTables
      <4> QED
        BY <4>1
    <3> QED
      BY <1>1, <1>14, <2>1, <3>1 DEF Peek
  <2>2. CASE b \notin DOMAIN m
    BY <1>1, <2>2 DEF Peek
  <2> QED
    BY <2>1, <2>2
<1>15. ASSUME NEW f \in 3..31
       PROVE  IsFree(n, f) <=> IsFree(m, f) \/ f \in pfns
  <2> DEFINE a == BitmapWord(f)
             k == BitmapBit(f)
  <2>1. a \in {3, 4} /\ k \in 0..15
    BY BitmapPlace
  <2>2. Regained(k, a, pfns) <=> f \in pfns
    BY <1>5, BitmapPlacesApart DEF Regained
  <2>3. Bit(Peek(n, a), k) = IF f \in pfns THEN 1 ELSE Bit(Peek(m, a), k)
    BY <1>9, <2>1, <2>2
  <2> QED
    BY <2>3 DEF IsFree
<1>16. Sound(n)
  BY <1>10, <1>11, <1>13 DEF Sound
<1> QED
  BY <1>12, <1>14, <1>15, <1>16 DEF Frees, n, t, pfns

-----------------------------------------------------------------------------
(* The inductive invariant                                                  *)

\* The page table bases of the first n PCBs.
Pcbs(m, n) == \A p \in 0..(n - 1) : Peek(m, PcbAt(p) + 2) = TableAt(p)

\* While processes are created the frames go out in their order, four to each:
\* n processes have theirs, and the one that is under way has this many.
Fresh(m, n, count) ==
    /\ \A f \in 3..31 : IsFree(m, f) <=> f >= 3 + 4 * n + count
    /\ \A p \in n..7, v \in 0..31 : Valid(Entry(m, p, v)) <=> p = n /\ v \in 6..(5 + count)
    /\ \A k \in 1..count : 2 + 4 * n + k <= 31 /\ FrameIn(Entry(m, n, 5 + k)) = 2 + 4 * n + k

\* Between two createProcs: the PCB of process 0 is there if any process is.
Booting ==
    status = "boot" =>
        /\ Fresh(mem, NewPid, 0) /\ Pcbs(mem, NewPid)
        /\ NewPid = 0 => Peek(mem, 13) = 0

\* In the middle of one.
Creating ==
    status = "create" =>
        /\ args # <<>>
        /\ Len(frames) \in 0..4
        /\ frames = [k \in 1..Len(frames) |-> 2 + 4 * NewPid + k]
        /\ Fresh(mem, NewPid, Len(frames)) /\ Pcbs(mem, NewPid + 1)

\* There are at most 7 processes, one of them runs and its own table is the one
\* the processor looks at.
Serving ==
    /\ NewPid \in 1..7
    /\ Pcbs(mem, NewPid)
    /\ Current \in 0..(NewPid - 1)
    /\ reg[PTBR] = TableAt(Current)

\* Without a process the program counter is 0, whose page is nobody's.
Running == status = "running" => reg[RPC] = 0 \/ Serving

IInv ==
    /\ status \in {"boot", "create", "running"} \cup {"halted", "exited", "wild"}
    /\ args \in Seq(Programs)
    /\ reg \in [0..10 -> Word]
    /\ Sound(mem)
    /\ NewPid \in 0..7
    /\ Booting /\ Creating /\ Running

LEMMA SoundIsTyped == IInv => TypeOK
  BY DEF IInv, TypeOK, Sound, Words, Bitmap, Tables, Entry, EntryAt

-----------------------------------------------------------------------------
(* The first state                                                          *)

LEMMA InitPeeks ==
    /\ Peek(InitOS, 0) = 65535 /\ Peek(InitOS, 3) = 8191 /\ Peek(InitOS, 4) = 65535
    /\ \A b : b \notin {0, 3, 4} => Peek(InitOS, b) = 0
  BY DEF InitOS, Peek

\* The bits of the bitmap's two words at the start.
LEMMA BitsAtFirst ==
    /\ \A k \in 0..12 : Bit(8191, k) = 1
    /\ \A k \in 0..15 : Bit(65535, k) = 1
<1>1. /\ Bit(8191, 0) = 1 /\ Bit(8191, 1) = 1 /\ Bit(8191, 2) = 1 /\ Bit(8191, 3) = 1
      /\ Bit(8191, 4) = 1 /\ Bit(8191, 5) = 1 /\ Bit(8191, 6) = 1 /\ Bit(8191, 7) = 1
      /\ Bit(8191, 8) = 1 /\ Bit(8191, 9) = 1 /\ Bit(8191, 10) = 1 /\ Bit(8191, 11) = 1
      /\ Bit(8191, 12) = 1
  BY DEF Bit, Field
<1>2. /\ Bit(65535, 0) = 1 /\ Bit(65535, 1) = 1 /\ Bit(65535, 2) = 1 /\ Bit(65535, 3) = 1
      /\ Bit(65535, 4) = 1 /\ Bit(65535, 5) = 1 /\ Bit(65535, 6) = 1 /\ Bit(65535, 7) = 1
      /\ Bit(65535, 8) = 1 /\ Bit(65535, 9) = 1 /\ Bit(65535, 10) = 1 /\ Bit(65535, 11) = 1
      /\ Bit(65535, 12) = 1 /\ Bit(65535, 13) = 1 /\ Bit(65535, 14) = 1 /\ Bit(65535, 15) = 1
  BY DEF Bit, Field
<1> QED
  BY <1>1, <1>2

\* initOS: the bitmap has a bit for every frame from 3 on, and nothing else is
\* there.
LEMMA InitSound == Sound(InitOS) /\ Fresh(InitOS, 0, 0) /\ Pcbs(InitOS, 0)
<1>1. DOMAIN InitOS = 0..4 /\ InitOS[0] = 65535 /\ InitOS[1] = 0 /\ InitOS[2] = 0
      /\ InitOS[3] = 8191 /\ InitOS[4] = 65535
  BY DEF InitOS
<1>2. Words(InitOS)
  <2>1. 0 \in Word /\ 1 \in Word /\ 2 \in Word /\ 3 \in Word /\ 4 \in Word /\ 8191 \in Word /\ 65535 \in Word
    BY InWord
  <2>2. \A a \in 0..4 : a = 0 \/ a = 1 \/ a = 2 \/ a = 3 \/ a = 4
    OBVIOUS
  <2> QED
    BY <1>1, <2>1, <2>2 DEF Words
<1>3. Bitmap(InitOS)
  <2>1. 8191 < 2^13
    OBVIOUS
  <2> QED
    BY <1>1, <2>1, InitPeeks DEF Bitmap
<1>4. \A p \in 0..7, v \in 0..31 : Entry(InitOS, p, v) = 0
  <2>1. \A p \in 0..7, v \in 0..31 : TableAt(p) + v \notin {0, 3, 4}
    BY TableBounds
  <2> QED
    BY <2>1, InitPeeks DEF Entry, EntryAt
<1>5. \A f \in 3..31 : IsFree(InitOS, f)
  <2>1. ASSUME NEW f \in 3..31, BitmapWord(f) = 3 PROVE Bit(8191, BitmapBit(f)) = 1
    <3>1. BitmapBit(f) \in 0..12
      BY <2>1 DEF BitmapWord, BitmapBit
    <3> QED
      BY <3>1, BitsAtFirst
  <2>2. ASSUME NEW f \in 3..31, BitmapWord(f) = 4 PROVE Bit(65535, BitmapBit(f)) = 1
    <3>1. BitmapBit(f) \in 0..15
      BY BitmapPlace
    <3> QED
      BY <3>1, BitsAtFirst
  <2>3. ASSUME NEW f \in 3..31 PROVE IsFree(InitOS, f)
    BY <2>1, <2>2, BitmapPlace, InitPeeks DEF IsFree
  <2> QED
    BY <2>3
<1>6. Fresh(InitOS, 0, 0)
  BY <1>4, <1>5, ZeroIsInvalid DEF Fresh
<1> QED
  BY <1>2, <1>3, <1>4, <1>6 DEF Sound, Tables, Pcbs

LEMMA InitIInv == Init => IInv
<1> SUFFICES ASSUME Init PROVE IInv
  OBVIOUS
<1>1. Peek(mem, 1) = 0 /\ Peek(mem, 13) = 0
  BY InitPeeks DEF Init
<1>2. Sound(mem) /\ Fresh(mem, 0, 0) /\ Pcbs(mem, 0)
  BY InitSound DEF Init
<1>3. args \in Seq(Programs)
  BY InputAssumption DEF Init
<1>4. reg \in [0..10 -> Word]
  <2>1. 0 \in Word
    BY InWord
  <2> QED
    BY <2>1 DEF Init
<1>5. status = "boot"
  BY DEF Init
<1> QED
  BY <1>1, <1>2, <1>3, <1>4, <1>5 DEF IInv, Booting, Creating, Running, NewPid

-----------------------------------------------------------------------------
(* main                                                                     *)

\* What the tables, the PCBs and the bitmap say only depends on words below 6144.
SameBelow(m, n) == \A b \in Int : b < 6144 => Peek(n, b) = Peek(m, b)

LEMMA SameFresh ==
    ASSUME NEW m, NEW n, SameBelow(m, n), NEW p \in 0..7, NEW count \in 0..4
    PROVE  /\ Fresh(m, p, count) => Fresh(n, p, count)
           /\ \A q \in 0..7 : Pcbs(m, q) => Pcbs(n, q)
           /\ Tables(m) => Tables(n)
<1>1. \A f \in 3..31 : IsFree(n, f) <=> IsFree(m, f)
  <2>1. Peek(n, 3) = Peek(m, 3) /\ Peek(n, 4) = Peek(m, 4)
    BY DEF SameBelow
  <2> QED
    BY <2>1, BitmapPlace DEF IsFree
<1>2. \A q \in 0..7, v \in 0..31 : Entry(n, q, v) = Entry(m, q, v)
  <2>1. \A q \in 0..7, v \in 0..31 : TableAt(q) + v \in Int /\ TableAt(q) + v < 6144
    BY DEF TableAt
  <2> QED
    BY <2>1 DEF Entry, EntryAt, SameBelow
<1>3. ASSUME NEW q \in 0..7, Pcbs(m, q) PROVE Pcbs(n, q)
  <2>1. \A i \in 0..(q - 1) : PcbAt(i) + 2 \in Int /\ PcbAt(i) + 2 < 6144
    BY DEF PcbAt
  <2> QED
    BY <1>3, <2>1 DEF Pcbs, SameBelow
<1>4. ASSUME Fresh(m, p, count) PROVE Fresh(n, p, count)
  <2>1. \A k \in 1..count : 5 + k \in 0..31
    OBVIOUS
  <2>2. \A q \in p..7 : q \in 0..7
    OBVIOUS
  <2> QED
    BY <1>1, <1>2, <1>4, <2>1, <2>2 DEF Fresh
<1>5. Tables(m) => Tables(n)
  BY <1>2 DEF Tables
<1> QED
  BY <1>3, <1>4, <1>5

\* A chunk of a file fits in its frame and the next.
LEMMA ChunkBounds ==
    ASSUME NEW file \in Seq(Word), NEW c \in Int, c = 0 \/ c = 1, NEW pfn \in 3..30, NEW a \in Chunk(file, c, pfn)
    PROVE  /\ a \in Int /\ 6144 <= a /\ a <= 65535
           /\ pfn * 2048 <= a /\ a + 4096 * c - pfn * 2048 < Len(file)
<1>1. PICK len \in Int : len = Len(file)
  OBVIOUS
<1>2. PICK rest \in Int : rest = len - 4096 * c
  OBVIOUS
<1>3. PICK size \in Int : size <= rest /\ size <= 4096 /\ size = IF rest > 4096 THEN 4096 ELSE rest
  OBVIOUS
<1>4. PICK base \in Int : base = pfn * 2048 /\ 6144 <= base /\ base <= 61440
  OBVIOUS
<1>5. Chunk(file, c, pfn) = base..(base + size - 1)
  BY <1>1, <1>2, <1>3, <1>4 DEF Chunk
<1>6. a \in Int /\ base <= a /\ a <= base + size - 1
  BY <1>5
<1>7. a \in Int /\ 6144 <= a /\ a <= 65535
  BY <1>3, <1>4, <1>6
<1>8. base <= a /\ a + 4096 * c - base < len
  BY <1>2, <1>3, <1>6
<1> QED
  BY <1>1, <1>4, <1>7, <1>8

\* ld_img writes words of the file to frames of the user.
LEMMA LdImgSound ==
    ASSUME NEW m, Sound(m), NEW file \in Seq(Word), NEW pfns,
           pfns[1] \in 3..30, pfns[2] \in 3..30
    PROVE  Sound(LdImg(m, file, pfns)) /\ SameBelow(m, LdImg(m, file, pfns))
<1> DEFINE first == Chunk(file, 0, pfns[1])
           second == Chunk(file, 1, pfns[2])
           n == LdImg(m, file, pfns)
<1>1. Len(file) \in Nat /\ \A i \in 1..Len(file) : file[i] \in Word
  OBVIOUS
<1>2. ASSUME NEW a \in first
      PROVE  /\ a \in Int /\ 6144 <= a /\ a <= 65535
             /\ a - pfns[1] * 2048 + 1 \in 1..Len(file)
  <2>1. a \in Chunk(file, 0, pfns[1])
    OBVIOUS
  <2>2. PICK pfn \in 3..30 : pfn = pfns[1]
    OBVIOUS
  <2>3. PICK c \in Int : c = 0
    OBVIOUS
  <2>4. a \in Chunk(file, c, pfn)
    BY <2>1, <2>2, <2>3
  <2>5. a \in Int /\ 6144 <= a /\ a <= 65535 /\ pfn * 2048 <= a /\ a + 4096 * c - pfn * 2048 < Len(file)
    BY <2>3, <2>4, ChunkBounds, SMTT(30)
  <2>6. a - pfn * 2048 + 1 \in 1..Len(file)
    BY <1>1, <2>3, <2>5
  <2> QED
    BY <2>2, <2>5, <2>6
<1>3. ASSUME NEW a \in second
      PROVE  /\ a \in Int /\ 6144 <= a /\ a <= 65535
             /\ a - pfns[2] * 2048 + 4097 \in 1..Len(file)
  <2>1. a \in Chunk(file, 1, pfns[2])
    OBVIOUS
  <2>2. PICK pfn \in 3..30 : pfn = pfns[2]
    OBVIOUS
  <2>3. PICK c \in Int : c = 1
    OBVIOUS
  <2>4. a \in Chunk(file, c, pfn)
    BY <2>1, <2>2, <2>3
  <2>5. a \in Int /\ 6144 <= a /\ a <= 65535 /\ pfn * 2048 <= a /\ a + 4096 * c - pfn * 2048 < Len(file)
    BY <2>3, <2>4, ChunkBounds
  <2>6. a - pfn * 2048 + 4097 \in 1..Len(file)
    BY <1>1, <2>3, <2>5
  <2> QED
    BY <2>2, <2>5, <2>6
<1>4. /\ DOMAIN n = DOMAIN m \cup first \cup second
      /\ \A a \in DOMAIN n :
            n[a] = IF a \in second THEN file[a - pfns[2] * 2048 + 4097]
                   ELSE IF a \in first THEN file[a - pfns[1] * 2048 + 1] ELSE m[a]
  BY DEF LdImg
<1> HIDE DEF first, second, n
<1>5. ASSUME NEW a \in DOMAIN n PROVE a \in Word /\ n[a] \in Word
  <2>1. CASE a \in second
    <3>1. n[a] = file[a - pfns[2] * 2048 + 4097]
      BY <1>4, <2>1
    <3>2. a \in Word
      BY <1>3, <2>1, InWord
    <3> QED
      BY <1>1, <1>3, <2>1, <3>1, <3>2
  <2>2. CASE a \in first /\ a \notin second
    <3>1. n[a] = file[a - pfns[1] * 2048 + 1]
      BY <1>4, <2>2
    <3>2. a \in Word
      BY <1>2, <2>2, InWord
    <3> QED
      BY <1>1, <1>2, <2>2, <3>1, <3>2
  <2>3. CASE a \notin first /\ a \notin second
    BY <1>4, <2>3 DEF Sound, Words
  <2> QED
    BY <2>1, <2>2, <2>3
<1>6. SameBelow(m, n)
  <2>1. SUFFICES ASSUME NEW b \in Int, b < 6144 PROVE Peek(n, b) = Peek(m, b)
    BY DEF SameBelow
  <2>2. b \notin first /\ b \notin second
    BY <1>2, <1>3, <2>1
  <2> QED
    BY <1>4, <2>2 DEF Peek
<1>7. Bitmap(n)
  <2>1. Peek(n, 3) = Peek(m, 3)
    BY <1>6 DEF SameBelow
  <2> QED
    BY <1>4, <2>1 DEF Sound, Bitmap
<1>8. Tables(n)
  BY <1>6, SameFresh DEF Sound
<1>9. Sound(n)
  BY <1>5, <1>7, <1>8 DEF Sound, Words
<1> QED
  BY <1>6, <1>9 DEF n

LEMMA FileMissingKeeps == IInv /\ FileMissing => IInv'
  BY DEF IInv, FileMissing, Booting, Creating, Running, NewPid, Peek, Current, Serving

\* loadProc(0): the first process runs if there is one.
LEMMA LoadFirstProcKeeps == IInv /\ LoadFirstProc => IInv'
<1> SUFFICES ASSUME IInv, LoadFirstProc PROVE IInv'
  OBVIOUS
<1>1. /\ Sound(mem) /\ NewPid \in 0..7 /\ Pcbs(mem, NewPid) /\ reg \in [0..10 -> Word]
      /\ NewPid = 0 => Peek(mem, 13) = 0
  BY DEF IInv, LoadFirstProc, Booting
<1>2. /\ status' = "running" /\ UNCHANGED args
      /\ mem' = Poke(mem, 0, 0)
      /\ reg' = [reg EXCEPT ![RPC] = Peek(mem, PcbAt(0) + 1), ![PTBR] = Peek(mem, PcbAt(0) + 2)]
  BY DEF LoadFirstProc
<1>3. 0 \in Word /\ Elsewhere(0)
  <2>1. 0 \in Word
    BY InWord
  <2> QED
    BY <2>1 DEF Elsewhere
<1>4. Sound(mem')
  BY <1>1, <1>2, <1>3, SoundPoke
<1>5. Peek(mem', 0) = 0 /\ \A b : b # 0 => Peek(mem', b) = Peek(mem, b)
  BY <1>2, PeekPoke
<1>6. reg' \in [0..10 -> Word] /\ reg'[RPC] = Peek(mem, PcbAt(0) + 1) /\ reg'[PTBR] = Peek(mem, PcbAt(0) + 2)
  <2>1. Peek(mem, PcbAt(0) + 1) \in Word /\ Peek(mem, PcbAt(0) + 2) \in Word
    BY <1>1, PeekWord DEF Sound
  <2> QED
    BY <1>1, <1>2, <2>1 DEF RPC, PTBR
<1>7. NewPid' = NewPid
  BY <1>5 DEF NewPid
<1>8. CASE NewPid = 0
  <2>1. reg'[RPC] = 0
    BY <1>1, <1>6, <1>8 DEF PcbAt
  <2> QED
    BY <1>1, <1>2, <1>4, <1>6, <1>7, <2>1 DEF IInv, Booting, Creating, Running
<1>9. CASE NewPid # 0
  <2>1. Current' = 0
    BY <1>5 DEF Current
  <2>2. 0 \in 0..(NewPid - 1)
    BY <1>1, <1>9
  <2>3. reg'[PTBR] = TableAt(0)
    BY <1>1, <1>6, <2>2 DEF Pcbs
  <2>4. Pcbs(mem', NewPid)
    <3>1. ASSUME NEW p \in 0..(NewPid - 1) PROVE PcbAt(p) + 2 # 0
      BY <1>1 DEF PcbAt
    <3> QED
      BY <1>1, <1>5, <3>1 DEF Pcbs
  <2>5. Serving'
    BY <1>1, <1>7, <1>9, <2>1, <2>2, <2>3, <2>4 DEF Serving
  <2> QED
    BY <1>1, <1>2, <1>4, <1>6, <1>7, <2>5 DEF IInv, Booting, Creating, Running
<1> QED
  BY <1>8, <1>9

\* A new PCB is a word of the process, of its code and of its table.
Filled(m, n, p) ==
    LET c == PcbAt(p)
    IN  /\ DOMAIN n = DOMAIN m \cup {c, c + 1, c + 2}
        /\ Peek(n, c) = p /\ Peek(n, c + 1) = CodeStart /\ Peek(n, c + 2) = TableAt(p)
        /\ \A b : b \notin {c, c + 1, c + 2} => Peek(n, b) = Peek(m, b)

LEMMA PcbFilled ==
    ASSUME IInv, BeginCreate, NEW n \in 0..7, n = NewPid
    PROVE  Filled(mem, mem', n)
<1> DEFINE c == PcbAt(n)
<1>1. Sound(mem)
  BY DEF IInv
<1>2. mem' = [a \in DOMAIN mem \cup c..(c + 2) |->
                 IF a - c + 1 \in 1..3 THEN <<n, CodeStart, TableAt(n)>>[a - c + 1] ELSE mem[a]]
  BY DEF BeginCreate
<1>3. c \in Int
  BY DEF PcbAt
<1> HIDE DEF c
<1>4. \A a \in DOMAIN mem : a \in Int
  BY <1>1, WordBounds DEF Sound, Words
<1>5. mem'[c] = n /\ mem'[c + 1] = CodeStart /\ mem'[c + 2] = TableAt(n)
  <2>1. c \in c..(c + 2) /\ c + 1 \in c..(c + 2) /\ c + 2 \in c..(c + 2)
        /\ c - c + 1 = 1 /\ c + 1 - c + 1 = 2 /\ c + 2 - c + 1 = 3
    BY <1>3
  <2> QED
    BY <1>2, <2>1
<1>6. ASSUME NEW a \in DOMAIN mem, a \notin {c, c + 1, c + 2} PROVE mem'[a] = mem[a]
  <2>1. a - c + 1 \notin 1..3
    BY <1>3, <1>4, <1>6
  <2> QED
    BY <1>2, <2>1
<1>7. DOMAIN mem' = DOMAIN mem \cup {c, c + 1, c + 2}
  <2>1. c..(c + 2) = {c, c + 1, c + 2}
    BY <1>3
  <2> QED
    BY <1>2, <2>1
<1>8. /\ Peek(mem', c) = n /\ Peek(mem', c + 1) = CodeStart /\ Peek(mem', c + 2) = TableAt(n)
      /\ \A b : b \notin {c, c + 1, c + 2} => Peek(mem', b) = Peek(mem, b)
  BY <1>5, <1>6, <1>7 DEF Peek
<1> QED
  BY <1>7, <1>8 DEF Filled, c

\* It touches no table and no bitmap.
LEMMA BeginCreateKeeps == IInv /\ BeginCreate => IInv'
<1> SUFFICES ASSUME IInv, BeginCreate PROVE IInv'
  OBVIOUS
<1>0. PICK n \in 0..7 : n = NewPid
  BY DEF IInv
<1> DEFINE c == PcbAt(n)
<1>1. /\ Sound(mem) /\ Fresh(mem, n, 0) /\ Pcbs(mem, n)
      /\ args \in Seq(Programs) /\ args # <<>> /\ reg \in [0..10 -> Word]
  BY <1>0 DEF IInv, BeginCreate, Booting
<1>2. status' = "create" /\ frames' = <<>> /\ UNCHANGED <<args, reg>>
  BY <1>0 DEF BeginCreate
<1>3. c \in Int /\ c = 12 + 3 * n
  BY <1>1 DEF PcbAt
<1>4. n \in Word /\ CodeStart \in Word /\ TableAt(n) \in Word
  <2>1. CodeStart \in Word
    BY InWord DEF CodeStart
  <2>2. n \in Word
    BY <1>1, InWord
  <2>3. TableAt(n) \in Int /\ 0 <= TableAt(n) /\ TableAt(n) <= 65535
    BY <1>1 DEF TableAt
  <2> QED
    BY <2>1, <2>2, <2>3, InWord
<1>5. Filled(mem, mem', n)
  BY <1>0, PcbFilled
<1>6. /\ Peek(mem', c) = n /\ Peek(mem', c + 1) = CodeStart /\ Peek(mem', c + 2) = TableAt(n)
      /\ DOMAIN mem' = DOMAIN mem \cup {c, c + 1, c + 2}
  BY <1>5 DEF Filled
<1>7. \A b : b \notin {c, c + 1, c + 2} => Peek(mem', b) = Peek(mem, b)
  BY <1>5 DEF Filled
<1> HIDE DEF c
<1>10. Words(mem')
  <2>1. c \in Word /\ c + 1 \in Word /\ c + 2 \in Word
    <3>1. c \in Int /\ 0 <= c /\ c <= 65000
      BY <1>1, <1>3
    <3> QED
      BY <3>1, InWord
  <2>2. ASSUME NEW a \in DOMAIN mem' PROVE a \in Word /\ Peek(mem', a) \in Word
    <3>1. CASE a \in {c, c + 1, c + 2}
      BY <1>4, <1>6, <2>1, <3>1
    <3>2. CASE a \notin {c, c + 1, c + 2}
      BY <1>1, <1>6, <1>7, <3>2, PeekWord DEF Sound, Words
    <3> QED
      BY <3>1, <3>2
  <2> QED
    BY <2>2 DEF Words, Peek
<1>11. \A b \in {1, 3, 4} : b \notin {c, c + 1, c + 2}
  BY <1>1, <1>3
<1>12. Bitmap(mem') /\ Peek(mem', 1) = Peek(mem, 1) /\ Peek(mem', 3) = Peek(mem, 3) /\ Peek(mem', 4) = Peek(mem, 4)
  <2>1. Peek(mem', 1) = Peek(mem, 1) /\ Peek(mem', 3) = Peek(mem, 3) /\ Peek(mem', 4) = Peek(mem, 4)
    BY <1>7, <1>11
  <2> QED
    BY <1>1, <1>6, <2>1 DEF Sound, Bitmap
<1>13. \A q \in 0..7, v \in 0..31 : Entry(mem', q, v) = Entry(mem, q, v)
  <2>1. ASSUME NEW q \in 0..7, NEW v \in 0..31 PROVE TableAt(q) + v \notin {c, c + 1, c + 2}
    <3>1. c + 2 < 4096
      BY <1>1, <1>3
    <3>2. 4096 <= TableAt(q) + v
      BY TableBounds
    <3> QED
      BY <1>3, <3>1, <3>2
  <2> QED
    BY <1>7, <2>1 DEF Entry, EntryAt
<1>14. Sound(mem')
  BY <1>1, <1>10, <1>12, <1>13 DEF Sound, Tables
<1>15. NewPid' = n
  BY <1>0, <1>12 DEF NewPid
<1>16. Fresh(mem', n, 0)
  <2>1. \A f \in 3..31 : IsFree(mem', f) <=> IsFree(mem, f)
    BY <1>12, BitmapPlace DEF IsFree
  <2>2. \A q \in n..7 : q \in 0..7
    OBVIOUS
  <2>3. \A k \in 1..0 : FALSE
    OBVIOUS
  <2> QED
    BY <1>1, <1>13, <2>1, <2>2, <2>3 DEF Fresh
<1>17. Pcbs(mem', n + 1)
  <2>1. SUFFICES ASSUME NEW p \in 0..n PROVE Peek(mem', PcbAt(p) + 2) = TableAt(p)
    BY <1>1 DEF Pcbs
  <2>2. CASE p = n
    BY <1>6, <2>2 DEF c
  <2>3. CASE p # n
    <3>1. p \in 0..(n - 1)
      BY <1>1, <2>3
    <3>2. PcbAt(p) + 2 \notin {c, c + 1, c + 2}
      BY <1>1, <1>3, <3>1 DEF PcbAt
    <3> QED
      BY <1>1, <1>7, <3>1, <3>2 DEF Pcbs
  <2> QED
    BY <2>2, <2>3
<1>18. Len(frames') = 0 /\ frames' = [k \in 1..0 |-> 2 + 4 * n + k]
  BY <1>2
<1>19. Creating'
  BY <1>1, <1>2, <1>15, <1>16, <1>17, <1>18 DEF Creating
<1> QED
  BY <1>1, <1>2, <1>14, <1>15, <1>19 DEF IInv, Booting, Running

\* The state of a createProc, and what its next allocMem finds: the next frame in
\* the order, or none once all are taken.
LEMMA NextAllocation ==
    ASSUME IInv, status = "create", Len(frames) < 4
    PROVE  LET g == Len(frames)
               f == 3 + 4 * NewPid + g
           IN  \/ /\ f \in 3..31 /\ FirstFree(mem, f)
                  /\ Allocation = [mem |-> Taken(mem, f, EntryAt(NewPid, 6 + g),
                                                 NewPte(f, TRUE, 6 + g >= 8)), pfn |-> f]
               \/ /\ \A h \in 3..31 : ~IsFree(mem, h)
                  /\ Allocation.pfn = NoFrame /\ NewPid = 7 /\ g = 1
<1>1. PICK n \in 0..7 : n = NewPid
  BY DEF IInv
<1>2. PICK g \in 0..3 : g = Len(frames)
  <2>1. Len(frames) \in 0..4
    BY DEF IInv, Creating
  <2> QED
    BY <2>1
<1>3. Fresh(mem, n, g)
  BY <1>1, <1>2 DEF IInv, Creating
<1>4. /\ \A f \in 3..31 : IsFree(mem, f) <=> f >= 3 + 4 * n + g
      /\ \A v \in 0..31 : Valid(Entry(mem, n, v)) <=> v \in 6..(5 + g)
      /\ g # 0 => 2 + 4 * n + g <= 31
  <2>1. \A f \in 3..31 : IsFree(mem, f) <=> f >= 3 + 4 * n + g
    BY <1>3 DEF Fresh
  <2>2. ASSUME NEW v \in 0..31 PROVE Valid(Entry(mem, n, v)) <=> v \in 6..(5 + g)
    <3>1. n \in n..7
      OBVIOUS
    <3> QED
      BY <1>3, <3>1 DEF Fresh
  <2>3. ASSUME g # 0 PROVE 2 + 4 * n + g <= 31
    <3>1. g \in 1..g
      BY <2>3
    <3> QED
      BY <1>3, <3>1 DEF Fresh
  <2> QED
    BY <2>1, <2>2, <2>3
<1>5. PICK got : got = Allocation
  OBVIOUS
<1>6. got = AllocMem(mem, TableAt(n), 6 + g, TRUE, 6 + g >= 8)
  BY <1>1, <1>2, <1>5 DEF Allocation, SegmentPage
<1>7. ~Valid(Entry(mem, n, 6 + g))
  <2>1. 6 + g \in 0..31 /\ 6 + g \notin 6..(5 + g)
    OBVIOUS
  <2> QED
    BY <1>4, <2>1
<1>8. \/ (\A f \in 3..31 : ~IsFree(mem, f)) /\ got = [mem |-> mem, pfn |-> NoFrame]
      \/ \E f \in 3..31 :
            /\ FirstFree(mem, f)
            /\ got = [mem |-> Taken(mem, f, EntryAt(n, 6 + g), NewPte(f, TRUE, 6 + g >= 8)), pfn |-> f]
  <2>1. PICK v, read, write : v = 6 + g /\ read = TRUE /\ write = (6 + g >= 8)
    OBVIOUS
  <2>2. got = AllocMem(mem, TableAt(n), v, read, write) /\ ~Valid(Entry(mem, n, v))
    BY <1>6, <1>7, <2>1
  <2>3. \/ (\A f \in 3..31 : ~IsFree(mem, f)) /\ got = [mem |-> mem, pfn |-> NoFrame]
        \/ \E f \in 3..31 :
              /\ FirstFree(mem, f)
              /\ got = [mem |-> Taken(mem, f, EntryAt(n, v), NewPte(f, read, write)), pfn |-> f]
    <3>1. AllocResult(mem, n, v, read, write, got)
      BY <2>2, AllocCases
    <3> QED
      BY <2>2, <3>1 DEF AllocResult
  <2> QED
    BY <2>1, <2>3
<1>9. CASE (\A f \in 3..31 : ~IsFree(mem, f)) /\ got = [mem |-> mem, pfn |-> NoFrame]
  <2>1. ~IsFree(mem, 31)
    BY <1>9
  <2>2. 31 < 3 + 4 * n + g
    BY <1>4, <2>1
  <2>3. g = 0 \/ 2 + 4 * n + g <= 31
    BY <1>4
  <2>4. n = 7 /\ g = 1
    BY <2>2, <2>3
  <2> QED
    BY <1>1, <1>2, <1>5, <1>9, <2>4
<1>10. CASE \E f \in 3..31 :
            /\ FirstFree(mem, f)
            /\ got = [mem |-> Taken(mem, f, EntryAt(n, 6 + g), NewPte(f, TRUE, 6 + g >= 8)), pfn |-> f]
  <2>1. PICK f \in 3..31 :
            /\ FirstFree(mem, f)
            /\ got = [mem |-> Taken(mem, f, EntryAt(n, 6 + g), NewPte(f, TRUE, 6 + g >= 8)), pfn |-> f]
    BY <1>10
  <2>2. f >= 3 + 4 * n + g
    BY <1>4, <2>1 DEF FirstFree
  <2>3. ASSUME f > 3 + 4 * n + g PROVE FALSE
    <3>1. PICK h \in 3..31 : h = 3 + 4 * n + g
      BY <2>3
    <3>2. h \in 3..(f - 1)
      BY <2>3, <3>1
    <3>3. h >= 3 + 4 * n + g
      BY <3>1
    <3>4. IsFree(mem, h)
      BY <1>4, <3>3
    <3> QED
      BY <2>1, <3>2, <3>4 DEF FirstFree
  <2>4. f = 3 + 4 * n + g
    BY <2>2, <2>3
  <2> QED
    BY <1>1, <1>2, <1>5, <2>1, <2>4
<1> QED
  BY <1>8, <1>9, <1>10

\* No word that allocMem or freeMem writes is one of a PCB, or the number of
\* processes or of the current one.
OsWord(b) == b \in Int /\ 0 <= b /\ b <= 35 /\ b # 3 /\ b # 4

SameOs(m, n) == \A b : OsWord(b) => Peek(n, b) = Peek(m, b)

LEMMA PcbsKept ==
    ASSUME NEW m, NEW n, SameOs(m, n), NEW q \in 0..8, Pcbs(m, q)
    PROVE  Pcbs(n, q)
<1>1. ASSUME NEW p \in 0..(q - 1) PROVE OsWord(PcbAt(p) + 2)
  BY DEF OsWord, PcbAt
<1> QED
  BY <1>1 DEF Pcbs, SameOs

LEMMA OsWordsApart ==
    ASSUME NEW b, OsWord(b)
    PROVE  /\ b \notin {3, 4} /\ ~InTables(b)
           /\ \A p \in 0..7, v \in 0..31 : b # EntryAt(p, v)
<1>1. b \notin {3, 4} /\ ~(4096 <= b /\ b <= 4351)
  BY DEF OsWord
<1>2. \A p \in 0..7, v \in 0..31 : 4096 <= EntryAt(p, v)
  BY TableBounds DEF EntryAt
<1> QED
  BY <1>1, <1>2 DEF InTables, OsWord

\* The next frame goes to the next page.
LEMMA AllocSegmentPageKeeps == IInv /\ AllocSegmentPage => IInv'
<1> SUFFICES ASSUME IInv, AllocSegmentPage PROVE IInv'
  OBVIOUS
<1>1. PICK n \in 0..7 : n = NewPid
  BY DEF IInv
<1>2. /\ status = "create" /\ Sound(mem) /\ args \in Seq(Programs) /\ args # <<>>
      /\ reg \in [0..10 -> Word] /\ Pcbs(mem, n + 1)
      /\ frames = [k \in 1..Len(frames) |-> 2 + 4 * n + k]
  BY <1>1 DEF IInv, AllocSegmentPage, Creating
<1>3. PICK g \in 0..3 : g = Len(frames)
  <2>1. Len(frames) \in 0..4
    BY DEF IInv, AllocSegmentPage, Creating
  <2>2. Len(frames) < 4
    BY DEF AllocSegmentPage
  <2>3. PICK g \in 0..4 : g = Len(frames)
    BY <2>1
  <2>4. g < 4
    BY <2>2, <2>3
  <2> QED
    BY <2>3, <2>4
<1>4. Fresh(mem, n, g)
  BY <1>1, <1>3 DEF IInv, AllocSegmentPage, Creating
<1>5. /\ Allocation.pfn # NoFrame /\ UNCHANGED <<status, args, reg>>
      /\ frames' = Append(frames, Allocation.pfn) /\ mem' = Allocation.mem
  BY DEF AllocSegmentPage
<1>6. PICK f \in 3..31 : f = 3 + 4 * n + g /\ FirstFree(mem, f)
         /\ Allocation = [mem |-> Taken(mem, f, EntryAt(n, 6 + g), NewPte(f, TRUE, 6 + g >= 8)), pfn |-> f]
  BY <1>1, <1>2, <1>3, <1>5, NextAllocation DEF AllocSegmentPage
<1>7. PICK v \in 0..31 : v = 6 + g
  OBVIOUS
<1>8. PICK read, write : read = TRUE /\ write = (6 + g >= 8)
  OBVIOUS
<1>9. mem' = Taken(mem, f, EntryAt(n, v), NewPte(f, read, write)) /\ frames' = Append(frames, f)
  BY <1>5, <1>6, <1>7, <1>8
<1>10. /\ Sound(mem')
       /\ Entry(mem', n, v) = NewPte(f, read, write)
       /\ \A b : b \notin {3, 4, EntryAt(n, v)} => Peek(mem', b) = Peek(mem, b)
       /\ \A h \in 3..31 : IsFree(mem', h) <=> IsFree(mem, h) /\ h # f
  <2>1. IsFree(mem, f)
    BY <1>6 DEF FirstFree
  <2>2. Takes(mem, mem', f, n, v, NewPte(f, read, write))
    BY <1>2, <1>9, <2>1, TakenSound
  <2> QED
    BY <2>2 DEF Takes
<1>11. FrameIn(Entry(mem', n, v)) = f /\ Valid(Entry(mem', n, v))
  BY <1>10, FrameOfNew
<1>12. SameOs(mem, mem')
  BY <1>10, OsWordsApart DEF SameOs
<1>13. NewPid' = n
  <2>1. OsWord(1)
    BY DEF OsWord
  <2> QED
    BY <1>1, <1>12, <2>1 DEF NewPid, SameOs
<1>14. Pcbs(mem', n + 1)
  BY <1>2, <1>12, PcbsKept
<1>15. \A q \in 0..7, u \in 0..31 : q # n \/ u # v => Entry(mem', q, u) = Entry(mem, q, u)
  <2>1. ASSUME NEW q \in 0..7, NEW u \in 0..31, q # n \/ u # v
        PROVE  EntryAt(q, u) \notin {3, 4, EntryAt(n, v)}
    <3>1. EntryAt(q, u) # EntryAt(n, v)
      BY <2>1, EntriesApart
    <3>2. 4096 <= EntryAt(q, u)
      BY EntryBounds
    <3> QED
      BY <3>1, <3>2
  <2> QED
    BY <1>10, <2>1 DEF Entry
<1>16. Fresh(mem', n, g + 1)
  <2>1. \A h \in 3..31 : IsFree(mem', h) <=> h >= 3 + 4 * n + (g + 1)
    <3>1. \A h \in 3..31 : IsFree(mem, h) <=> h >= 3 + 4 * n + g
      BY <1>4 DEF Fresh
    <3> QED
      BY <1>6, <1>10, <3>1
  <2>2. ASSUME NEW q \in n..7, NEW u \in 0..31
        PROVE  Valid(Entry(mem', q, u)) <=> q = n /\ u \in 6..(5 + (g + 1))
    <3>1. q \in 0..7
      OBVIOUS
    <3>2. Valid(Entry(mem, q, u)) <=> q = n /\ u \in 6..(5 + g)
      BY <1>4 DEF Fresh
    <3>3. CASE q = n /\ u = v
      BY <1>7, <1>11, <3>3
    <3>4. CASE q # n \/ u # v
      <4>1. Entry(mem', q, u) = Entry(mem, q, u)
        BY <1>15, <3>1, <3>4
      <4> QED
        BY <1>7, <3>2, <3>4, <4>1
    <3> QED
      BY <3>3, <3>4
  <2>3. ASSUME NEW k \in 1..(g + 1)
        PROVE  2 + 4 * n + k <= 31 /\ FrameIn(Entry(mem', n, 5 + k)) = 2 + 4 * n + k
    <3>1. CASE k = g + 1
      <4>1. 5 + k = v /\ 2 + 4 * n + k = f
        BY <1>6, <1>7, <3>1
      <4> QED
        BY <1>11, <4>1
    <3>2. CASE k # g + 1
      <4>1. k \in 1..g
        BY <3>2
      <4>2. 2 + 4 * n + k <= 31 /\ FrameIn(Entry(mem, n, 5 + k)) = 2 + 4 * n + k
        BY <1>4, <4>1 DEF Fresh
      <4>3. 5 + k \in 0..31 /\ 5 + k # v
        BY <1>7, <4>1
      <4>4. Entry(mem', n, 5 + k) = Entry(mem, n, 5 + k)
        BY <1>15, <4>3
      <4> QED
        BY <4>2, <4>4
    <3> QED
      BY <3>1, <3>2
  <2> QED
    BY <2>1, <2>2, <2>3 DEF Fresh
<1>17. frames' = [k \in 1..(g + 1) |-> 2 + 4 * n + k] /\ Len(frames') = g + 1
  <2>1. frames = [k \in 1..g |-> 2 + 4 * n + k]
    BY <1>2, <1>3
  <2>2. f = 2 + 4 * n + (g + 1)
    BY <1>6
  <2>3. frames \in Seq(Int)
    BY <2>1
  <2> QED
    BY <1>3, <1>9, <2>1, <2>2, <2>3
<1>18. Creating'
  BY <1>2, <1>5, <1>13, <1>14, <1>16, <1>17, SMTT(30) DEF Creating
<1> QED
  BY <1>2, <1>5, <1>10, <1>13, <1>18 DEF IInv, Booting, Running

\* Only the eighth createProc fails, with one frame.
LEMMA LastFails ==
    ASSUME IInv, CreateFails
    PROVE  /\ NewPid = 7 /\ Len(frames) = 1 /\ \A h \in 3..31 : ~IsFree(mem, h)
           /\ mem' = FreeMem(mem, {6}, TableAt(7))
<1>1. status = "create" /\ Len(frames) < 4 /\ Allocation.pfn = NoFrame
  BY DEF CreateFails
<1>2. NewPid = 7 /\ Len(frames) = 1 /\ \A h \in 3..31 : ~IsFree(mem, h)
  <2>1. ASSUME NEW f \in 3..31, NEW m, Allocation = [mem |-> m, pfn |-> f] PROVE FALSE
    BY <1>1, <2>1 DEF NoFrame
  <2> QED
    BY <1>1, <2>1, NextAllocation
<1>3. 6..(SegmentPage - 1) = {6}
  BY <1>2 DEF SegmentPage
<1> QED
  BY <1>2, <1>3 DEF CreateFails

\* It gives that one back.
LEMMA CreateFailsKeeps == IInv /\ CreateFails => IInv'
<1> SUFFICES ASSUME IInv, CreateFails PROVE IInv'
  OBVIOUS
<1>1. /\ status = "create" /\ Sound(mem) /\ args \in Seq(Programs) /\ args # <<>>
      /\ reg \in [0..10 -> Word]
  BY DEF IInv, CreateFails, Creating
<1>2. status' = "boot" /\ args' = Tail(args) /\ UNCHANGED reg
  BY DEF CreateFails
<1>3. NewPid = 7 /\ Len(frames) = 1 /\ \A h \in 3..31 : ~IsFree(mem, h)
  BY LastFails
<1>4. Fresh(mem, 7, 1) /\ Pcbs(mem, 8)
  BY <1>1, <1>3 DEF IInv, Creating
<1>5. mem' = FreeMem(mem, {6}, TableAt(7))
  BY LastFails
<1>6. Frees(mem, mem', {6}, 7)
  BY <1>1, <1>5, FreedSound
<1>7. SameOs(mem, mem')
  BY <1>6, OsWordsApart DEF Frees, SameOs
<1>8. NewPid' = 7
  <2>1. OsWord(1)
    BY DEF OsWord
  <2> QED
    BY <1>3, <1>7, <2>1 DEF NewPid, SameOs
<1>9. Pcbs(mem', 7)
  <2>1. Pcbs(mem, 7)
    BY <1>4 DEF Pcbs
  <2> QED
    BY <1>7, <2>1, PcbsKept
<1>10. Fresh(mem', 7, 0)
  <2>1. \A v \in 0..31 : Valid(Entry(mem, 7, v)) <=> v = 6
    BY <1>4 DEF Fresh
  <2>2. FrameIn(Entry(mem, 7, 6)) = 31
    <3>1. 1 \in 1..1 /\ 2 + 4 * 7 + 1 = 31 /\ 5 + 1 = 6
      OBVIOUS
    <3> QED
      BY <1>4, <3>1 DEF Fresh
  <2>3. Given(mem, {6}, 7) = {31}
    BY <2>1, <2>2 DEF Given
  <2>4. \A f \in 3..31 : IsFree(mem', f) <=> f = 31
    BY <1>3, <1>6, <2>3 DEF Frees
  <2>5. ASSUME NEW v \in 0..31 PROVE ~Valid(Entry(mem', 7, v))
    <3>1. CASE v = 6
      <4>1. Entry(mem', 7, v) = Entry(mem, 7, v) - 1
        BY <1>6, <2>1, <3>1 DEF Frees
      <4>2. Entry(mem, 7, v) \in Word /\ Valid(Entry(mem, 7, v))
        BY <1>1, <2>1, <3>1, PeekWord DEF Sound, Entry
      <4> QED
        BY <4>1, <4>2, FrameKept
    <3>2. CASE v # 6
      <4>1. Entry(mem', 7, v) = Entry(mem, 7, v)
        BY <1>6, <2>1, <3>2 DEF Frees
      <4> QED
        BY <2>1, <3>2, <4>1
    <3> QED
      BY <3>1, <3>2
  <2>6. \A f \in 3..31 : f >= 3 + 4 * 7 + 0 <=> f = 31
    OBVIOUS
  <2> QED
    BY <2>4, <2>5, <2>6 DEF Fresh
<1>11. args' \in Seq(Programs)
  BY <1>1, <1>2
<1> QED
  BY <1>1, <1>2, <1>6, <1>8, <1>9, <1>10, <1>11 DEF IInv, Frees, Booting, Creating, Running

\* The files go to the four frames, and there is one more process.
LEMMA FinishCreateKeeps == IInv /\ FinishCreate => IInv'
<1> SUFFICES ASSUME IInv, FinishCreate PROVE IInv'
  OBVIOUS
<1>1. PICK n \in 0..7 : n = NewPid
  BY DEF IInv
<1>2. /\ status = "create" /\ Sound(mem) /\ args \in Seq(Programs) /\ args # <<>>
      /\ reg \in [0..10 -> Word] /\ Pcbs(mem, n + 1) /\ Fresh(mem, n, 4) /\ Len(frames) = 4
      /\ frames = [k \in 1..4 |-> 2 + 4 * n + k]
  BY <1>1 DEF IInv, FinishCreate, Creating
<1>3. n <= 6
  <2>1. 4 \in 1..4
    OBVIOUS
  <2>2. 2 + 4 * n + 4 <= 31
    BY <1>2, <2>1 DEF Fresh
  <2> QED
    BY <2>2
<1>4. PICK file, heap : file = Head(args).code /\ heap = Head(args).heap
         /\ file \in Seq(Word) /\ heap \in Seq(Word)
  <2>1. Head(args) \in Programs
    BY <1>2
  <2> QED
    BY <2>1 DEF Programs
<1>5. PICK p1, p2 : p1 = SubSeq(frames, 1, 2) /\ p2 = SubSeq(frames, 3, 4)
  OBVIOUS
<1>6. p1[1] \in 3..30 /\ p1[2] \in 3..30 /\ p2[1] \in 3..30 /\ p2[2] \in 3..30
  <2>1. frames \in Seq(Int) /\ frames[1] = 3 + 4 * n /\ frames[2] = 4 + 4 * n
        /\ frames[3] = 5 + 4 * n /\ frames[4] = 6 + 4 * n
    BY <1>2
  <2>2. p1[1] = frames[1] /\ p1[2] = frames[2] /\ p2[1] = frames[3] /\ p2[2] = frames[4]
    BY <1>2, <1>5, <2>1
  <2> QED
    BY <1>3, <2>1, <2>2
<1>7. PICK code, m : code = LdImg(mem, file, p1) /\ m = LdImg(code, heap, p2)
         /\ mem' = Poke(m, 1, n + 1)
  BY <1>1, <1>4, <1>5 DEF FinishCreate
<1>8. Sound(code) /\ SameBelow(mem, code)
  BY <1>2, <1>4, <1>6, <1>7, LdImgSound
<1>9. Sound(m) /\ SameBelow(code, m)
  BY <1>4, <1>6, <1>7, <1>8, LdImgSound
<1>10. SameBelow(mem, m)
  BY <1>8, <1>9 DEF SameBelow
<1>11. Fresh(m, n, 4) /\ Pcbs(m, n + 1)
  <2>1. n + 1 \in 0..7
    BY <1>3
  <2> QED
    BY <1>2, <1>10, <2>1, SameFresh, SMTT(30)
<1>12. n + 1 \in Word /\ Elsewhere(1)
  <2>1. n + 1 \in Word /\ 1 \in Word
    BY InWord
  <2> QED
    BY <2>1 DEF Elsewhere
<1>13. Sound(mem')
  BY <1>7, <1>9, <1>12, SoundPoke
<1>14. Peek(mem', 1) = n + 1 /\ \A b : b # 1 => Peek(mem', b) = Peek(m, b)
  BY <1>7, PeekPoke
<1>15. Pcbs(mem', n + 1)
  <2>1. \A p \in 0..n : PcbAt(p) + 2 # 1
    BY DEF PcbAt
  <2> QED
    BY <1>11, <1>14, <2>1 DEF Pcbs
<1>16. Fresh(mem', n + 1, 0)
  <2>1. \A f \in 3..31 : IsFree(mem', f) <=> IsFree(m, f)
    BY <1>14, BitmapPlace DEF IsFree
  <2>2. \A f \in 3..31 : f >= 3 + 4 * n + 4 <=> f >= 3 + 4 * (n + 1) + 0
    OBVIOUS
  <2>3. \A f \in 3..31 : IsFree(mem', f) <=> f >= 3 + 4 * (n + 1) + 0
    BY <1>11, <2>1, <2>2 DEF Fresh
  <2>4. ASSUME NEW q \in (n + 1)..7, NEW v \in 0..31 PROVE ~Valid(Entry(mem', q, v))
    <3>1. q \in n..7 /\ q # n /\ q \in 0..7
      OBVIOUS
    <3>2. EntryAt(q, v) # 1
      BY <3>1, EntryBounds
    <3>3. Entry(mem', q, v) = Entry(m, q, v)
      BY <1>14, <3>2 DEF Entry
    <3> QED
      BY <1>11, <3>1, <3>3 DEF Fresh
  <2>5. \A v \in 6..(5 + 0) : FALSE
    OBVIOUS
  <2> QED
    BY <2>3, <2>4, <2>5 DEF Fresh
<1>17. NewPid' = n + 1
  BY <1>14 DEF NewPid
<1>18. status' = "boot" /\ args' \in Seq(Programs) /\ reg' \in [0..10 -> Word]
  <2>1. status' = "boot" /\ args' = Tail(args) /\ reg' = reg
    BY DEF FinishCreate
  <2> QED
    BY <1>2, <2>1
<1> QED
  BY <1>3, <1>13, <1>15, <1>16, <1>17, <1>18 DEF IInv, Booting, Creating, Running
-----------------------------------------------------------------------------
(* run                                                                      *)

\* A process that fetches an instruction is the one that is being served.
LEMMA InService ==
    ASSUME IInv, status = "running", Vpn(reg[RPC]) # 0
    PROVE  Serving
<1>1. reg[RPC] # 0
  BY DEF Vpn, PageWords
<1> QED
  BY <1>1 DEF IInv, Running

\* The fields of an instruction.
LEMMA FieldBounds ==
    ASSUME NEW i \in Word
    PROVE  /\ DR(i) \in 0..7 /\ SR1(i) \in 0..7 /\ SR2(i) \in 0..7
           /\ SEXTIMM(i) \in Word
           /\ POFF(i) \in Int /\ POFF9(i) \in Int /\ POFF11(i) \in Int
<1>1. i \in Int /\ 0 <= i /\ i <= 65535
  BY WordBounds
<1>2. DR(i) \in 0..7 /\ SR1(i) \in 0..7 /\ SR2(i) \in 0..7
  BY <1>1 DEF DR, SR1, SR2, Field
<1>3. SEXTIMM(i) \in Word
  <2>1. SEXTIMM(i) \in Int /\ 0 <= SEXTIMM(i) /\ SEXTIMM(i) <= 65535
    BY <1>1 DEF SEXTIMM, Sext, Field
  <2> QED
    BY <2>1, InWord
<1>4. POFF(i) \in Int /\ POFF9(i) \in Int /\ POFF11(i) \in Int
  BY <1>1 DEF POFF, POFF9, POFF11, Sext, Field
<1> QED
  BY <1>2, <1>3, <1>4

LEMMA FlagIsWord == ASSUME NEW v PROVE FlagOf(v) \in Word
<1>1. 1 \in Word /\ 2 \in Word /\ 4 \in Word
  BY InWord
<1> QED
  BY <1>1 DEF FlagOf, FP, FZ, FN

\* What run() reads: words.
LEMMA WordsRead ==
    ASSUME IInv
    PROVE  /\ Ir \in Word /\ Pc \in Word /\ \A a : Mr(a) \in Word
           /\ Relative \in Word /\ Based \in Word
<1>1. Sound(mem) /\ reg \in [0..10 -> Word]
  BY DEF IInv
<1>2. \A a : Mr(a) \in Word
  <2>1. 65535 \in Word
    BY InWord
  <2>2. \A a : Peek(mem, a) \in Word
    BY <1>1, PeekWord DEF Sound
  <2> QED
    BY <2>1, <2>2 DEF Mr
<1>3. Ir \in Word
  BY <1>2 DEF Ir
<1>4. Pc \in Word
  <2>1. reg[RPC] \in Int
    BY <1>1, WordBounds DEF RPC
  <2> QED
    BY <2>1, WrapWord DEF Pc
<1>5. Relative \in Word
  <2>1. Pc + POFF9(Ir) \in Int
    BY <1>3, <1>4, FieldBounds, WordBounds
  <2> QED
    BY <2>1, WrapWord DEF Relative
<1>6. Based \in Word
  <2>1. SR1(Ir) \in 0..10
    BY <1>3, FieldBounds
  <2>2. reg[SR1(Ir)] + POFF(Ir) \in Int
    BY <1>1, <1>3, <2>1, FieldBounds, WordBounds
  <2> QED
    BY <2>2, WrapWord DEF Based
<1> QED
  BY <1>2, <1>3, <1>4, <1>5, <1>6

\* Registers that are written: the page table base is none of them.
Moves == reg' \in [0..10 -> Word] /\ reg'[PTBR] = reg[PTBR]

LEMMA ResultMoves ==
    ASSUME IInv, NEW w \in Word, Result(w)
    PROVE  Moves
<1>1. reg \in [0..10 -> Word]
  BY DEF IInv
<1>2. Pc \in Word /\ FlagOf(w) \in Word /\ DR(Ir) \in 0..7
  BY WordsRead, FlagIsWord, FieldBounds
<1> QED
  BY <1>1, <1>2 DEF Moves, Result, RPC, RCND, PTBR

LEMMA SetRegMoves ==
    ASSUME IInv, NEW r \in 0..7, NEW w \in Word, SetReg(r, w)
    PROVE  Moves
<1>1. reg \in [0..10 -> Word] /\ Pc \in Word
  BY WordsRead DEF IInv
<1> QED
  BY <1>1 DEF Moves, SetReg, RPC, PTBR

LEMMA GotoMoves ==
    ASSUME IInv, NEW a \in Word, Goto(a)
    PROVE  Moves
  BY DEF IInv, Moves, Goto, RPC, PTBR

\* A step of the process that runs: it leaves the operating system's words and
\* the page table base alone.
LEMMA StepKeeps ==
    ASSUME IInv, status = "running", Vpn(reg[RPC]) # 0, UNCHANGED <<status, args>>,
           Moves, Sound(mem'), SameOs(mem, mem')
    PROVE  IInv'
<1>1. Serving
  BY InService
<1>2. PICK n \in 1..7 : n = NewPid
  BY <1>1 DEF Serving
<1>3. NewPid' = n /\ Current' = Current
  <2>1. OsWord(0) /\ OsWord(1)
    BY DEF OsWord
  <2> QED
    BY <1>2, <2>1 DEF NewPid, Current, SameOs
<1>4. Pcbs(mem', n)
  <2>1. Pcbs(mem, n) /\ n \in 0..8
    BY <1>1, <1>2 DEF Serving
  <2> QED
    BY <2>1, PcbsKept
<1>5. Serving'
  BY <1>1, <1>2, <1>3, <1>4 DEF Serving, Moves
<1> QED
  BY <1>3, <1>5 DEF IInv, Booting, Creating, Running, Moves

\* An instruction of a source register and a register or a number.
LEMMA OperandsAreWords ==
    ASSUME IInv
    PROVE  /\ \A r \in 0..7 : reg[r] \in Word
           /\ reg[DR(Ir)] \in Word /\ reg[SR1(Ir)] \in Word /\ SecondOperand \in Word
<1>1. \A r \in 0..7 : reg[r] \in Word
  BY DEF IInv
<1>2. DR(Ir) \in 0..7 /\ SR1(Ir) \in 0..7 /\ SR2(Ir) \in 0..7 /\ SEXTIMM(Ir) \in Word
  BY WordsRead, FieldBounds
<1> QED
  BY <1>1, <1>2 DEF SecondOperand

LEMMA BrMoves == IInv /\ Br => Moves
<1> SUFFICES ASSUME IInv, Br PROVE Moves
  OBVIOUS
<1>1. PICK a \in Word : Goto(a)
  BY WordsRead DEF Br
<1> QED
  BY <1>1, GotoMoves

LEMMA AddMoves == IInv /\ Add => Moves
<1> SUFFICES ASSUME IInv, Add PROVE Moves
  OBVIOUS
<1>1. reg[SR1(Ir)] + SecondOperand \in Int
  BY OperandsAreWords, WordBounds
<1>2. PICK w \in Word : Result(w)
  BY <1>1, WrapWord DEF Add
<1> QED
  BY <1>2, ResultMoves

LEMMA AndMoves == IInv /\ And => Moves
<1> SUFFICES ASSUME IInv, And PROVE Moves
  OBVIOUS
<1>1. PICK w \in Word : Result(w)
  BY OperandsAreWords, BitAndWord DEF And
<1> QED
  BY <1>1, ResultMoves

LEMMA NotMoves == IInv /\ Not => Moves
<1> SUFFICES ASSUME IInv, Not PROVE Moves
  OBVIOUS
<1>1. PICK v \in Word : v = reg[SR1(Ir)]
  BY OperandsAreWords
<1>2. 65535 - v \in Word
  <2>1. v \in Int /\ 0 <= v /\ v <= 65535
    BY WordBounds
  <2>2. 65535 - v \in Int /\ 0 <= 65535 - v /\ 65535 - v <= 65535
    BY <2>1
  <2> QED
    BY <2>2, InWord
<1>3. PICK w \in Word : Result(w)
  BY <1>1, <1>2 DEF Not
<1> QED
  BY <1>3, ResultMoves

LEMMA LeaMoves == IInv /\ Lea => Moves
<1> SUFFICES ASSUME IInv, Lea PROVE Moves
  OBVIOUS
<1>1. PICK w \in Word : Result(w)
  BY WordsRead DEF Lea
<1> QED
  BY <1>1, ResultMoves

LEMMA JsrMoves == IInv /\ Jsr => Moves
<1> SUFFICES ASSUME IInv, Jsr PROVE Moves
  OBVIOUS
<1>1. Wrap(Pc + POFF11(Ir)) \in Word
  <2>1. Pc + POFF11(Ir) \in Int
    BY WordsRead, FieldBounds, WordBounds
  <2> QED
    BY <2>1, WrapWord
<1>2. PICK target \in Word : reg' = [reg EXCEPT ![7] = Pc, ![RPC] = target]
  BY <1>1, WordsRead, OperandsAreWords DEF Jsr
<1> QED
  BY <1>2, WordsRead DEF IInv, Moves, RPC, PTBR

LEMMA JmpMoves == IInv /\ Jmp => Moves
<1> SUFFICES ASSUME IInv, Jmp PROVE Moves
  OBVIOUS
<1>1. PICK a \in Word : Goto(a)
  BY OperandsAreWords DEF Jmp
<1> QED
  BY <1>1, GotoMoves

LEMMA UnusedMoves == IInv /\ Unused => Moves
  BY WordsRead, GotoMoves DEF Unused
-----------------------------------------------------------------------------
(* Loads and stores                                                         *)

LEMMA VpnBounds == ASSUME NEW a \in Word PROVE Vpn(a) \in 0..31
<1>1. a \in Int /\ 0 <= a /\ a <= 65535
  BY WordBounds
<1> QED
  BY <1>1 DEF Vpn, PageWords

LEMMA AddressIsWord == ASSUME IInv, OPC(Ir) \in Reading \cup Writing PROVE Address \in Word
  BY WordsRead DEF Address, Reading, Writing, Indirect

LEMMA LoadMoves == IInv /\ Load => Moves
<1> SUFFICES ASSUME IInv, Load PROVE Moves
  OBVIOUS
<1>1. PICK w \in Word : Result(w)
  BY WordsRead DEF Load
<1> QED
  BY <1>1, ResultMoves

\* An address of a page that the process has is one of a user frame.
LEMMA PhysicalBounds ==
    ASSUME IInv, Serving, NEW a \in Word, Valid(Pte(a))
    PROVE  Physical(a) \in Word /\ 6144 <= Physical(a)
<1>1. PICK p \in 0..7 : p = Current /\ reg[PTBR] = TableAt(p)
  BY DEF Serving
<1>2. PICK v \in 0..31 : v = Vpn(a)
  BY VpnBounds
<1>3. Pte(a) = Entry(mem, p, v)
  BY <1>1, <1>2 DEF Pte, Entry, EntryAt
<1>4. Entry(mem, p, v) # 0 /\ Pte(a) \in Word
  BY <1>3, ZeroIsInvalid, PeekWord DEF IInv, Sound, Entry
<1>5. FrameIn(Pte(a)) >= 3
  BY <1>3, <1>4 DEF IInv, Sound, Tables
<1>6. PICK f \in Int : f = FrameIn(Pte(a)) /\ 3 <= f /\ f <= 31
  BY <1>4, <1>5, FrameBounds
<1>7. PICK r \in Int : r = a % PageWords /\ 0 <= r /\ r <= 2047
  <2>1. a \in Int
    BY WordBounds
  <2> QED
    BY <2>1 DEF PageWords
<1>8. PICK x \in Int : x = f * 2048 + r
  OBVIOUS
<1>9. 6144 <= x /\ x <= 65535
  BY <1>6, <1>7, <1>8
<1>10. Physical(a) = x
  BY <1>6, <1>7, <1>8 DEF Physical, PageWords
<1>11. x \in Word
  BY <1>9, InWord
<1> QED
  BY <1>9, <1>10, <1>11

\* mw writes a word of a user frame or none.
LEMMA MwKeeps ==
    ASSUME IInv, Serving, NEW a \in Word, NEW w \in Word, CanWrite(a), Mw(a, w)
    PROVE  Sound(mem') /\ SameBelow(mem, mem')
<1>1. Sound(mem)
  BY DEF IInv
<1>2. CASE Vpn(a) = 0
  BY <1>1, <1>2 DEF Mw, SameBelow
<1>3. CASE Vpn(a) # 0
  <2>1. Physical(a) \in Word /\ 6144 <= Physical(a)
    BY <1>3, PhysicalBounds DEF CanWrite
  <2>2. mem' = Poke(mem, Physical(a), w)
    BY <1>3 DEF Mw
  <2>3. Sound(mem')
    BY <1>1, <2>1, <2>2, SoundPoke DEF Elsewhere
  <2>4. ASSUME NEW b \in Int, b < 6144 PROVE Peek(mem', b) = Peek(mem, b)
    <3>1. b # Physical(a)
      BY <2>1, <2>4, WordBounds
    <3> QED
      BY <2>2, <3>1, PeekPoke
  <2> QED
    BY <2>3, <2>4 DEF SameBelow
<1> QED
  BY <1>2, <1>3

LEMMA StoreKeeps == IInv /\ Store => IInv' /\ SameBelow(mem, mem')
<1> SUFFICES ASSUME IInv, Store PROVE IInv' /\ SameBelow(mem, mem')
  OBVIOUS
<1>1. /\ status = "running" /\ Vpn(reg[RPC]) # 0 /\ UNCHANGED <<status, args>>
      /\ OPC(Ir) \in Writing
      /\ CanWrite(Address) /\ Mw(Address, reg[DR(Ir)]) /\ Goto(Pc)
  BY DEF Store, Executes
<1>2. Serving
  BY <1>1, InService
<1>3. Address \in Word /\ reg[DR(Ir)] \in Word
  BY <1>1, AddressIsWord, OperandsAreWords
<1>4. Sound(mem') /\ SameBelow(mem, mem')
  BY <1>1, <1>2, <1>3, MwKeeps
<1>5. SameOs(mem, mem')
  BY <1>4 DEF SameOs, OsWord, SameBelow
<1>6. Moves
  BY <1>1, WordsRead, GotoMoves
<1> QED
  BY <1>1, <1>4, <1>5, <1>6, StepKeeps

\* The steps after which run() does not go on.
LEMMA StopKeeps ==
    ASSUME IInv, status' \in {"halted", "exited", "wild"}, UNCHANGED <<args, mem, reg>>
    PROVE  IInv'
  BY DEF IInv, Booting, Creating, Running, NewPid

LEMMA FaultKeeps == IInv /\ Fault => IInv'
  BY StopKeeps DEF Fault, FetchFault, PointerFault, LoadFault, StoreFault, Exit

LEMMA WildKeeps == IInv /\ (WildTrap \/ FetchReserved) => IInv'
  BY StopKeeps DEF WildTrap, FetchReserved

-----------------------------------------------------------------------------
(* Traps                                                                    *)

LEMMA InputIsWord ==
    /\ \A c \in Typed(Chars) \cup {EOF} : c \in Word
    /\ \A n \in Typed(Numbers) : n \in Word
<1>1. EOF \in Word
  BY InWord DEF EOF
<1> QED
  BY <1>1, InputAssumption DEF Typed

LEMMA GetcMoves == IInv /\ Getc => Moves
<1> SUFFICES ASSUME IInv, Getc PROVE Moves
  OBVIOUS
<1>1. PICK c \in Word : SetReg(0, c)
  BY InputIsWord DEF Getc
<1>2. 0 \in 0..7
  OBVIOUS
<1> QED
  BY <1>1, <1>2, SetRegMoves

LEMMA InMoves == IInv /\ In => Moves
<1> SUFFICES ASSUME IInv, In PROVE Moves
  OBVIOUS
<1>1. PICK c \in Word : SetReg(0, c)
  BY InputIsWord DEF In
<1>2. 0 \in 0..7
  OBVIOUS
<1> QED
  BY <1>1, <1>2, SetRegMoves

LEMMA Inu16Moves == IInv /\ Inu16 => Moves
<1> SUFFICES ASSUME IInv, Inu16 PROVE Moves
  OBVIOUS
<1>1. PICK n \in Word : SetReg(0, n)
  BY InputIsWord, OperandsAreWords DEF Inu16
<1>2. 0 \in 0..7
  OBVIOUS
<1> QED
  BY <1>1, <1>2, SetRegMoves

LEMMA OutputMoves == IInv /\ (Out \/ Puts \/ Putsp \/ Outu16) => Moves
<1> SUFFICES ASSUME IInv, Out \/ Puts \/ Putsp \/ Outu16 PROVE Moves
  OBVIOUS
<1>1. Goto(Pc)
  BY DEF Out, Puts, Putsp, Outu16
<1> QED
  BY <1>1, WordsRead, GotoMoves

LEMMA BrkKeeps == IInv /\ Brk => IInv'
<1> SUFFICES ASSUME IInv, Brk PROVE IInv'
  OBVIOUS
<1>1. /\ status = "running" /\ Vpn(reg[RPC]) # 0 /\ UNCHANGED <<status, args>> /\ Goto(Pc)
  BY DEF Brk, Trap, Executes
<1>2. Serving /\ Sound(mem)
  BY <1>1, InService DEF IInv
<1>3. PICK p \in 0..7 : p = Current /\ reg[PTBR] = TableAt(p)
  BY <1>2 DEF Serving
<1>4. PICK v \in 0..31 : v = Vpn(reg[0])
  BY OperandsAreWords, VpnBounds
<1>5. PICK read, write : read = (Bit(reg[0], 1) = 1) /\ write = (Bit(reg[0], 2) = 1)
  OBVIOUS
<1>6. PICK got : got = AllocMem(mem, TableAt(p), v, read, write)
  OBVIOUS
<1>7. mem' = mem \/ mem' = got.mem \/ mem' = FreeMem(mem, {v}, TableAt(p))
  BY <1>3, <1>4, <1>5, <1>6 DEF Brk
<1>8. Sound(got.mem) /\ SameOs(mem, got.mem)
  <2>1. AllocResult(mem, p, v, read, write, got)
    BY <1>6, AllocCases
  <2>2. CASE got.mem = mem
    BY <1>2, <2>2 DEF SameOs
  <2>3. CASE \E f \in 3..31 :
               /\ FirstFree(mem, f)
               /\ got = [mem |-> Taken(mem, f, EntryAt(p, v), NewPte(f, read, write)), pfn |-> f]
    <3>1. PICK f \in 3..31 :
            /\ FirstFree(mem, f)
            /\ got = [mem |-> Taken(mem, f, EntryAt(p, v), NewPte(f, read, write)), pfn |-> f]
      BY <2>3
    <3>2. Sound(mem) /\ IsFree(mem, f)
      BY <1>2, <3>1 DEF FirstFree
    <3>3. \E pte : Takes(mem, Taken(mem, f, EntryAt(p, v), NewPte(f, read, write)), f, p, v, pte)
      BY ONLY <3>2, TakenSound
    <3>4. got.mem = Taken(mem, f, EntryAt(p, v), NewPte(f, read, write))
      BY <3>1
    <3>5. PICK pte : Takes(mem, got.mem, f, p, v, pte)
      BY <3>3, <3>4
    <3> QED
      BY <3>5, OsWordsApart DEF Takes, SameOs
  <2> QED
    BY <2>1, <2>2, <2>3 DEF AllocResult
<1>9. Sound(FreeMem(mem, {v}, TableAt(p))) /\ SameOs(mem, FreeMem(mem, {v}, TableAt(p)))
  <2>1. Frees(mem, FreeMem(mem, {v}, TableAt(p)), {v}, p)
    BY <1>2, FreedSound
  <2> QED
    BY <2>1, OsWordsApart DEF Frees, SameOs
<1>10. Sound(mem') /\ SameOs(mem, mem')
  BY <1>2, <1>7, <1>8, <1>9 DEF SameOs
<1>11. Moves
  BY <1>1, WordsRead, GotoMoves
<1> QED
  BY <1>1, <1>10, <1>11, StepKeeps

\* The search ends at a process, at old itself at the latest.
LEMMA NextIsAProcess ==
    ASSUME NEW m, NEW n \in 1..7, Peek(m, 1) = n, NEW old \in 0..(n - 1)
    PROVE  NextAfter(m, old) \in 0..(n - 1)
<1> DEFINE Runs(k) == k = n \/ PidOf(m, (old + k) % n) # Dead
           k == CHOOSE k \in 1..n : Runs(k) /\ \A j \in 1..(k - 1) : ~Runs(j)
<1>1. \E x \in 1..n : Runs(x) /\ \A j \in 1..(x - 1) : ~Runs(j)
  <2> DEFINE S == {x \in 1..n : Runs(x)}
  <2>1. S \in SUBSET Nat /\ S # {}
    <3>1. n \in S
      OBVIOUS
    <3> QED
      BY <3>1
  <2>2. PICK x \in S : \A y \in S : x <= y
    BY <2>1, LeastOne
  <2>3. \A j \in 1..(x - 1) : j \in 1..n /\ ~(x <= j)
    BY <2>2
  <2>4. \A j \in 1..(x - 1) : ~Runs(j)
    BY <2>2, <2>3
  <2> QED
    BY <2>2, <2>4
<1>2. k \in 1..n
  BY <1>1
<1>3. NextAfter(m, old) = (old + k) % n
  BY DEF NextAfter
<1> HIDE DEF k
<1> QED
  BY <1>2, <1>3

LEMMA YieldAloneMoves == IInv /\ YieldAlone => Moves
<1> SUFFICES ASSUME IInv, YieldAlone PROVE Moves
  OBVIOUS
<1>1. Goto(Pc)
  BY DEF YieldAlone
<1> QED
  BY <1>1, WordsRead, GotoMoves

\* The process that is loaded has the table of its PCB.
LEMMA SwitchKeeps ==
    ASSUME IInv, status = "running", UNCHANGED <<status, args>>,
           NEW m, Sound(m), NEW n \in 1..7, Peek(m, 1) = n, Pcbs(m, n),
           NEW q \in 0..(n - 1), Switch(m, q)
    PROVE  IInv'
<1>1. /\ mem' = Poke(m, 0, q)
      /\ reg' = [reg EXCEPT ![RPC] = Peek(m, PcbAt(q) + 1), ![PTBR] = Peek(m, PcbAt(q) + 2)]
  BY DEF Switch
<1>2. q \in Word /\ Elsewhere(0)
  <2>1. q \in Word /\ 0 \in Word
    BY InWord
  <2> QED
    BY <2>1 DEF Elsewhere
<1>3. Sound(mem')
  BY <1>1, <1>2, SoundPoke
<1>4. Peek(mem', 0) = q /\ \A b : b # 0 => Peek(mem', b) = Peek(m, b)
  BY <1>1, PeekPoke
<1>5. reg' \in [0..10 -> Word] /\ reg'[PTBR] = Peek(m, PcbAt(q) + 2)
  <2>1. Peek(m, PcbAt(q) + 1) \in Word /\ Peek(m, PcbAt(q) + 2) \in Word
    BY PeekWord DEF Sound
  <2> QED
    BY <1>1, <2>1 DEF IInv, RPC, PTBR
<1>6. reg'[PTBR] = TableAt(q)
  BY <1>5 DEF Pcbs
<1>7. Pcbs(mem', n)
  <2>1. ASSUME NEW p \in 0..(n - 1) PROVE PcbAt(p) + 2 # 0
    BY DEF PcbAt
  <2> QED
    BY <1>4, <2>1 DEF Pcbs
<1>8. Serving' /\ NewPid' = n
  BY <1>4, <1>6, <1>7 DEF Serving, NewPid, Current
<1> QED
  BY <1>3, <1>5, <1>8 DEF IInv, Booting, Creating, Running

\* What a process that runs knows of itself.
LEMMA TheProcess ==
    ASSUME IInv, status = "running", Vpn(reg[RPC]) # 0
    PROVE  \E n \in 1..7, c \in Int :
              /\ n = NewPid /\ c = Current /\ 0 <= c /\ c <= n - 1
              /\ reg[PTBR] = TableAt(c) /\ Pcbs(mem, n) /\ Peek(mem, 1) = n
  BY InService DEF Serving, NewPid

\* The PCB words of two processes are different words.
LEMMA PcbsApart ==
    ASSUME NEW p \in 0..7, NEW q \in 0..7
    PROVE  /\ PcbAt(p) + 2 # PcbAt(q) + 1 /\ PcbAt(p) + 2 # PcbAt(q)
           /\ PcbAt(p) + 2 = PcbAt(q) + 2 => p = q
  BY DEF PcbAt

\* Saving the program counter and the page table base in the PCB.
LEMMA YieldKeeps == IInv /\ Yield => IInv'
<1> SUFFICES ASSUME IInv, Yield PROVE IInv'
  OBVIOUS
<1>1. status = "running" /\ Vpn(reg[RPC]) # 0 /\ UNCHANGED <<status, args>>
  BY DEF Yield, Trap, Executes
<1>2. PICK n \in 1..7, c \in Int :
         /\ n = NewPid /\ c = Current /\ 0 <= c /\ c <= n - 1
         /\ reg[PTBR] = TableAt(c) /\ Pcbs(mem, n) /\ Peek(mem, 1) = n
  BY <1>1, TheProcess
<1>3. c \in 0..7 /\ c \in 0..(n - 1)
  BY <1>2
<1>4. PICK q \in 0..(n - 1) : q = NextAfter(mem, c)
  BY <1>2, <1>3, NextIsAProcess
<1>5. PICK l, m : l = Poke(mem, PcbAt(c) + 1, Pc) /\ m = Poke(l, PcbAt(c) + 2, TableAt(c))
  OBVIOUS
<1>6. Switch(m, q)
  BY <1>2, <1>4, <1>5 DEF Yield
<1>7. Elsewhere(PcbAt(c) + 1) /\ Elsewhere(PcbAt(c) + 2) /\ Pc \in Word /\ TableAt(c) \in Word
  <2>1. 1 \in 0..2 /\ 2 \in 0..2 /\ 0 \in 0..31
    OBVIOUS
  <2>2. Elsewhere(PcbAt(c) + 1) /\ Elsewhere(PcbAt(c) + 2)
    BY <1>3, <2>1, PcbBounds DEF Elsewhere
  <2>3. reg[PTBR] \in Word
    BY DEF IInv, PTBR
  <2> QED
    BY <1>2, <2>2, <2>3, WordsRead
<1>8. Sound(l)
  BY <1>5, <1>7, SoundPoke DEF IInv
<1>9. Sound(m)
  BY <1>5, <1>7, <1>8, SoundPoke
<1>10. \A b : Peek(m, b) = IF b = PcbAt(c) + 2 THEN TableAt(c)
                           ELSE IF b = PcbAt(c) + 1 THEN Pc ELSE Peek(mem, b)
  BY <1>5, PeekPoke
<1>11. Peek(m, 1) = n
  <2>1. PcbAt(c) + 2 # 1 /\ PcbAt(c) + 1 # 1
    BY <1>3 DEF PcbAt
  <2> QED
    BY <1>2, <1>10, <2>1
<1>12. Pcbs(m, n)
  <2>1. ASSUME NEW p \in 0..(n - 1) PROVE Peek(m, PcbAt(p) + 2) = TableAt(p)
    <3>1. p \in 0..7
      OBVIOUS
    <3>2. Peek(mem, PcbAt(p) + 2) = TableAt(p)
      BY <1>2 DEF Pcbs
    <3> QED
      BY <1>3, <1>10, <3>1, <3>2, PcbsApart
  <2> QED
    BY <2>1 DEF Pcbs
<1> QED
  BY <1>1, <1>6, <1>9, <1>11, <1>12, SwitchKeeps

\* The memory that a process leaves behind.
LEMMA EndedSound ==
    ASSUME IInv, NEW n \in 1..7, n = NewPid, NEW c \in 0..(n - 1), c = Current,
           reg[PTBR] = TableAt(c), Pcbs(mem, n)
    PROVE  Sound(Ended) /\ Peek(Ended, 1) = n /\ Pcbs(Ended, n)
<1>1. c \in 0..7 /\ Sound(mem)
  BY DEF IInv
<1>2. PICK l, m : l = FreeMem(mem, 0..31, TableAt(c)) /\ m = Poke(l, PcbAt(c), Dead)
  OBVIOUS
<1>3. m = Ended
  BY <1>2 DEF Ended
<1>4. Sound(l) /\ SameOs(mem, l)
  <2>1. Frees(mem, l, 0..31, c)
    BY <1>1, <1>2, FreedSound
  <2> QED
    BY <2>1, OsWordsApart DEF Frees, SameOs
<1>5. Elsewhere(PcbAt(c)) /\ Dead \in Word
  <2>1. PcbAt(c) + 0 \in Word /\ 12 <= PcbAt(c) + 0 /\ PcbAt(c) + 0 <= 35
    BY <1>1, PcbBounds
  <2>2. PcbAt(c) + 0 = PcbAt(c)
    BY DEF PcbAt
  <2> QED
    BY <2>1, <2>2, InWord DEF Elsewhere, Dead
<1>6. Sound(m)
  BY <1>2, <1>4, <1>5, SoundPoke
<1>7. \A b : OsWord(b) /\ b # PcbAt(c) => Peek(m, b) = Peek(mem, b)
  BY <1>2, <1>4, PeekPoke DEF SameOs
<1>8. Peek(m, 1) = n
  <2>1. OsWord(1) /\ 1 # PcbAt(c)
    BY <1>1 DEF OsWord, PcbAt
  <2> QED
    BY <1>7, <2>1 DEF NewPid
<1>9. Pcbs(m, n)
  <2>1. ASSUME NEW p \in 0..(n - 1) PROVE Peek(m, PcbAt(p) + 2) = TableAt(p)
    <3>1. p \in 0..7
      OBVIOUS
    <3>2. OsWord(PcbAt(p) + 2)
      BY <3>1 DEF OsWord, PcbAt
    <3>3. Peek(mem, PcbAt(p) + 2) = TableAt(p)
      BY DEF Pcbs
    <3> QED
      BY <1>1, <1>7, <3>1, <3>2, <3>3, PcbsApart
  <2> QED
    BY <2>1 DEF Pcbs
<1> QED
  BY <1>3, <1>6, <1>8, <1>9

LEMMA HaltKeeps == IInv /\ Halt => IInv'
<1> SUFFICES ASSUME IInv, Halt PROVE IInv'
  OBVIOUS
<1>1. status = "running" /\ Vpn(reg[RPC]) # 0 /\ UNCHANGED <<status, args>>
  BY DEF Halt, Trap, Executes
<1>2. PICK n \in 1..7, c \in Int :
         /\ n = NewPid /\ c = Current /\ 0 <= c /\ c <= n - 1
         /\ reg[PTBR] = TableAt(c) /\ Pcbs(mem, n) /\ Peek(mem, 1) = n
  BY <1>1, TheProcess
<1>3. c \in 0..(n - 1)
  BY <1>2
<1>4. PICK m : m = Ended /\ Switch(m, NextAfter(m, c))
  BY <1>2 DEF Halt
<1>5. Sound(m) /\ Peek(m, 1) = n /\ Pcbs(m, n)
  BY <1>2, <1>3, <1>4, EndedSound
<1>6. PICK q \in 0..(n - 1) : q = NextAfter(m, c)
  BY <1>3, <1>5, NextIsAProcess
<1> QED
  BY <1>1, <1>4, <1>5, <1>6, SwitchKeeps

LEMMA HaltLastKeeps == IInv /\ HaltLast => IInv'
<1> SUFFICES ASSUME IInv, HaltLast PROVE IInv'
  OBVIOUS
<1>1. /\ status = "running" /\ Vpn(reg[RPC]) # 0 /\ UNCHANGED args
      /\ status' = "halted" /\ Goto(Pc) /\ mem' = Ended
  BY DEF HaltLast, Trap, Executes
<1>2. PICK n \in 1..7, c \in Int :
         /\ n = NewPid /\ c = Current /\ 0 <= c /\ c <= n - 1
         /\ reg[PTBR] = TableAt(c) /\ Pcbs(mem, n) /\ Peek(mem, 1) = n
  BY <1>1, TheProcess
<1>3. c \in 0..(n - 1)
  BY <1>2
<1>4. Sound(mem') /\ Peek(mem', 1) = n
  BY <1>1, <1>2, <1>3, EndedSound
<1>5. reg' \in [0..10 -> Word]
  BY <1>1, WordsRead, GotoMoves DEF Moves
<1> QED
  BY <1>1, <1>4, <1>5 DEF IInv, Booting, Creating, Running, NewPid

-----------------------------------------------------------------------------
(* The steps of a process that leave memory as it is                        *)

Fetching == status = "running" /\ Vpn(reg[RPC]) # 0 /\ CanRead(reg[RPC])

Quiet ==
    \/ Br \/ Add \/ And \/ Not \/ Lea \/ Jsr \/ Jmp \/ Unused
    \/ Load
    \/ Getc \/ In \/ Out \/ Puts \/ Putsp \/ Inu16 \/ Outu16 \/ YieldAlone

LEMMA QuietMoves == IInv /\ Quiet => Moves
  BY BrMoves, AddMoves, AndMoves, NotMoves, LeaMoves, JsrMoves, JmpMoves, UnusedMoves, LoadMoves,
     GetcMoves, InMoves, Inu16Moves, OutputMoves, YieldAloneMoves DEF Quiet

LEMMA QuietLeaves == Quiet => Fetching /\ UNCHANGED <<status, args, frames, mem>>
<1>1. CASE Br \/ Add \/ And \/ Not \/ Lea \/ Jsr \/ Jmp \/ Unused
  BY <1>1 DEF Br, Add, And, Not, Lea, Jsr, Jmp, Unused, Executes, computing, Fetching
<1>2. CASE Load \/ YieldAlone
  BY <1>2 DEF Load, Loading, YieldAlone, Trap, Executes, computing, Fetching
<1>3. CASE Getc \/ In \/ Out \/ Puts \/ Putsp \/ Inu16 \/ Outu16
  BY <1>3 DEF Getc, In, Out, Puts, Putsp, Inu16, Outu16, Trap, Executes, computing, Fetching
<1> QED
  BY <1>1, <1>2, <1>3 DEF Quiet

LEMMA QuietKeeps == IInv /\ Quiet => IInv'
<1> SUFFICES ASSUME IInv, Quiet PROVE IInv'
  OBVIOUS
<1>1. status = "running" /\ Vpn(reg[RPC]) # 0 /\ UNCHANGED <<status, args, mem>>
  BY QuietLeaves DEF Fetching
<1>2. Sound(mem') /\ SameOs(mem, mem')
  BY <1>1 DEF IInv, SameOs
<1> QED
  BY <1>1, <1>2, QuietMoves, StepKeeps

-----------------------------------------------------------------------------
(* The theorems                                                             *)

LEMMA NextKeeps == IInv /\ [Next]_vars => IInv'
<1> SUFFICES ASSUME IInv, [Next]_vars PROVE IInv'
  OBVIOUS
<1>1. CASE Boot
  BY <1>1, BeginCreateKeeps, AllocSegmentPageKeeps, CreateFailsKeeps, FinishCreateKeeps,
     FileMissingKeeps, LoadFirstProcKeeps DEF Boot
<1>2. CASE Fault \/ FetchReserved \/ WildTrap
  BY <1>2, FaultKeeps, WildKeeps
<1>3. CASE Plain
  BY <1>3, QuietKeeps, StoreKeeps DEF Plain, Quiet
<1>4. CASE Call
  BY <1>4, QuietKeeps, BrkKeeps, YieldKeeps, HaltKeeps, HaltLastKeeps DEF Call, Quiet
<1>5. CASE UNCHANGED vars
  BY <1>5 DEF vars, IInv, Booting, Creating, Running, Serving, NewPid, Current
<1> QED
  BY <1>1, <1>2, <1>3, <1>4, <1>5 DEF Next

\* The operating system's words are what IInv says in every state, whatever the
\* programs do: the tables, the PCBs and the bitmap of vm.c stay sound.
THEOREM MachineInvariant == Spec => []IInv
<1>1. Init => IInv
  BY InitIInv
<1>2. IInv /\ [Next]_vars => IInv'
  BY NextKeeps
<1> QED
  BY <1>1, <1>2, PTL DEF Spec

\* Words are words, the bitmap never has a bit for a frame of the operating
\* system, and no entry of a page table names one.
THEOREM MachineTypeCorrect == Spec => []TypeOK
  BY MachineInvariant, SoundIsTyped, PTL
=============================================================================
