---------------------------- MODULE Carriage_proof ----------------------------
(* Proofs about the replay windows and about Carriage, which carries records *)
(* behind them: for every width of a word, number of words, width of a leg's *)
(* window and length of a turn.                                             *)
EXTENDS AntiReplay, Carriage, TLAPS

----------------------------------------------------------------------------
(* Arithmetic.                                                              *)

\* Quotient and remainder, and that they are the only ones.
LEMMA Divided ==
    ASSUME NEW n \in Nat \ {0}, NEW b \in Nat
    PROVE  /\ b = (n * (b \div n)) + (b % n)
           /\ b % n \in 0 .. n - 1 /\ b \div n \in Nat
  OBVIOUS

LEMMA Multiples ==
    ASSUME NEW n \in Nat \ {0}, NEW j \in Int, NEW i \in Int, j < i
    PROVE  (n * j) + n <= n * i
<1>1. ASSUME NEW k \in Nat \ {0}
      PROVE  n * k >= n
  OBVIOUS
<1>2. i - j \in Nat \ {0}
  OBVIOUS
<1>3. n * (i - j) >= n
  BY <1>1, <1>2
<1>4. n * (i - j) = (n * i) - (n * j) /\ n * i \in Int /\ n * j \in Int
  OBVIOUS
<1> QED
  BY <1>3, <1>4

LEMMA DividedOnce ==
    ASSUME NEW n \in Nat \ {0}, NEW j \in Int, NEW i \in Int,
           NEW r \in 0 .. n - 1, NEW s \in 0 .. n - 1, (n * j) + r = (n * i) + s
    PROVE  j = i /\ r = s
<1>1. n * j \in Int /\ n * i \in Int
  OBVIOUS
<1> DEFINE nj == n * j
           ni == n * i
<1>2. ~(j < i)
  <2>1. j < i => nj + n <= ni
    BY Multiples
  <2>2. nj + r = ni + s /\ nj \in Int /\ ni \in Int
    BY <1>1
  <2> HIDE DEF nj, ni
  <2> QED
    BY <2>1, <2>2
<1>3. ~(i < j)
  <2>1. i < j => ni + n <= nj
    BY Multiples
  <2>2. nj + r = ni + s /\ nj \in Int /\ ni \in Int
    BY <1>1
  <2> HIDE DEF nj, ni
  <2> QED
    BY <2>1, <2>2
<1>4. j = i
  BY <1>2, <1>3
<1> QED
  BY <1>4

LEMMA Constants ==
    /\ WordBits \in Nat \ {0} /\ Words \in Nat \ {0} /\ RejectAfter \in Nat \ {0}
    /\ LegWidth \in Nat \ {0} /\ Turn \in Nat \ {0}
    /\ Turn = 2 * Half /\ Half \in Nat \ {0} /\ LegWidth <= Half
    /\ Window \in Nat \ {0} /\ Window = WordBits * Words
<1>1. /\ WordBits \in Nat \ {0} /\ Words \in Nat \ {0} /\ RejectAfter \in Nat \ {0}
      /\ LegWidth \in Nat \ {0} /\ Turn \in Nat \ {0}
  BY WindowConstants
<1>2. Turn = 2 * Half /\ Half \in Nat \ {0} /\ LegWidth <= Half
  BY <1>1, WindowConstants DEF Half
<1>3. Window \in Nat \ {0}
  BY <1>1 DEF Window
<1> QED
  BY <1>1, <1>2, <1>3 DEF Window

----------------------------------------------------------------------------
(* Bitmaps: a distance behind the highest is a word and a bit of it.        *)

Behind == 0 .. Window - 1

LEMMA Place ==
    ASSUME NEW b \in Behind
    PROVE  /\ b \in Nat /\ b \div WordBits \in 0 .. Words - 1 /\ b % WordBits \in 0 .. WordBits - 1
           /\ b = (WordBits * (b \div WordBits)) + (b % WordBits)
<1>1. b \in Nat /\ WordBits \in Nat \ {0} /\ Words \in Nat \ {0} /\ b < WordBits * Words
  BY Constants DEF Behind
<1> DEFINE q == b \div WordBits
           r == b % WordBits
<1>2. b = (WordBits * q) + r /\ r \in 0 .. WordBits - 1 /\ q \in Nat
  BY <1>1, Divided
<1> HIDE DEF q, r
<1>3. ~(Words < q)
  <2>1. Words < q => (WordBits * Words) + WordBits <= WordBits * q
    BY <1>1, <1>2, Multiples
  <2>2. WordBits * Words \in Nat /\ WordBits * q \in Nat
    BY <1>1, <1>2
  <2> QED
    BY <1>1, <1>2, <2>1, <2>2
<1>4. q # Words
  BY <1>1, <1>2
<1>5. q \in 0 .. Words - 1
  BY <1>1, <1>2, <1>3, <1>4
<1> QED
  BY <1>1, <1>2, <1>5 DEF q, r

\* The place of a distance known by its word and bit.
LEMMA PlaceOf ==
    ASSUME NEW j \in Nat, NEW r \in 0 .. WordBits - 1, NEW b \in Nat, b = (WordBits * j) + r
    PROVE  b \div WordBits = j /\ b % WordBits = r
<1>1. WordBits \in Nat \ {0}
  BY Constants
<1> DEFINE q == b \div WordBits
           t == b % WordBits
<1>2. b = (WordBits * q) + t /\ t \in 0 .. WordBits - 1 /\ q \in Nat
  BY <1>1, Divided
<1> HIDE DEF q, t
<1>3. (WordBits * q) + t = (WordBits * j) + r
  BY <1>2
<1>4. q = j /\ t = r
  BY <1>1, <1>2, <1>3, DividedOnce
<1> QED
  BY <1>4 DEF q, t

LEMMA EmptyBits ==
    /\ EmptyBitmap \in Bitmap
    /\ \A b \in Behind : ~ Bit(EmptyBitmap, b)
  BY Place DEF EmptyBitmap, Bitmap, Word, Bit

LEMMA BitsWith ==
    ASSUME NEW map \in Bitmap, NEW a \in Behind
    PROVE  /\ WithBit(map, a) \in Bitmap
           /\ \A b \in Behind : Bit(WithBit(map, a), b) <=> Bit(map, b) \/ b = a
<1>1. /\ a \div WordBits \in 0 .. Words - 1 /\ a % WordBits \in 0 .. WordBits - 1
      /\ a = (WordBits * (a \div WordBits)) + (a % WordBits)
  BY Place
<1> DEFINE j == a \div WordBits
           r == a % WordBits
<1>2. WithBit(map, a) = [map EXCEPT ![j] = @ \cup {r}]
  BY DEF WithBit
<1>3. WithBit(map, a) \in Bitmap
  <2> HIDE DEF j, r
  <2>1. j \in 0 .. Words - 1 /\ r \in 0 .. WordBits - 1
    BY <1>1 DEF j, r
  <2> QED
    BY <1>2, <2>1 DEF Bitmap, Word
<1>4. ASSUME NEW b \in Behind
      PROVE  Bit(WithBit(map, a), b) <=> Bit(map, b) \/ b = a
  <2> DEFINE i == b \div WordBits
             s == b % WordBits
  <2>1. i \in 0 .. Words - 1 /\ s \in 0 .. WordBits - 1 /\ b = (WordBits * i) + s
    BY Place
  <2>2. j \in 0 .. Words - 1 /\ a = (WordBits * j) + r
    BY <1>1
  <2>3. i = j /\ s = r <=> b = a
    BY <2>1, <2>2
  <2>4. Bit(map, b) = (s \in map[i]) /\ Bit(WithBit(map, a), b) = (s \in WithBit(map, a)[i])
    BY DEF Bit
  <2> HIDE DEF i, s, j, r
  <2>5. WithBit(map, a)[i] = IF i = j THEN map[i] \cup {r} ELSE map[i]
    BY <1>2, <2>1, <2>2 DEF Bitmap
  <2> QED
    BY <2>3, <2>4, <2>5
<1> QED
  BY <1>3, <1>4

----------------------------------------------------------------------------
(* Shifts.                                                                  *)

LEMMA LeftBits ==
    ASSUME NEW w \in Word, NEW k \in Nat
    PROVE  /\ Left(w, k) \in Word
           /\ \A r \in 0 .. WordBits - 1 : r \in Left(w, k) <=> r >= k /\ r - k \in w
           /\ Left(w, 0) = w
<1>1. WordBits \in Nat \ {0} /\ w \subseteq 0 .. WordBits - 1
  BY Constants DEF Word
<1>2. Left(w, k) \in Word
  <2>1. \A b \in w : b + k < WordBits => b + k \in 0 .. WordBits - 1
    BY <1>1
  <2> QED
    BY <2>1 DEF Left, Word
<1>3. ASSUME NEW r \in 0 .. WordBits - 1
      PROVE  r \in Left(w, k) <=> r >= k /\ r - k \in w
  <2>1. ASSUME r \in Left(w, k)
        PROVE  r >= k /\ r - k \in w
    <3>1. PICK b \in w : b + k < WordBits /\ r = b + k
      BY <2>1 DEF Left
    <3> QED
      BY <1>1, <3>1
  <2>2. ASSUME r >= k, r - k \in w
        PROVE  r \in Left(w, k)
    <3>1. (r - k) + k = r /\ (r - k) + k < WordBits
      BY <1>1
    <3> QED
      BY <2>2, <3>1 DEF Left
  <2> QED
    BY <2>1, <2>2
<1>4. Left(w, 0) = w
  <2>1. \A b \in w : b + 0 = b /\ b < WordBits
    BY <1>1
  <2> QED
    BY <2>1 DEF Left
<1> QED
  BY <1>2, <1>3, <1>4

LEMMA RightBits ==
    ASSUME NEW w \in Word, NEW k \in Nat
    PROVE  /\ Right(w, k) \in Word
           /\ \A r \in 0 .. WordBits - 1 : r \in Right(w, k) <=> r + k \in w
<1>1. WordBits \in Nat \ {0} /\ w \subseteq 0 .. WordBits - 1
  BY Constants DEF Word
<1>2. Right(w, k) \in Word
  BY <1>1 DEF Right, Word
<1>3. ASSUME NEW r \in 0 .. WordBits - 1
      PROVE  r \in Right(w, k) <=> r + k \in w
  <2>1. ASSUME r \in Right(w, k)
        PROVE  r + k \in w
    <3>1. PICK b \in w : b >= k /\ r = b - k
      BY <2>1 DEF Right
    <3>2. r + k = b
      BY <1>1, <3>1
    <3> QED
      BY <3>2
  <2>2. ASSUME r + k \in w
        PROVE  r \in Right(w, k)
    <3>1. (r + k) - k = r /\ r + k >= k
      BY <1>1
    <3> QED
      BY <2>2, <3>1 DEF Right
  <2> QED
    BY <2>1, <2>2
<1> QED
  BY <1>2, <1>3

LEMMA WordsBelow ==
    ASSUME NEW map \in Bitmap, NEW j \in 0 .. Words - 1, NEW q \in Nat
    PROVE  /\ WordBelow(map, j, q) \in Word
           /\ j >= q => WordBelow(map, j, q) = map[j - q] /\ j - q \in 0 .. Words - 1
           /\ j < q => WordBelow(map, j, q) = {}
<1>1. Words \in Nat \ {0} /\ map \in [0 .. Words - 1 -> Word]
  BY Constants DEF Bitmap
<1>2. j >= q => j - q \in 0 .. Words - 1
  BY <1>1
<1>3. j >= q => WordBelow(map, j, q) = map[j - q] /\ map[j - q] \in Word
  BY <1>1, <1>2 DEF WordBelow
<1>4. j < q => WordBelow(map, j, q) = {} /\ {} \in Word
  BY <1>1 DEF WordBelow, Word
<1>5. j >= q \/ j < q
  BY <1>1
<1> QED
  BY <1>2, <1>3, <1>4, <1>5

\* Both shifts put the same words together.
LEMMA ShiftsAgree ==
    ASSUME NEW map \in Bitmap, NEW by \in Nat
    PROVE  KeysShifted(map, by) = EngineShifted(map, by) /\ EngineShifted(map, by) \in Bitmap
<1> DEFINE q == by \div WordBits
           s == by % WordBits
<1>1. /\ WordBits \in Nat \ {0} /\ Words \in Nat \ {0} /\ Window \in Nat
      /\ q \in Nat /\ s \in 0 .. WordBits - 1
  BY Constants, Divided
<1>2. CASE by >= Window
  BY <1>2, EmptyBits DEF KeysShifted, EngineShifted
<1>3. CASE ~(by >= Window)
  <2>1. EngineShifted(map, by) = [j \in 0 .. Words - 1 |-> EngineWord(map, j, q, s)]
    BY <1>3 DEF EngineShifted
  <2>2. KeysShifted(map, by) = IF s = 0 THEN WordsMoved(map, q)
                               ELSE BitsMoved(WordsMoved(map, q), s)
    BY <1>3 DEF KeysShifted
  <2> HIDE DEF q, s
  <2>3. ASSUME NEW j \in 0 .. Words - 1
        PROVE  EngineWord(map, j, q, s) \in Word
    <3>1. WordBelow(map, j, q) \in Word /\ WordBelow(map, j, q + 1) \in Word
      BY <1>1, WordsBelow
    <3>2. Left(WordBelow(map, j, q), s) \in Word
      BY <1>1, <3>1, LeftBits
    <3>3. WordBits - s \in Nat
      BY <1>1
    <3>4. Right(WordBelow(map, j, q + 1), WordBits - s) \in Word
      BY <3>1, <3>3, RightBits
    <3> QED
      BY <3>2, <3>4 DEF EngineWord, Word
  <2>4. CASE s = 0
    <3>1. ASSUME NEW j \in 0 .. Words - 1
          PROVE  EngineWord(map, j, q, s) = WordBelow(map, j, q)
      <4>1. Left(WordBelow(map, j, q), 0) = WordBelow(map, j, q)
        BY <1>1, WordsBelow, LeftBits
      <4> QED
        BY <2>4, <4>1 DEF EngineWord
    <3> QED
      BY <2>1, <2>2, <2>3, <2>4, <3>1 DEF WordsMoved, Bitmap
  <2>5. CASE s # 0
    <3> DEFINE m == WordsMoved(map, q)
    <3>1. ASSUME NEW j \in 0 .. Words - 1
          PROVE  EngineWord(map, j, q, s)
                    = Left(m[j], s) \cup Right(WordBelow(m, j, 1), WordBits - s)
      <4>1. m[j] = WordBelow(map, j, q)
        BY DEF WordsMoved
      <4>2. WordBelow(m, j, 1) = WordBelow(map, j, q + 1)
        <5>1. CASE j = 0
          BY <1>1, <5>1 DEF WordBelow
        <5>2. CASE j # 0
          <6>1. j - 1 \in 0 .. Words - 1 /\ j >= 1
            BY <1>1, <5>2
          <6>2. m[j - 1] = WordBelow(map, j - 1, q)
            BY <6>1 DEF WordsMoved
          <6>3. j - 1 >= q <=> j >= q + 1
            BY <1>1, <6>1
          <6>4. (j - 1) - q = j - (q + 1)
            BY <1>1, <6>1
          <6> HIDE DEF m
          <6> QED
            BY <6>1, <6>2, <6>3, <6>4 DEF WordBelow
        <5> QED
          BY <5>1, <5>2
      <4> HIDE DEF m
      <4> QED
        BY <2>5, <4>1, <4>2 DEF EngineWord
    <3> HIDE DEF m
    <3>2. KeysShifted(map, by) = BitsMoved(m, s)
      BY <2>2, <2>5 DEF m
    <3> QED
      BY <2>1, <2>3, <3>1, <3>2 DEF BitsMoved, Bitmap
  <2> QED
    BY <2>4, <2>5
<1> QED
  BY <1>2, <1>3

\* Two distances a and b apart: where the rest is.
LEMMA Apart ==
    ASSUME NEW a \in Nat, NEW b \in Behind
    PROVE  LET q == a \div WordBits  s == a % WordBits
               j == b \div WordBits  r == b % WordBits
           IN  /\ r >= s => /\ b >= a <=> j >= q
                            /\ b >= a => /\ (b - a) \div WordBits = j - q
                                         /\ (b - a) % WordBits = r - s
               /\ r < s => /\ b >= a <=> j >= q + 1
                           /\ b >= a => /\ (b - a) \div WordBits = j - (q + 1)
                                        /\ (b - a) % WordBits = r + (WordBits - s)
<1> DEFINE q == a \div WordBits
           s == a % WordBits
           j == b \div WordBits
           r == b % WordBits
<1> SUFFICES /\ r >= s => /\ b >= a <=> j >= q
                          /\ b >= a => /\ (b - a) \div WordBits = j - q
                                       /\ (b - a) % WordBits = r - s
             /\ r < s => /\ b >= a <=> j >= q + 1
                         /\ b >= a => /\ (b - a) \div WordBits = j - (q + 1)
                                      /\ (b - a) % WordBits = r + (WordBits - s)
  OBVIOUS
<1>1. /\ WordBits \in Nat \ {0} /\ b \in Nat
      /\ q \in Nat /\ s \in 0 .. WordBits - 1 /\ a = (WordBits * q) + s
      /\ j \in Nat /\ r \in 0 .. WordBits - 1 /\ b = (WordBits * j) + r
  BY Constants, Divided, Place
<1> HIDE DEF q, s, j, r
<1> DEFINE A == WordBits * q
           B == WordBits * j
<1>2. A \in Nat /\ B \in Nat /\ a = A + s /\ b = B + r
  BY <1>1
<1>3. /\ j < q => B + WordBits <= A
      /\ q < j => A + WordBits <= B
      /\ q = j => A = B
  BY <1>1, Multiples
<1>4. WordBits * (j - q) = B - A /\ WordBits * (j - (q + 1)) = (B - A) - WordBits
  BY <1>1
<1> HIDE DEF A, B
<1>5. ASSUME r >= s
      PROVE  b >= a <=> j >= q
  BY <1>1, <1>2, <1>3, <1>5
<1>6. ASSUME r >= s, b >= a
      PROVE  (b - a) \div WordBits = j - q /\ (b - a) % WordBits = r - s
  <2>1. /\ b - a \in Nat /\ j - q \in Nat /\ r - s \in 0 .. WordBits - 1
        /\ b - a = (WordBits * (j - q)) + (r - s)
    BY <1>1, <1>2, <1>4, <1>5, <1>6
  <2> QED
    BY <2>1, PlaceOf
<1>7. ASSUME r < s
      PROVE  b >= a <=> j >= q + 1
  BY <1>1, <1>2, <1>3, <1>7
<1>8. ASSUME r < s, b >= a
      PROVE  (b - a) \div WordBits = j - (q + 1) /\ (b - a) % WordBits = r + (WordBits - s)
  <2>1. /\ b - a \in Nat /\ j - (q + 1) \in Nat /\ r + (WordBits - s) \in 0 .. WordBits - 1
        /\ b - a = (WordBits * (j - (q + 1))) + (r + (WordBits - s))
    BY <1>1, <1>2, <1>4, <1>7, <1>8
  <2> QED
    BY <2>1, PlaceOf
<1> QED
  BY <1>5, <1>6, <1>7, <1>8

\* A shift moves every bit up by the distance, and lets in no other.
LEMMA BitsShifted ==
    ASSUME NEW map \in Bitmap, NEW a \in Nat, NEW b \in Behind
    PROVE  Bit(EngineShifted(map, a), b) <=> b >= a /\ Bit(map, b - a)
<1> DEFINE q == a \div WordBits
           s == a % WordBits
           j == b \div WordBits
           r == b % WordBits
<1>1. /\ WordBits \in Nat \ {0} /\ Words \in Nat \ {0} /\ Window \in Nat \ {0}
      /\ q \in Nat /\ s \in 0 .. WordBits - 1
      /\ j \in 0 .. Words - 1 /\ r \in 0 .. WordBits - 1
  BY Constants, Divided, Place
<1>2. CASE a >= Window
  BY <1>1, <1>2, EmptyBits DEF EngineShifted, Behind
<1>3. CASE ~(a >= Window)
  <2>1. /\ r >= s => /\ b >= a <=> j >= q
                     /\ b >= a => /\ (b - a) \div WordBits = j - q
                                  /\ (b - a) % WordBits = r - s
        /\ r < s => /\ b >= a <=> j >= q + 1
                    /\ b >= a => /\ (b - a) \div WordBits = j - (q + 1)
                                 /\ (b - a) % WordBits = r + (WordBits - s)
    BY Apart
  <2>2. Bit(EngineShifted(map, a), b) <=> r \in EngineWord(map, j, q, s)
    BY <1>1, <1>3 DEF EngineShifted, Bit
  <2>3. b >= a => (Bit(map, b - a) <=> (b - a) % WordBits \in map[(b - a) \div WordBits])
    BY DEF Bit
  <2> HIDE DEF q, s, j, r
  <2>4. /\ WordBelow(map, j, q) \in Word /\ WordBelow(map, j, q + 1) \in Word
        /\ j >= q => WordBelow(map, j, q) = map[j - q]
        /\ j < q => WordBelow(map, j, q) = {}
        /\ j >= q + 1 => WordBelow(map, j, q + 1) = map[j - (q + 1)]
        /\ j < q + 1 => WordBelow(map, j, q + 1) = {}
    BY SMTT(40), <1>1, WordsBelow
  <2>5. WordBits - s \in Nat
    BY <1>1
  <2>6. /\ r \in Left(WordBelow(map, j, q), s) <=> r >= s /\ r - s \in WordBelow(map, j, q)
        /\ r \in Right(WordBelow(map, j, q + 1), WordBits - s)
              <=> r + (WordBits - s) \in WordBelow(map, j, q + 1)
    <3> DEFINE u == WordBelow(map, j, q)
               v == WordBelow(map, j, q + 1)
    <3>1. u \in Word /\ v \in Word /\ s \in Nat
      BY <1>1, <2>4
    <3> HIDE DEF u, v
    <3>2. r \in Left(u, s) <=> r >= s /\ r - s \in u
      BY <1>1, <3>1, LeftBits
    <3>3. r \in Right(v, WordBits - s) <=> r + (WordBits - s) \in v
      BY <1>1, <2>5, <3>1, RightBits
    <3> QED
      BY <3>2, <3>3 DEF u, v
  <2>7. CASE r >= s
    <3>1. r + (WordBits - s) \notin WordBelow(map, j, q + 1)
      BY <1>1, <2>4, <2>7 DEF Word
    <3>2. r \in EngineWord(map, j, q, s) <=> r - s \in WordBelow(map, j, q)
      BY <2>6, <2>7, <3>1 DEF EngineWord
    <3>3. CASE b >= a
      <4>1. j >= q
        BY <2>1, <2>7, <3>3
      <4>2. Bit(map, b - a) <=> r - s \in map[j - q]
        BY <2>1, <2>3, <2>7, <3>3
      <4> QED
        BY <2>2, <2>4, <3>2, <3>3, <4>1, <4>2
    <3>4. CASE ~(b >= a)
      <4>1. j < q
        BY <1>1, <2>1, <2>7, <3>4
      <4> QED
        BY <2>2, <2>4, <3>2, <3>4, <4>1
    <3> QED
      BY <3>3, <3>4
  <2>8. CASE r < s
    <3>1. s # 0 /\ ~(r >= s)
      BY <1>1, <2>8
    <3>2. r \in EngineWord(map, j, q, s) <=> r + (WordBits - s) \in WordBelow(map, j, q + 1)
      BY <2>6, <3>1 DEF EngineWord
    <3>3. CASE b >= a
      <4>1. j >= q + 1
        BY <2>1, <2>8, <3>3
      <4>2. Bit(map, b - a) <=> r + (WordBits - s) \in map[j - (q + 1)]
        BY <2>1, <2>3, <2>8, <3>3
      <4> QED
        BY <2>2, <2>4, <3>2, <3>3, <4>1, <4>2
    <3>4. CASE ~(b >= a)
      <4>1. j < q + 1
        BY <1>1, <2>1, <2>8, <3>4
      <4> QED
        BY <2>2, <2>4, <3>2, <3>4, <4>1
    <3> QED
      BY <3>3, <3>4
  <2> QED
    BY <1>1, <2>7, <2>8
<1> QED
  BY <1>2, <1>3

----------------------------------------------------------------------------
(* What a window remembers of the counters it took.                         *)

EngineWindow == [highest : Nat, map : Bitmap]
KeysWindow == [highest : Nat, map : Bitmap, started : BOOLEAN]
LegWindow == [highest : Nat, behind : SUBSET (0 .. LegWidth - 1), seen : BOOLEAN]

\* A history none of whose counters is past the highest, which is its newest.
HistoryOf(took, highest) ==
    /\ took \subseteq 0 .. highest
    /\ highest \in took \/ (took = {} /\ highest = 0)

BitsTell(map, highest, took) == \A b \in Behind : Bit(map, b) <=> highest - b \in took

EngineHolds(w, took) ==
    w \in EngineWindow /\ HistoryOf(took, w.highest) /\ BitsTell(w.map, w.highest, took)
KeysHold(w, took) ==
    /\ w \in KeysWindow /\ HistoryOf(took, w.highest) /\ BitsTell(w.map, w.highest, took)
    /\ w.started <=> took # {}
LegHolds(w, took) ==
    /\ w \in LegWindow /\ HistoryOf(took, w.highest)
    /\ w.seen <=> took # {}
    /\ \A b \in 0 .. LegWidth - 1 : b \in w.behind <=> w.highest - b \in took

\* What is new to such a history, by the distance from its newest.
LEMMA NewByDistance ==
    ASSUME NEW took, NEW highest \in Nat, NEW c \in Nat, NEW width \in Nat \ {0},
           HistoryOf(took, highest)
    PROVE  /\ c > highest => Fresh(took, c, width)
           /\ c <= highest => (Fresh(took, c, width) <=>
                                 c \notin took /\ (highest - c < width \/ took = {}))
<1>1. took \subseteq 0 .. highest
  BY DEF HistoryOf
<1>2. ASSUME c > highest
      PROVE  Fresh(took, c, width)
  BY <1>1, <1>2 DEF Fresh
<1>3. ASSUME c <= highest, c \notin took, highest - c < width \/ took = {}
      PROVE  Fresh(took, c, width)
  BY <1>1, <1>3 DEF Fresh
<1>4. ASSUME Fresh(took, c, width)
      PROVE  c \notin took /\ (highest - c < width \/ took = {})
  BY <1>1, <1>4 DEF Fresh, HistoryOf
<1> QED
  BY <1>2, <1>3, <1>4

\* The bits after a counter ahead of the highest, and after one behind it.
LEMMA BitsAhead ==
    ASSUME NEW map \in Bitmap, NEW highest \in Nat, NEW c \in Nat, c > highest,
           NEW took, took \subseteq 0 .. highest, BitsTell(map, highest, took)
    PROVE  LET m == WithBit(EngineShifted(map, c - highest), 0)
           IN  m \in Bitmap /\ BitsTell(m, c, took \cup {c})
<1> DEFINE a == c - highest
           e == EngineShifted(map, a)
           m == WithBit(e, 0)
<1> SUFFICES m \in Bitmap /\ BitsTell(m, c, took \cup {c})
  OBVIOUS
<1>1. a \in Nat /\ a > 0 /\ Window \in Nat \ {0} /\ 0 \in Behind
  BY Constants DEF Behind
<1>2. e \in Bitmap /\ \A b \in Behind : Bit(e, b) <=> b >= a /\ Bit(map, b - a)
  BY <1>1, ShiftsAgree, BitsShifted
<1> HIDE DEF e
<1>3. m \in Bitmap /\ \A b \in Behind : Bit(m, b) <=> Bit(e, b) \/ b = 0
  BY <1>1, <1>2, BitsWith
<1> HIDE DEF m
<1>4. ASSUME NEW b \in Behind
      PROVE  Bit(m, b) <=> c - b \in took \cup {c}
  <2>1. b \in Nat /\ b < Window
    BY <1>1 DEF Behind
  <2>2. CASE b >= a
    <3>1. b - a \in Behind /\ highest - (b - a) = c - b
      BY <1>1, <2>1, <2>2 DEF Behind
    <3>2. Bit(map, b - a) <=> c - b \in took
      BY <3>1 DEF BitsTell
    <3>3. b # 0 /\ c - b # c
      BY <1>1, <2>1, <2>2
    <3> QED
      BY <1>2, <1>3, <2>2, <3>2, <3>3
  <2>3. CASE ~(b >= a)
    <3>1. c - b \notin took
      BY <1>1, <2>1, <2>3
    <3>2. c - b = c <=> b = 0
      BY <2>1
    <3> QED
      BY <1>2, <1>3, <2>3, <3>1, <3>2
  <2> QED
    BY <2>2, <2>3
<1> QED
  BY <1>3, <1>4 DEF BitsTell

LEMMA BitsBehind ==
    ASSUME NEW map \in Bitmap, NEW highest \in Nat, NEW c \in Nat, highest - c \in Behind,
           NEW took, BitsTell(map, highest, took)
    PROVE  LET m == WithBit(map, highest - c)
           IN  m \in Bitmap /\ BitsTell(m, highest, took \cup {c})
<1> DEFINE a == highest - c
           m == WithBit(map, a)
<1> SUFFICES m \in Bitmap /\ BitsTell(m, highest, took \cup {c})
  OBVIOUS
<1>1. a \in Behind /\ highest - a = c
  BY DEF Behind
<1>2. m \in Bitmap /\ \A b \in Behind : Bit(m, b) <=> Bit(map, b) \/ b = a
  BY <1>1, BitsWith
<1> HIDE DEF m
<1>3. ASSUME NEW b \in Behind
      PROVE  Bit(m, b) <=> highest - b \in took \cup {c}
  <2>1. highest - b = c <=> b = a
    BY Constants DEF Behind
  <2>2. Bit(map, b) <=> highest - b \in took
    BY DEF BitsTell
  <2> QED
    BY <1>2, <2>1, <2>2
<1> QED
  BY <1>2, <1>3 DEF BitsTell

LEMMA NewWindows ==
    EngineHolds(NewEngineWindow, {}) /\ KeysHold(NewKeysWindow, {}) /\ LegHolds(NewLegWindow, {})
<1>1. EmptyBitmap \in Bitmap /\ BitsTell(EmptyBitmap, 0, {})
  BY EmptyBits DEF BitsTell
<1>2. HistoryOf({}, 0)
  BY DEF HistoryOf
<1>3. NewEngineWindow \in EngineWindow /\ NewEngineWindow.highest = 0
        /\ NewEngineWindow.map = EmptyBitmap
  BY <1>1 DEF NewEngineWindow, EngineWindow
<1>4. NewKeysWindow \in KeysWindow /\ NewKeysWindow.highest = 0
        /\ NewKeysWindow.map = EmptyBitmap /\ NewKeysWindow.started = FALSE
  BY <1>1 DEF NewKeysWindow, KeysWindow
<1>5. NewLegWindow \in LegWindow /\ NewLegWindow.highest = 0
        /\ NewLegWindow.behind = {} /\ NewLegWindow.seen = FALSE
  BY DEF NewLegWindow, LegWindow
<1> QED
  BY <1>1, <1>2, <1>3, <1>4, <1>5 DEF EngineHolds, KeysHold, LegHolds

\* A counter at or behind the highest is within its bitmap exactly when it is
\* new to the history.
LEMMA WithinIsNew ==
    ASSUME NEW map, NEW highest \in Nat, NEW took, NEW c \in Nat, c <= highest,
           HistoryOf(took, highest), BitsTell(map, highest, took)
    PROVE  Within(map, highest - c) <=> Fresh(took, c, Window)
<1>1. Window \in Nat \ {0}
  BY Constants
<1>2. Fresh(took, c, Window) <=> c \notin took /\ (highest - c < Window \/ took = {})
  BY <1>1, NewByDistance
<1>3. took = {} => highest - c < Window
  BY <1>1 DEF HistoryOf
<1>4. highest - c \in 0 .. Window - 1 <=> highest - c < Window
  BY <1>1
<1>5. ASSUME highest - c \in 0 .. Window - 1
      PROVE  Bit(map, highest - c) <=> c \in took
  <2>1. highest - (highest - c) = c
    OBVIOUS
  <2> QED
    BY <1>5, <2>1 DEF BitsTell, Behind
<1> QED
  BY <1>2, <1>3, <1>4, <1>5 DEF Within

\* The engine's window takes what is below the ceiling and new to its history.
LEMMA EngineTakesTheNew ==
    ASSUME NEW w, NEW took, NEW c \in Nat, EngineHolds(w, took)
    PROVE  EngineTakes(w, c) <=> c < RejectAfter /\ Fresh(took, c, Window)
<1>1. w.highest \in Nat /\ HistoryOf(took, w.highest) /\ BitsTell(w.map, w.highest, took)
  BY DEF EngineHolds, EngineWindow
<1>2. CASE c > w.highest
  BY <1>1, <1>2, Constants, NewByDistance DEF EngineTakes
<1>3. CASE ~(c > w.highest)
  <2>1. Within(w.map, w.highest - c) <=> Fresh(took, c, Window)
    BY <1>1, <1>3, WithinIsNew
  <2> QED
    BY <1>3, <2>1 DEF EngineTakes
<1> QED
  BY <1>2, <1>3

LEMMA EngineRecords ==
    ASSUME NEW w, NEW took, NEW c \in Nat, EngineHolds(w, took), EngineTakes(w, c)
    PROVE  EngineHolds(EngineTaken(w, c), took \cup {c})
<1>1. /\ w.highest \in Nat /\ w.map \in Bitmap /\ w = [highest |-> w.highest, map |-> w.map]
      /\ HistoryOf(took, w.highest) /\ BitsTell(w.map, w.highest, took)
  BY DEF EngineHolds, EngineWindow
<1>2. took \subseteq 0 .. w.highest
  BY <1>1 DEF HistoryOf
<1>3. CASE c > w.highest
  <2> DEFINE m == WithBit(EngineShifted(w.map, c - w.highest), 0)
  <2>1. m \in Bitmap /\ BitsTell(m, c, took \cup {c})
    BY <1>1, <1>2, <1>3, BitsAhead
  <2>2. EngineTaken(w, c) = [highest |-> c, map |-> m]
    BY <1>3 DEF EngineTaken
  <2> HIDE DEF m
  <2>3. HistoryOf(took \cup {c}, c)
    BY <1>1, <1>2, <1>3 DEF HistoryOf
  <2> QED
    BY <2>1, <2>2, <2>3 DEF EngineHolds, EngineWindow
<1>4. CASE ~(c > w.highest)
  <2>1. Within(w.map, w.highest - c)
    BY <1>4 DEF EngineTakes
  <2>2. w.highest - c \in Behind
    BY <2>1 DEF Within, Behind
  <2> DEFINE m == WithBit(w.map, w.highest - c)
  <2>3. m \in Bitmap /\ BitsTell(m, w.highest, took \cup {c})
    BY <1>1, <2>2, BitsBehind
  <2>4. EngineTaken(w, c) = [w EXCEPT !.map = m]
    BY <1>4 DEF EngineTaken
  <2> HIDE DEF m
  <2>5. EngineTaken(w, c) = [highest |-> w.highest, map |-> m]
    BY <1>1, <2>4
  <2>6. HistoryOf(took \cup {c}, w.highest)
    BY <1>1, <1>2, <1>4 DEF HistoryOf
  <2> QED
    BY <1>1, <2>3, <2>5, <2>6 DEF EngineHolds, EngineWindow
<1> QED
  BY <1>3, <1>4

\* So does the keys' window.
LEMMA KeysTakeTheNew ==
    ASSUME NEW w, NEW took, NEW c \in Nat, KeysHold(w, took)
    PROVE  KeysTake(w, c) <=> c < RejectAfter /\ Fresh(took, c, Window)
<1>1. /\ w.highest \in Nat /\ HistoryOf(took, w.highest) /\ BitsTell(w.map, w.highest, took)
      /\ w.started \in BOOLEAN /\ (w.started <=> took # {})
  BY DEF KeysHold, KeysWindow
<1>2. CASE ~ w.started
  <2>1. Fresh(took, c, Window)
    BY <1>1, <1>2 DEF Fresh
  <2> QED
    BY <1>2, <2>1 DEF KeysTake
<1>3. CASE w.started /\ c > w.highest
  BY <1>1, <1>3, Constants, NewByDistance DEF KeysTake
<1>4. CASE w.started /\ ~(c > w.highest)
  <2>1. Within(w.map, w.highest - c) <=> Fresh(took, c, Window)
    BY <1>1, <1>4, WithinIsNew
  <2> QED
    BY <1>4, <2>1 DEF KeysTake
<1> QED
  BY <1>2, <1>3, <1>4

LEMMA KeysRecord ==
    ASSUME NEW w, NEW took, NEW c \in Nat, KeysHold(w, took), KeysTake(w, c)
    PROVE  KeysHold(KeysTaken(w, c), took \cup {c})
<1>1. /\ w.highest \in Nat /\ w.map \in Bitmap /\ w.started \in BOOLEAN
      /\ w = [highest |-> w.highest, map |-> w.map, started |-> w.started]
      /\ HistoryOf(took, w.highest) /\ BitsTell(w.map, w.highest, took)
      /\ (w.started <=> took # {})
  BY DEF KeysHold, KeysWindow
<1>2. took \subseteq 0 .. w.highest /\ took \cup {c} # {}
  BY <1>1 DEF HistoryOf
<1>3. CASE ~ w.started
  <2> DEFINE m == WithBit(w.map, 0)
  <2>1. took = {} /\ w.highest = 0
    BY <1>1, <1>3 DEF HistoryOf
  <2>2. 0 \in Behind
    BY Constants DEF Behind
  <2>3. m \in Bitmap /\ \A b \in Behind : Bit(m, b) <=> Bit(w.map, b) \/ b = 0
    BY <1>1, <2>2, BitsWith
  <2>4. KeysTaken(w, c) = [highest |-> c, map |-> m, started |-> TRUE]
    BY <1>3 DEF KeysTaken
  <2> HIDE DEF m
  <2>5. BitsTell(m, c, took \cup {c})
    <3>1. ASSUME NEW b \in Behind
          PROVE  Bit(m, b) <=> c - b \in took \cup {c}
      <4>1. ~ Bit(w.map, b)
        BY <1>1, <2>1 DEF BitsTell
      <4>2. c - b = c <=> b = 0
        BY Constants DEF Behind
      <4> QED
        BY <2>1, <2>3, <4>1, <4>2
    <3> QED
      BY <3>1 DEF BitsTell
  <2>6. HistoryOf(took \cup {c}, c)
    BY <2>1 DEF HistoryOf
  <2> QED
    BY <1>2, <2>3, <2>4, <2>5, <2>6 DEF KeysHold, KeysWindow
<1>4. CASE w.started /\ c > w.highest
  <2> DEFINE m == WithBit(KeysShifted(w.map, c - w.highest), 0)
  <2>1. c - w.highest \in Nat
    BY <1>1, <1>4
  <2>2. m = WithBit(EngineShifted(w.map, c - w.highest), 0)
    BY <1>1, <2>1, ShiftsAgree
  <2>3. m \in Bitmap /\ BitsTell(m, c, took \cup {c})
    BY <1>1, <1>2, <1>4, <2>2, BitsAhead
  <2>4. KeysTaken(w, c) = [w EXCEPT !.highest = c, !.map = m]
    BY <1>4 DEF KeysTaken
  <2> HIDE DEF m
  <2>5. KeysTaken(w, c) = [highest |-> c, map |-> m, started |-> w.started]
    BY <1>1, <2>4
  <2>6. HistoryOf(took \cup {c}, c)
    BY <1>1, <1>2, <1>4 DEF HistoryOf
  <2>7. KeysTaken(w, c) \in KeysWindow
    BY <1>1, <2>3, <2>5 DEF KeysWindow
  <2> QED
    BY <1>2, <1>4, <2>3, <2>5, <2>6, <2>7 DEF KeysHold
<1>5. CASE w.started /\ ~(c > w.highest)
  <2>1. Within(w.map, w.highest - c)
    BY <1>5 DEF KeysTake
  <2>2. w.highest - c \in Behind
    BY <2>1 DEF Within, Behind
  <2> DEFINE m == WithBit(w.map, w.highest - c)
  <2>3. m \in Bitmap /\ BitsTell(m, w.highest, took \cup {c})
    BY <1>1, <2>2, BitsBehind
  <2>4. KeysTaken(w, c) = [w EXCEPT !.map = m]
    BY <1>5 DEF KeysTaken
  <2> HIDE DEF m
  <2>5. KeysTaken(w, c) = [highest |-> w.highest, map |-> m, started |-> w.started]
    BY <1>1, <2>4
  <2>6. HistoryOf(took \cup {c}, w.highest)
    BY <1>1, <1>2, <1>5 DEF HistoryOf
  <2>7. KeysTaken(w, c) \in KeysWindow
    BY <1>1, <2>3, <2>5 DEF KeysWindow
  <2> QED
    BY <1>2, <1>5, <2>3, <2>5, <2>6, <2>7 DEF KeysHold
<1> QED
  BY <1>3, <1>4, <1>5

\* A leg's window takes what is new to its history, a leg's width deep.
LEMMA LegTakesTheNew ==
    ASSUME NEW w, NEW took, NEW c \in Nat, LegHolds(w, took)
    PROVE  LegTakes(w, c) <=> Fresh(took, c, LegWidth)
<1>1. /\ w.highest \in Nat /\ HistoryOf(took, w.highest) /\ w.seen \in BOOLEAN
      /\ (w.seen <=> took # {})
      /\ \A b \in 0 .. LegWidth - 1 : b \in w.behind <=> w.highest - b \in took
      /\ LegWidth \in Nat \ {0}
  BY Constants DEF LegHolds, LegWindow
<1>2. CASE ~ w.seen
  <2>1. Fresh(took, c, LegWidth)
    BY <1>1, <1>2 DEF Fresh
  <2> QED
    BY <1>2, <2>1 DEF LegTakes
<1>3. CASE w.seen /\ c > w.highest
  BY <1>1, <1>3, NewByDistance DEF LegTakes
<1>4. CASE w.seen /\ ~(c > w.highest)
  <2>1. Fresh(took, c, LegWidth) <=> c \notin took /\ w.highest - c < LegWidth
    BY <1>1, <1>4, NewByDistance
  <2>2. w.highest - c \in 0 .. LegWidth - 1 <=> w.highest - c < LegWidth
    BY <1>1, <1>4
  <2>3. ASSUME w.highest - c \in 0 .. LegWidth - 1
        PROVE  w.highest - c \in w.behind <=> c \in took
    <3>1. w.highest - (w.highest - c) = c
      BY <1>1
    <3> QED
      BY <1>1, <2>3, <3>1
  <2> QED
    BY <1>4, <2>1, <2>2, <2>3 DEF LegTakes
<1> QED
  BY <1>2, <1>3, <1>4

LEMMA LegRecords ==
    ASSUME NEW w, NEW took, NEW c \in Nat, LegHolds(w, took), LegTakes(w, c)
    PROVE  LegHolds(LegTaken(w, c), took \cup {c})
<1> DEFINE h == w.highest
           v == LegTaken(w, c)
<1>1. /\ h \in Nat /\ w.seen \in BOOLEAN /\ w.behind \subseteq 0 .. LegWidth - 1
      /\ w = [highest |-> h, behind |-> w.behind, seen |-> w.seen]
      /\ HistoryOf(took, h) /\ (w.seen <=> took # {})
      /\ \A b \in 0 .. LegWidth - 1 : b \in w.behind <=> h - b \in took
      /\ LegWidth \in Nat \ {0}
  BY Constants DEF LegHolds, LegWindow
<1>2. took \subseteq 0 .. h /\ took \cup {c} # {}
  BY <1>1 DEF HistoryOf
<1>3. CASE ~ w.seen
  <2>1. v = [highest |-> c, behind |-> {0}, seen |-> TRUE]
    BY <1>3 DEF LegTaken
  <2>2. took = {}
    BY <1>1, <1>3
  <2>3. \A b \in 0 .. LegWidth - 1 : b \in {0} <=> c - b \in took \cup {c}
    BY <1>1, <2>2
  <2>4. HistoryOf(took \cup {c}, c) /\ v \in LegWindow
    BY <1>1, <2>1, <2>2 DEF HistoryOf, LegWindow
  <2> QED
    BY <1>2, <2>1, <2>3, <2>4 DEF LegHolds
<1>4. CASE w.seen /\ c > h
  <2> DEFINE n == {0} \cup {d \in 1 .. LegWidth - 1 : d - (c - h) \in w.behind}
  <2>1. v = [w EXCEPT !.highest = c, !.behind = n]
    BY <1>4 DEF LegTaken
  <2>2. n \subseteq 0 .. LegWidth - 1
    BY <1>1
  <2>3. ASSUME NEW b \in 0 .. LegWidth - 1
        PROVE  b \in n <=> c - b \in took \cup {c}
    <3>1. CASE b = 0
      BY <3>1
    <3>2. CASE b # 0 /\ b >= c - h
      <4>1. b - (c - h) \in 0 .. LegWidth - 1 /\ h - (b - (c - h)) = c - b
        BY <1>1, <1>4, <3>2
      <4>2. b - (c - h) \in w.behind <=> c - b \in took
        BY <1>1, <4>1
      <4>3. b \in 1 .. LegWidth - 1 /\ c - b # c
        BY <1>1, <3>2
      <4> QED
        BY <3>2, <4>2, <4>3
    <3>3. CASE b # 0 /\ ~(b >= c - h)
      <4>1. b - (c - h) \notin w.behind /\ c - b \notin took /\ c - b # c
        BY <1>1, <1>2, <1>4, <3>3
      <4> QED
        BY <3>3, <4>1
    <3> QED
      BY <3>1, <3>2, <3>3
  <2> HIDE DEF n
  <2>4. v = [highest |-> c, behind |-> n, seen |-> w.seen]
    BY <1>1, <2>1
  <2>5. HistoryOf(took \cup {c}, c)
    BY <1>1, <1>2, <1>4 DEF HistoryOf
  <2>6. v \in LegWindow
    BY <1>1, <2>2, <2>4 DEF LegWindow
  <2> HIDE DEF v
  <2>7. LegHolds(v, took \cup {c})
    BY <1>2, <1>4, <2>3, <2>4, <2>5, <2>6 DEF LegHolds
  <2> QED
    BY <2>7 DEF v
<1>5. CASE w.seen /\ ~(c > h)
  <2>1. h - c \in 0 .. LegWidth - 1
    BY <1>5 DEF LegTakes
  <2> DEFINE n == w.behind \cup {h - c}
  <2>2. v = [w EXCEPT !.behind = n]
    BY <1>5 DEF LegTaken
  <2>3. ASSUME NEW b \in 0 .. LegWidth - 1
        PROVE  b \in n <=> h - b \in took \cup {c}
    <3>1. b = h - c <=> h - b = c
      BY <1>1
    <3> QED
      BY <1>1, <3>1
  <2>4. n \subseteq 0 .. LegWidth - 1
    BY <1>1, <2>1
  <2> HIDE DEF n
  <2>5. v = [highest |-> h, behind |-> n, seen |-> w.seen]
    BY <1>1, <2>2
  <2>6. HistoryOf(took \cup {c}, h)
    BY <1>1, <1>2, <1>5 DEF HistoryOf
  <2>7. v \in LegWindow
    BY <1>1, <2>4, <2>5 DEF LegWindow
  <2> HIDE DEF v, h
  <2>8. LegHolds(v, took \cup {c})
    BY <1>2, <1>5, <2>3, <2>5, <2>6, <2>7 DEF LegHolds
  <2> QED
    BY <2>8 DEF v
<1> QED
  BY <1>3, <1>4, <1>5

----------------------------------------------------------------------------
(* AntiReplay: every sequence of counters.                                  *)

\* What the three windows hold of what they took, and that the two a record
\* meets have taken the same.
WindowsHold ==
    /\ EngineHolds(engine, engineTook) /\ KeysHold(inner, innerTook) /\ LegHolds(leg, legTook)
    /\ innerTook = engineTook
    /\ engineTook \subseteq Received /\ legTook \subseteq Received

LEMMA WindowsStep ==
    ASSUME WindowsHold, [ReplayNext]_windows
    PROVE  WindowsHold'
<1>1. CASE UNCHANGED windows
  BY <1>1 DEF windows, WindowsHold, EngineHolds, KeysHold, LegHolds, HistoryOf, BitsTell
<1>2. CASE ReplayNext
  <2>1. PICK c \in Received : Receive(c)
    BY <1>2 DEF ReplayNext
  <2>2. c \in Nat
    BY Constants DEF Received
  <2>3. EngineTakes(engine, c) <=> KeysTake(inner, c)
    BY <2>2, EngineTakesTheNew, KeysTakeTheNew DEF WindowsHold
  <2>4. EngineHolds(engine', engineTook')
    BY <2>1, <2>2, EngineRecords DEF Receive, WindowsHold
  <2>5. KeysHold(inner', innerTook')
    BY <2>1, <2>2, KeysRecord DEF Receive, WindowsHold
  <2>6. LegHolds(leg', legTook')
    BY <2>1, <2>2, LegRecords DEF Receive, WindowsHold
  <2>7. innerTook' = engineTook'
    BY <2>1, <2>3 DEF Receive, WindowsHold
  <2>8. engineTook' \subseteq Received /\ legTook' \subseteq Received
    BY <2>1 DEF Receive, WindowsHold
  <2> QED
    BY <2>4, <2>5, <2>6, <2>7, <2>8 DEF WindowsHold, Received
<1> QED
  BY <1>1, <1>2

LEMMA WindowsAlways == ReplaySpec => []WindowsHold
<1>1. ReplayInit => WindowsHold
  BY NewWindows DEF ReplayInit, WindowsHold
<1>2. WindowsHold /\ [ReplayNext]_windows => WindowsHold'
  BY WindowsStep
<1> QED
  BY <1>1, <1>2, PTL DEF ReplaySpec

\* The windows keep their types: no highest is past the counters received and
\* no bit is outside its word (tunnel replay.rs, crypto replay.rs, frame.rs).
THEOREM WindowsTypeCorrect == ReplaySpec => []ReplayTypeOK
<1>1. WindowsHold => ReplayTypeOK
  <2> SUFFICES ASSUME WindowsHold PROVE ReplayTypeOK
    OBVIOUS
  <2>1. 0 \in Received
    BY Constants DEF Received
  <2>2. /\ HistoryOf(engineTook, engine.highest) /\ HistoryOf(engineTook, inner.highest)
        /\ HistoryOf(legTook, leg.highest)
    BY DEF WindowsHold, EngineHolds, KeysHold, LegHolds
  <2>3. {engine.highest, inner.highest, leg.highest} \subseteq Received
    BY <2>1, <2>2 DEF HistoryOf, WindowsHold
  <2> QED
    BY <2>3 DEF WindowsHold, EngineHolds, KeysHold, LegHolds, EngineWindow, KeysWindow,
                LegWindow, ReplayTypeOK
<1> QED
  BY <1>1, WindowsAlways, PTL

\* The engine's window refuses what it took, what is a whole window old and what
\* reaches the ceiling, and nothing else, however wide its words and however
\* many (tunnel replay.rs would_accept, accept, shift).
THEOREM EngineRemembersAlways == ReplaySpec => []EngineRemembers
<1>1. WindowsHold => EngineRemembers
  BY EngineTakesTheNew, Constants DEF WindowsHold, EngineRemembers, Received
<1> QED
  BY <1>1, WindowsAlways, PTL

\* The keys' window, which moves its words another way, has taken what the
\* engine's has and takes what it takes (engine.rs open, noise.rs open, crypto
\* replay.rs).
THEOREM ReplayIsNamedAlways == ReplaySpec => []ReplayIsNamed
<1>1. WindowsHold => ReplayIsNamed
  BY EngineTakesTheNew, KeysTakeTheNew, Constants DEF WindowsHold, ReplayIsNamed, Received
<1> QED
  BY <1>1, WindowsAlways, PTL

\* A leg's window refuses exactly what it took and what is its width old (relay
\* frame.rs accept, relay-client frame.rs accept).
THEOREM LegRemembersAlways == ReplaySpec => []LegRemembers
<1>1. WindowsHold => LegRemembers
  BY LegTakesTheNew, Constants DEF WindowsHold, LegRemembers, Received
<1> QED
  BY <1>1, WindowsAlways, PTL

----------------------------------------------------------------------------
(* A counter worked out from its low part.                                  *)

LEMMA LowPart ==
    ASSUME NEW c \in Nat
    PROVE  /\ Low(c) \in 0 .. Turn - 1
           /\ \E j \in Nat : c = (Turn * j) + Low(c)
           /\ c < Turn => Low(c) = c
<1> DEFINE q == c \div Turn
<1>1. Turn \in Nat \ {0}
  BY Constants
<1>2. c = (Turn * q) + (c % Turn) /\ c % Turn \in 0 .. Turn - 1 /\ q \in Nat
  BY <1>1, Divided
<1>3. c < Turn => c % Turn = c
  BY <1>1
<1> QED
  BY <1>2, <1>3 DEF Low

\* Less than half a turn from the highest, the low part tells the counter.
LEMMA NearestTells ==
    ASSUME NEW h \in Nat, NEW f \in Nat, f < h + Half, h < f + Half
    PROVE  Nearest(h, (h - Low(h)) + Low(f)) = f
<1>1. Turn = 2 * Half /\ Half \in Nat \ {0} /\ Turn \in Nat \ {0}
  BY Constants
<1>2. PICK a \in Nat : h = (Turn * a) + Low(h)
  BY LowPart
<1>3. PICK b \in Nat : f = (Turn * b) + Low(f)
  BY LowPart
<1>4. Low(h) \in 0 .. Turn - 1 /\ Low(f) \in 0 .. Turn - 1
  BY LowPart
<1> DEFINE A == Turn * a
           B == Turn * b
<1>5. A \in Nat /\ B \in Nat /\ h = A + Low(h) /\ f = B + Low(f)
  BY <1>1, <1>2, <1>3
<1>6. /\ b = a => B = A
      /\ b = a + 1 => B = A + Turn
      /\ b = a - 1 => B = A - Turn
  BY <1>1
<1>7. /\ a + 1 < b => B >= A + (2 * Turn)
      /\ b < a - 1 => A >= B + (2 * Turn)
  <2>1. Turn * (a + 1) = A + Turn /\ Turn * (a - 1) = A - Turn
    BY <1>1
  <2>2. a + 1 < b => (Turn * (a + 1)) + Turn <= B
    BY <1>1, Multiples
  <2>3. b < a - 1 => B + Turn <= Turn * (a - 1)
    BY <1>1, Multiples
  <2> HIDE DEF A, B
  <2> QED
    BY <1>1, <1>5, <2>1, <2>2, <2>3
<1> DEFINE m == (h - Low(h)) + Low(f)
<1> HIDE DEF A, B
<1>8. m = A + Low(f)
  BY <1>1, <1>4, <1>5
<1> HIDE DEF m
<1>9. ~(a + 1 < b) /\ ~(b < a - 1)
  BY <1>1, <1>4, <1>5, <1>7
<1>10. CASE b = a
  <2>1. m = f /\ ~(m + Half < h) /\ m <= h + Half
    BY <1>1, <1>4, <1>5, <1>6, <1>8, <1>10
  <2> QED
    BY <2>1 DEF Nearest, m
<1>11. CASE b = a + 1
  <2>1. m + Turn = f /\ m + Half < h
    BY <1>1, <1>4, <1>5, <1>6, <1>8, <1>11
  <2> QED
    BY <2>1 DEF Nearest, m
<1>12. CASE b = a - 1
  <2>1. m - Turn = f /\ ~(m + Half < h) /\ ~(m <= h + Half) /\ m >= Turn
    BY <1>1, <1>4, <1>5, <1>6, <1>8, <1>12
  <2> QED
    BY <2>1 DEF Nearest, m
<1>13. b = a \/ b = a + 1 \/ b = a - 1
  BY <1>9
<1> QED
  BY <1>10, <1>11, <1>12, <1>13

\* A frame that carries the low part of its counter is read truly.
LEMMA FrameRead ==
    ASSUME NEW w \in LegWindow, NEW d, d.full \in Nat, d.low = Low(d.full), ReadTruly(w, d)
    PROVE  Reads(w, d)
<1>1. w.highest \in Nat /\ w.seen \in BOOLEAN
  BY DEF LegWindow
<1>2. CASE w.seen
  <2>1. Nearest(w.highest, (w.highest - Low(w.highest)) + Low(d.full)) = d.full
    BY <1>1, <1>2, NearestTells DEF ReadTruly
  <2> QED
    BY <1>2, <2>1 DEF Reads, Reconstruct
<1>3. CASE ~ w.seen
  BY <1>3, LowPart DEF ReadTruly, Reads, Reconstruct
<1> QED
  BY <1>2, <1>3

LEMMA LegKeepsType ==
    ASSUME NEW w \in LegWindow, NEW c \in LegCounter, w.highest \in LegCounter, LegTakes(w, c)
    PROVE  LegTaken(w, c) \in LegWindow /\ LegTaken(w, c).highest \in LegCounter
<1>1. /\ w.highest \in Nat /\ w.behind \subseteq 0 .. LegWidth - 1 /\ w.seen \in BOOLEAN
      /\ w = [highest |-> w.highest, behind |-> w.behind, seen |-> w.seen]
      /\ LegWidth \in Nat \ {0} /\ c \in Nat
  BY Constants, CarriageConstants DEF LegWindow, LegCounter
<1>2. CASE ~ w.seen
  <2>1. LegTaken(w, c) = [highest |-> c, behind |-> {0}, seen |-> TRUE]
    BY <1>2 DEF LegTaken
  <2> QED
    BY <1>1, <2>1 DEF LegWindow
<1>3. CASE w.seen /\ c > w.highest
  <2> DEFINE n == {0} \cup {d \in 1 .. LegWidth - 1 : d - (c - w.highest) \in w.behind}
  <2>1. LegTaken(w, c) = [w EXCEPT !.highest = c, !.behind = n]
    BY <1>3 DEF LegTaken
  <2>2. n \subseteq 0 .. LegWidth - 1
    BY <1>1
  <2> HIDE DEF n
  <2>3. LegTaken(w, c) = [highest |-> c, behind |-> n, seen |-> w.seen]
    BY <1>1, <2>1
  <2> QED
    BY <1>1, <2>2, <2>3 DEF LegWindow
<1>4. CASE w.seen /\ ~(c > w.highest)
  <2> DEFINE n == w.behind \cup {w.highest - c}
  <2>1. LegTaken(w, c) = [w EXCEPT !.behind = n]
    BY <1>4 DEF LegTaken
  <2>2. n \subseteq 0 .. LegWidth - 1
    BY <1>1, <1>4 DEF LegTakes
  <2> HIDE DEF n
  <2>3. LegTaken(w, c) = [highest |-> w.highest, behind |-> n, seen |-> w.seen]
    BY <1>1, <2>1
  <2> QED
    BY <1>1, <2>2, <2>3 DEF LegWindow
<1> QED
  BY <1>2, <1>3, <1>4

----------------------------------------------------------------------------
(* Carriage: the inductive invariant.                                       *)

\* The counters written out under the key of the tunnel that stands.
Taken == {c \in Counter : \E r \in Record : r.key = receiver.key /\ r.counter = c /\ opened[r] # 0}

FramesTell == \A d \in net : d.hop \in {"up", "down"} => d.low = Low(d.full)

\* Keys are never used again, and both of the tunnel's windows hold what was
\* written out under its key.
WrittenOnce ==
    /\ receiver.key <= keys
    /\ \A r \in Record : (r.key > keys => opened[r] = 0) /\ opened[r] <= 1
    /\ EngineHolds(receiver.engine, Taken) /\ KeysHold(receiver.inner, Taken)

Typed ==
    /\ TypeOK
    /\ {relayIn, legIn} \subseteq LegWindow
    /\ receiver = [key |-> receiver.key, engine |-> receiver.engine, inner |-> receiver.inner]

CarriageHolds == Typed /\ FramesTell /\ WrittenOnce

----------------------------------------------------------------------------
(* Carriage: every step keeps it.                                           *)

LEMMA DatagramShapes ==
    ASSUME NEW d \in Datagram
    PROVE  /\ d.hop \in {"up", "down"} =>
                 d.low \in 0 .. Turn - 1 /\ d.full \in LegCounter /\ d.record \in Record
           /\ d.hop = "direct" => d.record \in Record
           /\ d.hop = "INIT" => d.attempt \in 1 .. MaxAttempts
           /\ d.hop = "RESP" => d.attempt \in 1 .. MaxAttempts /\ d.key \in 1 .. MaxKeys
<1>1. CASE d \in Frame
  <2>1. /\ d.hop \in {"up", "down"} /\ d.low \in 0 .. Turn - 1
        /\ d.full \in LegCounter /\ d.record \in Record
    BY <1>1 DEF Frame
  <2> QED
    BY <2>1
<1>2. CASE d \in [hop : {"direct"}, record : Record]
  BY <1>2
<1>3. CASE d \in [hop : {"INIT"}, attempt : 1 .. MaxAttempts]
  BY <1>3
<1>4. CASE d \in [hop : {"RESP"}, attempt : 1 .. MaxAttempts, key : 1 .. MaxKeys]
  BY <1>4
<1> QED
  BY <1>1, <1>2, <1>3, <1>4 DEF Datagram

LEMMA Bounds ==
    /\ {MaxAttempts, MaxKeys, MaxLegCounter} \subseteq Nat \ {0}
    /\ RejectAfter \in Nat \ {0}
    /\ TunnelKey = 0 .. MaxKeys /\ NoTunnel = 0
    /\ \A c \in Counter : c \in Nat /\ c < RejectAfter
    /\ \A r \in Record : r.key \in 1 .. MaxKeys /\ r.counter \in Counter
  BY Constants, CarriageConstants DEF TunnelKey, NoTunnel, Counter, Record

\* The records of one key and what is written out under it.
LEMMA TakenIs ==
    ASSUME NEW r \in Record, r.key = receiver.key
    PROVE  r.counter \in Taken <=> opened[r] # 0
<1>1. r = [key |-> r.key, counter |-> r.counter] /\ r.counter \in Counter
  BY DEF Record
<1>2. ASSUME NEW s \in Record, s.key = r.key, s.counter = r.counter
      PROVE  s = r
  BY <1>2 DEF Record
<1> QED
  BY <1>1, <1>2 DEF Taken

\* What leaves the receiver's tunnel and the keys alone leaves this be.
LEMMA WrittenStays ==
    ASSUME WrittenOnce, UNCHANGED <<receiver, opened, keys>>
    PROVE  WrittenOnce'
<1>1. Taken' = Taken
  BY DEF Taken
<1> QED
  BY <1>1 DEF WrittenOnce

LEMMA NetStays ==
    ASSUME net' \subseteq net, Typed, FramesTell
    PROVE  net' \subseteq Datagram /\ FramesTell'
  BY DEF Typed, TypeOK, FramesTell

\* A datagram that goes out.
LEMMA NetGrows ==
    ASSUME NEW e \in Datagram, net' \subseteq net \cup {e}, Typed, FramesTell,
           e.hop \in {"up", "down"} => e.low = Low(e.full)
    PROVE  net' \subseteq Datagram /\ FramesTell'
  BY DEF Typed, TypeOK, FramesTell

\* The rest of the type, once the network and the receiver are known to keep
\* theirs.
LEMMA TypedNext ==
    ASSUME Typed,
           attempt' \in 0 .. MaxAttempts, begun' \in 0 .. MaxAttempts,
           sender' \in [key : TunnelKey, sent : 0 .. RejectAfter],
           legSent' \in 0 .. MaxLegCounter + 1, relayOut' \in LegCounter,
           {relayIn', legIn'} \subseteq LegWindow,
           {relayIn'.highest, legIn'.highest} \subseteq LegCounter,
           receiver'.key \in TunnelKey,
           receiver' = [key |-> receiver'.key, engine |-> receiver'.engine,
                        inner |-> receiver'.inner],
           {receiver'.engine.highest, receiver'.inner.highest} \subseteq Counter,
           {receiver'.engine.map, receiver'.inner.map} \subseteq Bitmap,
           opened' \in [Record -> Nat], keys' \in TunnelKey, net' \subseteq Datagram
    PROVE  Typed'
<1>1. relayIn'.behind \cup legIn'.behind \subseteq 0 .. LegWidth - 1
  BY DEF LegWindow
<1>2. TypeOK'
  BY <1>1 DEF TypeOK
<1> QED
  BY <1>2 DEF Typed

LEMMA TypedFields ==
    ASSUME Typed
    PROVE  /\ attempt \in 0 .. MaxAttempts /\ begun \in 0 .. MaxAttempts
           /\ sender \in [key : TunnelKey, sent : 0 .. RejectAfter]
           /\ legSent \in 0 .. MaxLegCounter + 1 /\ relayOut \in LegCounter
           /\ {relayIn, legIn} \subseteq LegWindow
           /\ {relayIn.highest, legIn.highest} \subseteq LegCounter
           /\ receiver.key \in TunnelKey
           /\ receiver = [key |-> receiver.key, engine |-> receiver.engine,
                          inner |-> receiver.inner]
           /\ {receiver.engine.highest, receiver.inner.highest} \subseteq Counter
           /\ {receiver.engine.map, receiver.inner.map} \subseteq Bitmap
           /\ opened \in [Record -> Nat] /\ keys \in TunnelKey /\ net \subseteq Datagram
  BY DEF Typed, TypeOK

\* A record that is opened is new to both windows, which then hold it.
LEMMA OpensOnce ==
    ASSUME CarriageHolds, NEW r \in Record, Opens(r), keys' = keys
    PROVE  /\ WrittenOnce' /\ opened' \in [Record -> Nat]
           /\ receiver'.key \in TunnelKey
           /\ receiver' = [key |-> receiver'.key, engine |-> receiver'.engine,
                           inner |-> receiver'.inner]
           /\ {receiver'.engine.highest, receiver'.inner.highest} \subseteq Counter
           /\ {receiver'.engine.map, receiver'.inner.map} \subseteq Bitmap
<1> DEFINE c == r.counter
           en == EngineTaken(receiver.engine, c)
           ks == KeysTaken(receiver.inner, c)
<1>1. /\ r.key = receiver.key /\ c \in Counter /\ c \in Nat /\ Typed /\ WrittenOnce
      /\ EngineTakes(receiver.engine, c) /\ KeysTake(receiver.inner, c)
  BY Bounds DEF Opens, CarriageHolds
<1>2. receiver' = [key |-> receiver.key, engine |-> en, inner |-> ks]
  <2>1. receiver' = [receiver EXCEPT !.engine = en, !.inner = ks]
    BY DEF Opens
  <2> HIDE DEF en, ks
  <2>2. receiver = [key |-> receiver.key, engine |-> receiver.engine,
                    inner |-> receiver.inner]
    BY <1>1, TypedFields
  <2> QED
    BY <2>1, <2>2
<1>3. c \notin Taken
  <2>1. EngineHolds(receiver.engine, Taken)
    BY <1>1 DEF WrittenOnce
  <2>2. Fresh(Taken, c, Window)
    BY <1>1, <2>1, EngineTakesTheNew
  <2> QED
    BY <2>2 DEF Fresh
<1>4. opened[r] = 0 /\ opened \in [Record -> Nat]
  BY <1>1, <1>3, TakenIs, TypedFields
<1>5. opened' = [opened EXCEPT ![r] = 1]
  BY <1>4 DEF Opens
<1>6. Taken' = Taken \cup {c}
  <2>1. \A s \in Record : opened'[s] # 0 <=> opened[s] # 0 \/ s = r
    BY <1>4, <1>5
  <2>2. receiver'.key = receiver.key
    BY <1>2
  <2>3. Taken' = {x \in Counter : \E s \in Record : /\ s.key = receiver.key /\ s.counter = x
                                                     /\ (opened[s] # 0 \/ s = r)}
    BY <2>1, <2>2 DEF Taken
  <2> QED
    BY <1>1, <2>3 DEF Taken
<1>7. EngineHolds(en, Taken') /\ KeysHold(ks, Taken')
  BY <1>1, <1>6, EngineRecords, KeysRecord DEF WrittenOnce
<1>8. receiver'.key <= keys' /\ \A s \in Record : (s.key > keys' => opened'[s] = 0) /\ opened'[s] <= 1
  <2>1. receiver'.key = receiver.key
    BY <1>2
  <2>2. receiver.key \in Nat /\ keys \in Nat /\ ~ (r.key > keys)
    BY <1>1, TypedFields, Bounds DEF WrittenOnce
  <2>3. ASSUME NEW s \in Record
        PROVE  (s.key > keys => opened'[s] = 0) /\ opened'[s] <= 1
    <3>1. CASE s = r
      BY <1>4, <1>5, <2>2, <3>1
    <3>2. CASE s # r
      BY <1>1, <1>4, <1>5, <3>2 DEF WrittenOnce
    <3> QED
      BY <3>1, <3>2
  <2> QED
    BY <1>1, <2>1, <2>3 DEF WrittenOnce
<1>9. receiver'.engine = en /\ receiver'.inner = ks /\ receiver'.key = receiver.key
  BY <1>2
<1>10. WrittenOnce'
  BY <1>7, <1>8, <1>9 DEF WrittenOnce
<1>11. en.map \in Bitmap /\ ks.map \in Bitmap
  BY <1>7 DEF EngineHolds, KeysHold, EngineWindow, KeysWindow
<1>12. Taken' \subseteq Counter /\ c \in Taken'
  BY <1>6, <1>1 DEF Taken
<1>13. en.highest \in Counter /\ ks.highest \in Counter
  BY <1>7, <1>12 DEF EngineHolds, KeysHold, HistoryOf
<1>14. opened' \in [Record -> Nat]
  BY <1>4, <1>5
<1>15. receiver.key \in TunnelKey
  BY <1>1, TypedFields
<1> HIDE DEF en, ks, c
<1> QED
  BY <1>2, <1>9, <1>10, <1>11, <1>13, <1>14, <1>15

LEMMA InitHolds == Init => CarriageHolds
<1> SUFFICES ASSUME Init PROVE CarriageHolds
  OBVIOUS
<1>1. /\ attempt = 0 /\ begun = 0 /\ sender = [key |-> NoTunnel, sent |-> 0] /\ legSent = 1
      /\ relayIn = NewLegWindow /\ legIn = NewLegWindow /\ relayOut = 0 /\ keys = 0 /\ net = {}
      /\ receiver = [key |-> 0, engine |-> NewEngineWindow, inner |-> NewKeysWindow]
      /\ opened = [r \in Record |-> 0]
  BY Bounds DEF Init, NewTunnel
<1>2. Taken = {}
  BY <1>1 DEF Taken
<1>3. WrittenOnce
  BY <1>1, <1>2, NewWindows, Bounds DEF WrittenOnce
<1>4. FramesTell
  BY <1>1 DEF FramesTell
<1>5. /\ NewLegWindow \in LegWindow /\ NewLegWindow.highest = 0
      /\ NewEngineWindow.highest = 0 /\ NewKeysWindow.highest = 0
      /\ NewEngineWindow.map \in Bitmap /\ NewKeysWindow.map \in Bitmap
  BY EmptyBits, NewWindows DEF LegHolds, NewLegWindow, NewEngineWindow, NewKeysWindow
<1>6. NewLegWindow.behind \subseteq 0 .. LegWidth - 1
  BY <1>5 DEF LegWindow
<1>7. 0 \in LegCounter /\ 0 \in Counter /\ 0 \in TunnelKey /\ 0 \in 0 .. MaxAttempts
      /\ 1 \in 0 .. MaxLegCounter + 1 /\ 0 \in 0 .. RejectAfter
  BY Bounds DEF LegCounter, Counter
<1>8. TypeOK
  BY <1>1, <1>5, <1>6, <1>7, Bounds DEF TypeOK
<1>9. Typed
  BY <1>1, <1>5, <1>8 DEF Typed
<1> QED
  BY <1>3, <1>4, <1>9 DEF CarriageHolds

LEMMA InitiateHolds == CarriageHolds /\ Initiate => CarriageHolds'
<1> SUFFICES ASSUME CarriageHolds, Initiate PROVE CarriageHolds'
  OBVIOUS
<1> DEFINE e == [hop |-> "INIT", attempt |-> begun']
<1>1. Typed /\ FramesTell /\ WrittenOnce
  BY DEF CarriageHolds
<1>2. begun' \in 1 .. MaxAttempts /\ attempt' = begun'
  BY <1>1, TypedFields, Bounds DEF Initiate
<1>3. e \in Datagram /\ e.hop = "INIT" /\ net' = net \cup {e}
  BY <1>2 DEF Initiate, Sends, Datagram
<1> HIDE DEF e
<1>4. net' \subseteq Datagram /\ FramesTell'
  BY <1>1, <1>3, NetGrows
<1>5. UNCHANGED <<sender, legSent, relayIn, relayOut, legIn, receiver, opened, keys>>
  BY DEF Initiate
<1>6. attempt' \in 0 .. MaxAttempts /\ begun' \in 0 .. MaxAttempts
  BY <1>2
<1>7. Typed'
  BY <1>1, <1>4, <1>5, <1>6, TypedFields, TypedNext
<1> QED
  BY <1>1, <1>4, <1>5, <1>7, WrittenStays DEF CarriageHolds

LEMMA RespondHolds == ASSUME CarriageHolds, NEW d \in net, Respond(d) PROVE CarriageHolds'
<1> DEFINE e == [hop |-> "RESP", attempt |-> d.attempt, key |-> keys']
<1>1. Typed /\ FramesTell /\ WrittenOnce /\ d \in Datagram /\ d.hop = "INIT"
  BY TypedFields DEF CarriageHolds, Respond
<1>2. d.attempt \in 1 .. MaxAttempts
  BY <1>1, DatagramShapes
<1>3. keys' = keys + 1 /\ keys' \in 1 .. MaxKeys /\ keys' \in TunnelKey /\ keys \in Nat
  BY <1>1, TypedFields, Bounds DEF Respond
<1>4. e \in Datagram /\ e.hop = "RESP" /\ net' \subseteq net \cup {e}
  BY <1>2, <1>3 DEF Respond, Relays, Datagram
<1> HIDE DEF e
<1>5. net' \subseteq Datagram /\ FramesTell'
  BY <1>1, <1>4, NetGrows
<1>6. /\ UNCHANGED <<attempt, sender, legSent, relayIn, relayOut, legIn, opened, begun>>
      /\ receiver' = [key |-> keys', engine |-> NewEngineWindow, inner |-> NewKeysWindow]
  BY DEF Respond, NewTunnel
<1>7. Taken' = {}
  <2>1. \A r \in Record : r.key = keys' => opened[r] = 0
    BY <1>1, <1>3 DEF WrittenOnce
  <2> QED
    BY <1>6, <2>1 DEF Taken
<1>8. WrittenOnce'
  <2>1. \A r \in Record : r.key > keys' => r.key > keys
    BY <1>3, Bounds
  <2> QED
    BY <1>1, <1>3, <1>6, <1>7, <2>1, NewWindows DEF WrittenOnce
<1>9. /\ NewEngineWindow.highest = 0 /\ NewKeysWindow.highest = 0 /\ 0 \in Counter
      /\ NewEngineWindow.map \in Bitmap /\ NewKeysWindow.map \in Bitmap
  BY EmptyBits, Bounds DEF NewEngineWindow, NewKeysWindow, Counter
<1>10. Typed'
  BY <1>1, <1>3, <1>5, <1>6, <1>9, TypedFields, TypedNext
<1> QED
  BY <1>5, <1>8, <1>10 DEF CarriageHolds

LEMMA CompleteHolds == ASSUME CarriageHolds, NEW d \in net, Complete(d) PROVE CarriageHolds'
<1>1. Typed /\ FramesTell /\ WrittenOnce /\ d \in Datagram /\ d.hop = "RESP"
  BY TypedFields DEF CarriageHolds, Complete
<1>2. /\ UNCHANGED <<legSent, relayIn, relayOut, legIn, receiver, opened, keys, begun>>
      /\ attempt' = 0 /\ net' \subseteq net
      /\ sender' = IF d.attempt = attempt THEN [key |-> d.key, sent |-> 0] ELSE sender
  BY DEF Complete, Receives
<1>3. d.key \in TunnelKey /\ 0 \in 0 .. RejectAfter /\ 0 \in 0 .. MaxAttempts
  BY <1>1, DatagramShapes, Bounds
<1>4. sender' \in [key : TunnelKey, sent : 0 .. RejectAfter]
  BY <1>1, <1>2, <1>3, TypedFields
<1>5. net' \subseteq Datagram /\ FramesTell'
  BY <1>1, <1>2, NetStays
<1>6. Typed'
  BY <1>1, <1>2, <1>3, <1>4, <1>5, TypedFields, TypedNext
<1> QED
  BY <1>1, <1>2, <1>5, <1>6, WrittenStays DEF CarriageHolds

\* A sealed record takes its counter from below the ceiling.
LEMMA SealsIs ==
    ASSUME Typed, Seals
    PROVE  Sealed \in Record /\ sender' \in [key : TunnelKey, sent : 0 .. RejectAfter]
<1>1. /\ sender \in [key : TunnelKey, sent : 0 .. RejectAfter]
      /\ sender.key # 0 /\ sender.sent < RejectAfter
  BY TypedFields, Bounds DEF Seals
<1>2. /\ sender.key \in 1 .. MaxKeys /\ sender.sent \in Counter
      /\ sender.sent + 1 \in 0 .. RejectAfter
  BY <1>1, Bounds DEF Counter
<1>3. sender' = [sender EXCEPT !.sent = sender.sent + 1]
  BY DEF Seals
<1> QED
  BY <1>1, <1>2, <1>3 DEF Sealed, Record

LEMMA SendDirectHolds == CarriageHolds /\ SendDirect => CarriageHolds'
<1> SUFFICES ASSUME CarriageHolds, SendDirect PROVE CarriageHolds'
  OBVIOUS
<1> DEFINE e == [hop |-> "direct", record |-> Sealed]
<1>1. Typed /\ FramesTell /\ WrittenOnce
  BY DEF CarriageHolds
<1>2. Sealed \in Record /\ sender' \in [key : TunnelKey, sent : 0 .. RejectAfter]
  BY <1>1, SealsIs DEF SendDirect
<1>3. e \in Datagram /\ e.hop = "direct" /\ net' = net \cup {e}
  BY <1>2 DEF SendDirect, Sends, Datagram
<1> HIDE DEF e
<1>4. net' \subseteq Datagram /\ FramesTell'
  BY <1>1, <1>3, NetGrows
<1>5. UNCHANGED <<attempt, legSent, relayIn, relayOut, legIn, receiver, opened, keys, begun>>
  BY DEF SendDirect
<1>6. Typed'
  BY <1>1, <1>2, <1>4, <1>5, TypedFields, TypedNext
<1> QED
  BY <1>1, <1>4, <1>5, <1>6, WrittenStays DEF CarriageHolds

\* A frame made with the low part of its counter.
LEMMA FrameIs ==
    ASSUME NEW hop \in {"up", "down"}, NEW c \in LegCounter, NEW r \in Record
    PROVE  LET e == [hop |-> hop, low |-> Low(c), full |-> c, record |-> r]
           IN  e \in Datagram /\ e.low = Low(e.full)
<1>1. c \in Nat
  BY Bounds DEF LegCounter
<1>2. Low(c) \in 0 .. Turn - 1
  BY <1>1, LowPart
<1> QED
  BY <1>2 DEF Datagram, Frame

LEMMA TakesLegCounterIs ==
    ASSUME Typed, TakesLegCounter
    PROVE  legSent \in LegCounter /\ legSent' \in 0 .. MaxLegCounter + 1
<1>1. MaxLegCounter \in Nat /\ legSent \in 0 .. MaxLegCounter + 1
  BY TypedFields, Bounds
<1>2. legSent <= MaxLegCounter /\ legSent' = legSent + 1
  BY DEF TakesLegCounter
<1> QED
  BY <1>1, <1>2 DEF LegCounter

LEMMA SendRelayedHolds == CarriageHolds /\ SendRelayed => CarriageHolds'
<1> SUFFICES ASSUME CarriageHolds, SendRelayed PROVE CarriageHolds'
  OBVIOUS
<1> DEFINE e == [hop |-> "up", low |-> Low(legSent), full |-> legSent, record |-> Sealed]
<1>1. Typed /\ FramesTell /\ WrittenOnce
  BY DEF CarriageHolds
<1>2. Sealed \in Record /\ sender' \in [key : TunnelKey, sent : 0 .. RejectAfter]
  BY <1>1, SealsIs DEF SendRelayed
<1>3. legSent \in LegCounter /\ legSent' \in 0 .. MaxLegCounter + 1
  BY <1>1, TakesLegCounterIs DEF SendRelayed
<1>4. e \in Datagram /\ e.low = Low(e.full)
  BY <1>2, <1>3, FrameIs
<1>5. net' = net \cup {e}
  BY DEF SendRelayed, Sends
<1> HIDE DEF e
<1>6. net' \subseteq Datagram /\ FramesTell'
  BY <1>1, <1>4, <1>5, NetGrows
<1>7. UNCHANGED <<attempt, relayIn, relayOut, legIn, receiver, opened, keys, begun>>
  BY DEF SendRelayed
<1>8. Typed'
  BY <1>1, <1>2, <1>3, <1>6, <1>7, TypedFields, TypedNext
<1> QED
  BY <1>1, <1>6, <1>7, <1>8, WrittenStays DEF CarriageHolds

LEMMA SendControlHolds == CarriageHolds /\ SendControl => CarriageHolds'
<1> SUFFICES ASSUME CarriageHolds, SendControl PROVE CarriageHolds'
  OBVIOUS
<1>1. Typed /\ FramesTell /\ WrittenOnce
  BY DEF CarriageHolds
<1>2. legSent' \in 0 .. MaxLegCounter + 1
  BY <1>1, TakesLegCounterIs DEF SendControl
<1>3. UNCHANGED <<attempt, sender, relayIn, relayOut, legIn, receiver, opened, keys, begun, net>>
  BY DEF SendControl
<1>4. net' \subseteq Datagram /\ FramesTell'
  BY <1>1, <1>3, NetStays
<1>5. Typed'
  BY <1>1, <1>2, <1>3, <1>4, TypedFields, TypedNext
<1> QED
  BY <1>1, <1>3, <1>4, <1>5, WrittenStays DEF CarriageHolds

LEMMA LoseHolds == CarriageHolds /\ Lose => CarriageHolds'
<1> SUFFICES ASSUME CarriageHolds, Lose PROVE CarriageHolds'
  OBVIOUS
<1>1. Typed /\ FramesTell /\ WrittenOnce
  BY DEF CarriageHolds
<1>2. /\ net' \subseteq net
      /\ UNCHANGED <<attempt, sender, legSent, relayIn, relayOut, legIn, receiver,
                     opened, keys, begun>>
  BY DEF Lose
<1>3. net' \subseteq Datagram /\ FramesTell'
  BY <1>1, <1>2, NetStays
<1>4. Typed'
  BY <1>1, <1>2, <1>3, TypedFields, TypedNext
<1> QED
  BY <1>1, <1>2, <1>3, <1>4, WrittenStays DEF CarriageHolds

LEMMA ForwardHolds == ASSUME CarriageHolds, NEW d \in net, Forward(d) PROVE CarriageHolds'
<1> DEFINE e == [hop |-> "down", low |-> Low(relayOut'), full |-> relayOut', record |-> d.record]
<1>1. Typed /\ FramesTell /\ WrittenOnce /\ d \in Datagram /\ d.hop = "up"
  BY TypedFields DEF CarriageHolds, Forward
<1>2. d.full \in LegCounter /\ d.record \in Record
  BY <1>1, DatagramShapes
<1>3. relayOut' \in LegCounter
  <2>1. MaxLegCounter \in Nat /\ relayOut \in LegCounter
    BY <1>1, TypedFields, Bounds
  <2>2. relayOut < MaxLegCounter /\ relayOut' = relayOut + 1
    BY DEF Forward
  <2> QED
    BY <2>1, <2>2 DEF LegCounter
<1>4. relayIn' \in LegWindow /\ relayIn'.highest \in LegCounter
  BY <1>1, <1>2, TypedFields, LegKeepsType DEF Forward
<1>5. e \in Datagram /\ e.low = Low(e.full)
  BY <1>2, <1>3, FrameIs
<1>6. net' \subseteq net \cup {e}
  BY DEF Forward, Relays
<1> HIDE DEF e
<1>7. net' \subseteq Datagram /\ FramesTell'
  BY <1>1, <1>5, <1>6, NetGrows
<1>8. UNCHANGED <<attempt, sender, legSent, legIn, receiver, opened, keys, begun>>
  BY DEF Forward
<1>9. Typed'
  BY <1>1, <1>3, <1>4, <1>7, <1>8, TypedFields, TypedNext
<1> QED
  BY <1>1, <1>7, <1>8, <1>9, WrittenStays DEF CarriageHolds

\* A record that is opened, or refused.
LEMMA RecordHolds ==
    ASSUME CarriageHolds, NEW r \in Record, Opens(r) \/ Refuses(r), keys' = keys
    PROVE  /\ WrittenOnce' /\ opened' \in [Record -> Nat]
           /\ receiver'.key \in TunnelKey
           /\ receiver' = [key |-> receiver'.key, engine |-> receiver'.engine,
                           inner |-> receiver'.inner]
           /\ {receiver'.engine.highest, receiver'.inner.highest} \subseteq Counter
           /\ {receiver'.engine.map, receiver'.inner.map} \subseteq Bitmap
<1>1. CASE Opens(r)
  BY <1>1, OpensOnce
<1>2. CASE Refuses(r)
  <2>1. UNCHANGED <<receiver, opened, keys>>
    BY <1>2 DEF Refuses
  <2>2. Typed /\ WrittenOnce
    BY DEF CarriageHolds
  <2> QED
    BY <2>1, <2>2, TypedFields, WrittenStays
<1> QED
  BY <1>1, <1>2

LEMMA ReceiveDirectHolds == ASSUME CarriageHolds, NEW d \in net, ReceiveDirect(d) PROVE CarriageHolds'
<1>1. Typed /\ FramesTell /\ WrittenOnce /\ d \in Datagram /\ d.hop = "direct"
  BY TypedFields DEF CarriageHolds, ReceiveDirect
<1>2. /\ UNCHANGED <<attempt, sender, legSent, relayIn, relayOut, legIn, keys, begun>>
      /\ net' \subseteq net /\ (Opens(d.record) \/ Refuses(d.record))
  BY DEF ReceiveDirect, Receives
<1>3. d.record \in Record
  BY <1>1, DatagramShapes
<1>4. /\ WrittenOnce' /\ opened' \in [Record -> Nat]
      /\ receiver'.key \in TunnelKey
      /\ receiver' = [key |-> receiver'.key, engine |-> receiver'.engine,
                      inner |-> receiver'.inner]
      /\ {receiver'.engine.highest, receiver'.inner.highest} \subseteq Counter
      /\ {receiver'.engine.map, receiver'.inner.map} \subseteq Bitmap
  BY <1>2, <1>3, RecordHolds
<1>5. net' \subseteq Datagram /\ FramesTell'
  BY <1>1, <1>2, NetStays
<1>6. Typed'
  BY <1>1, <1>2, <1>4, <1>5, TypedFields, TypedNext
<1> QED
  BY <1>4, <1>5, <1>6 DEF CarriageHolds

LEMMA ReceiveRelayedHolds == ASSUME CarriageHolds, NEW d \in net, ReceiveRelayed(d) PROVE CarriageHolds'
<1>1. Typed /\ FramesTell /\ WrittenOnce /\ d \in Datagram /\ d.hop = "down"
  BY TypedFields DEF CarriageHolds, ReceiveRelayed
<1>2. /\ UNCHANGED <<attempt, sender, legSent, relayIn, relayOut, keys, begun>>
      /\ net' \subseteq net /\ (Opens(d.record) \/ Refuses(d.record))
  BY DEF ReceiveRelayed, Receives
<1>3. d.record \in Record /\ d.full \in LegCounter
  BY <1>1, DatagramShapes
<1>4. /\ WrittenOnce' /\ opened' \in [Record -> Nat]
      /\ receiver'.key \in TunnelKey
      /\ receiver' = [key |-> receiver'.key, engine |-> receiver'.engine,
                      inner |-> receiver'.inner]
      /\ {receiver'.engine.highest, receiver'.inner.highest} \subseteq Counter
      /\ {receiver'.engine.map, receiver'.inner.map} \subseteq Bitmap
  BY <1>2, <1>3, RecordHolds
<1>5. legIn' \in LegWindow /\ legIn'.highest \in LegCounter
  BY <1>1, <1>3, TypedFields, LegKeepsType DEF ReceiveRelayed
<1>6. net' \subseteq Datagram /\ FramesTell'
  BY <1>1, <1>2, NetStays
<1>7. Typed'
  BY <1>1, <1>2, <1>4, <1>5, <1>6, TypedFields, TypedNext
<1> QED
  BY <1>4, <1>6, <1>7 DEF CarriageHolds

LEMMA CarriageAlways == Spec => []CarriageHolds
<1>1. CarriageHolds /\ UNCHANGED vars => CarriageHolds'
  BY DEF vars, CarriageHolds, Typed, TypeOK, FramesTell, WrittenOnce, Taken
<1>2. ASSUME CarriageHolds, NEW d \in net,
             Respond(d) \/ Complete(d) \/ Forward(d) \/ ReceiveDirect(d) \/ ReceiveRelayed(d)
      PROVE  CarriageHolds'
  BY <1>2, RespondHolds, CompleteHolds, ForwardHolds, ReceiveDirectHolds, ReceiveRelayedHolds
<1>3. CarriageHolds /\ Next => CarriageHolds'
  BY <1>2, InitiateHolds, SendDirectHolds, SendRelayedHolds, SendControlHolds, LoseHolds DEF Next
<1> QED
  BY InitHolds, <1>1, <1>3, PTL DEF Spec

\* Keys, counters, windows and datagrams keep their types: no tunnel seals at or
\* past the ceiling and no window's highest leaves the counters (engine.rs seal,
\* relay/leg.rs, forward.rs).
THEOREM CarriageTypeCorrect == Spec => []TypeOK
<1>1. CarriageHolds => TypeOK
  BY DEF CarriageHolds, Typed
<1> QED
  BY <1>1, CarriageAlways, PTL

\* No packet is written to the interface twice, whatever the network loses,
\* repeats and reorders, on either path and across any number of handshakes
\* (engine.rs open, handshake_completed; handshake.rs drive).
THEOREM OpenedOnceAlways == Spec => []OpenedOnce
<1>1. CarriageHolds => OpenedOnce
  BY DEF CarriageHolds, WrittenOnce, OpenedOnce
<1> QED
  BY <1>1, CarriageAlways, PTL

\* A frame within half a turn of the newest admitted, or of the first turn where
\* nothing was, is read under the counter it was sent with, at every even length
\* of a turn (frame.rs reconstruct).
THEOREM LegCountersAgreeAlways == Spec => []LegCountersAgree
<1>1. CarriageHolds => LegCountersAgree
  <2> SUFFICES ASSUME CarriageHolds, NEW d \in net
               PROVE  /\ d.hop = "up" /\ ReadTruly(relayIn, d) => Reads(relayIn, d)
                      /\ d.hop = "down" /\ ReadTruly(legIn, d) => Reads(legIn, d)
    BY DEF LegCountersAgree
  <2>1. Typed /\ FramesTell /\ d \in Datagram
    BY TypedFields DEF CarriageHolds
  <2>2. d.hop \in {"up", "down"} => d.full \in Nat /\ d.low = Low(d.full)
    BY <2>1, DatagramShapes, Bounds DEF FramesTell, LegCounter
  <2>3. relayIn \in LegWindow /\ legIn \in LegWindow
    BY <2>1, TypedFields
  <2> QED
    BY <2>2, <2>3, FrameRead
<1> QED
  BY <1>1, CarriageAlways, PTL
=============================================================================
