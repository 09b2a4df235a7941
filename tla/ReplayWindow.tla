--------------------------- MODULE ReplayWindow ---------------------------
(* The sliding windows that refuse a counter received twice.               *)
(*                                                                         *)
(* An L-DATA record meets two, one after the other: the engine's           *)
(* (twinvpn-tunnel/src/replay.rs) and the keys' own                        *)
(* (twinvpn-crypto/src/replay.rs).  Both keep the counters behind the      *)
(* highest one in an array of machine words, and each moves its array in   *)
(* its own way.  A relay leg's window (relay frame.rs, relay-client        *)
(* frame.rs) is one word, and first works the whole counter out from the   *)
(* part of it a frame carries.  A word is the set of its bits.             *)
EXTENDS Integers

CONSTANTS
    WordBits, Words,    \* 64 bits, 128 words
    RejectAfter,        \* counters a key may not reach
    LegWidth,           \* 64 counters
    Turn                \* 2^16: a frame carries its counter modulo this

ASSUME WindowConstants ==
    /\ {WordBits, Words, RejectAfter, LegWidth, Turn} \subseteq Nat \ {0}
    /\ Turn % 2 = 0 /\ LegWidth <= Turn \div 2

Window == WordBits * Words
Word == SUBSET (0 .. WordBits - 1)
Bitmap == [0 .. Words - 1 -> Word]
EmptyBitmap == [i \in 0 .. Words - 1 |-> {}]

Bit(map, behind) == behind % WordBits \in map[behind \div WordBits]
WithBit(map, behind) == [map EXCEPT ![behind \div WordBits] = @ \cup {behind % WordBits}]

\* w << k and w >> k.
Left(w, k) == {b + k : b \in {c \in w : c + k < WordBits}}
Right(w, k) == {b - k : b \in {c \in w : c >= k}}

\* What word j - words held, or nothing below the first.
WordBelow(map, j, words) == IF j >= words THEN map[j - words] ELSE {}

----------------------------------------------------------------------------
(* The engine's window: [highest, map].                                    *)

NewEngineWindow == [highest |-> 0, map |-> EmptyBitmap]

Within(map, behind) == behind \in 0 .. Window - 1 /\ ~ Bit(map, behind)

EngineTakes(w, c) ==
    c < RejectAfter /\ (c > w.highest \/ Within(w.map, w.highest - c))

\* Each word is put together from the two that fall into it, highest first.
EngineWord(map, j, words, bits) ==
    Left(WordBelow(map, j, words), bits)
        \cup (IF bits = 0 THEN {}
              ELSE Right(WordBelow(map, j, words + 1), WordBits - bits))

\* Mutant of EngineShifted: whole words are moved and the rest forgotten.
EngineShiftedByWords(map, by) ==
    IF by >= Window THEN EmptyBitmap
    ELSE [j \in 0 .. Words - 1 |-> WordBelow(map, j, by \div WordBits)]

EngineShifted(map, by) ==
    IF by >= Window THEN EmptyBitmap
    ELSE [j \in 0 .. Words - 1 |-> EngineWord(map, j, by \div WordBits, by % WordBits)]

EngineTaken(w, c) ==
    IF c > w.highest
    THEN [highest |-> c, map |-> WithBit(EngineShifted(w.map, c - w.highest), 0)]
    ELSE [w EXCEPT !.map = WithBit(@, w.highest - c)]

----------------------------------------------------------------------------
(* The keys' window: [highest, map, started].                              *)

NewKeysWindow == [highest |-> 0, map |-> EmptyBitmap, started |-> FALSE]

KeysTake(w, c) ==
    /\ c < RejectAfter
    /\ ~ w.started \/ c > w.highest \/ Within(w.map, w.highest - c)

\* Whole words move first, then every word is shifted with the carry of the
\* one below it.
WordsMoved(map, words) == [i \in 0 .. Words - 1 |-> WordBelow(map, i, words)]

BitsMoved(map, bits) ==
    [i \in 0 .. Words - 1 |->
        Left(map[i], bits) \cup Right(WordBelow(map, i, 1), WordBits - bits)]

\* Mutant of KeysShifted: a shift of whole words is taken for none.
KeysShiftedByBits(map, by) ==
    IF by >= Window THEN EmptyBitmap ELSE BitsMoved(map, by % WordBits)

KeysShifted(map, by) ==
    IF by >= Window THEN EmptyBitmap
    ELSE IF by % WordBits = 0 THEN WordsMoved(map, by \div WordBits)
    ELSE BitsMoved(WordsMoved(map, by \div WordBits), by % WordBits)

KeysTaken(w, c) ==
    IF ~ w.started
    THEN [highest |-> c, map |-> WithBit(w.map, 0), started |-> TRUE]
    ELSE IF c > w.highest
    THEN [w EXCEPT !.highest = c, !.map = WithBit(KeysShifted(w.map, c - w.highest), 0)]
    ELSE [w EXCEPT !.map = WithBit(@, w.highest - c)]

----------------------------------------------------------------------------
(* A leg's window: [highest, behind, seen], behind being the counters      *)
(* received, as distances from the highest.                                *)

NewLegWindow == [highest |-> 0, behind |-> {}, seen |-> FALSE]

Low(c) == c % Turn
Half == Turn \div 2

\* Mutant of Nearest: a counter of the turn before is taken for this one's.
NearestForward(highest, candidate) ==
    IF candidate + Half < highest THEN candidate + Turn ELSE candidate

\* The counter nearest to highest; below zero it stops at zero.
Nearest(highest, candidate) ==
    IF candidate + Half < highest THEN candidate + Turn
    ELSE IF candidate <= highest + Half THEN candidate
    ELSE IF candidate >= Turn THEN candidate - Turn ELSE 0

Reconstruct(w, low) ==
    IF w.seen THEN Nearest(w.highest, (w.highest - Low(w.highest)) + low) ELSE low

LegTakes(w, c) ==
    ~ w.seen \/ c > w.highest \/ w.highest - c \in (0 .. LegWidth - 1) \ w.behind

\* Mutant of LegTaken: a jump forward keeps the distances as they were.
LegTakenUnmoved(w, c) ==
    IF ~ w.seen THEN [highest |-> c, behind |-> {0}, seen |-> TRUE]
    ELSE IF c > w.highest THEN [w EXCEPT !.highest = c, !.behind = @ \cup {0}]
    ELSE [w EXCEPT !.behind = @ \cup {w.highest - c}]

LegTaken(w, c) ==
    IF ~ w.seen THEN [highest |-> c, behind |-> {0}, seen |-> TRUE]
    ELSE IF c > w.highest
    THEN [w EXCEPT !.highest = c,
                   !.behind = {0} \cup {d \in 1 .. LegWidth - 1 : d - (c - w.highest) \in @}]
    ELSE [w EXCEPT !.behind = @ \cup {w.highest - c}]
=============================================================================
