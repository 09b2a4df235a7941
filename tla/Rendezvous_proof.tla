-------------------------- MODULE Rendezvous_proof --------------------------
(***************************************************************************)
(* Proofs about Rendezvous, for every set of connections and devices, every *)
(* ceiling, TTL and payload size, and any wait for a lock up to MaxLag.    *)
(***************************************************************************)
EXTENDS Rendezvous, FiniteSetTheorems, TLAPS

LEMMA Induct ==
    ASSUME NEW S, 0 \in S, \A n \in Nat : n \in S => n + 1 \in S
    PROVE  Nat \subseteq S
<1> SUFFICES ASSUME NEW t \in Nat, t \notin S PROVE FALSE
  OBVIOUS
<1> DEFINE U == {k \in 0 .. t : k \in S}
           f == [k \in U |-> k + 1]
<1>1. IsFiniteSet(0 .. t) /\ U \in SUBSET (0 .. t)
  BY FS_Interval
<1>2. IsFiniteSet(U)
  BY <1>1, FS_Subset
<1>3. 0 \in U
  OBVIOUS
<1>4. \A k \in U : k + 1 \in U \ {0}
  OBVIOUS
<1>5. f \in [U -> U \ {0}]
  BY <1>4
<1>6. \A a, b \in U : f[a] = f[b] => a = b
  OBVIOUS
<1>7. f \in Injection(U, U \ {0})
  BY <1>5, <1>6 DEF Injection, IsInjective
<1>8. IsFiniteSet(U \ {0}) /\ Cardinality(U \ {0}) = Cardinality(U) - 1
  BY <1>2, <1>3, FS_RemoveElement
<1>9. Cardinality(U) \in Nat
  BY <1>2, FS_CardinalityType
<1> HIDE DEF f, U
<1>10. Cardinality(U) <= Cardinality(U \ {0})
  BY <1>7, <1>8, FS_Injection
<1> QED
  BY <1>8, <1>9, <1>10

-----------------------------------------------------------------------------
(***************************************************************************)
(* The octets of a finite set of entries.                                   *)
(***************************************************************************)

Bytes(S) == MapThenSumSet(LAMBDA e : e.size, S)
Pick(s) == CHOOSE x \in s : TRUE
Sized(S) == \A e \in S : e.size \in Nat

(* The sums of all subsets of S, each upon a smaller one.                   *)
Sums(g, S) == [s \in SUBSET S |-> IF s = {} THEN 0 ELSE Pick(s).size + g[s \ {Pick(s)}]]

LEMMA BytesIs ==
    ASSUME NEW S
    PROVE  Bytes(S) = (CHOOSE g : g = Sums(g, S))[S]
  BY DEF Bytes, MapThenSumSet, MapThenFoldSet, Sums, Pick

LEMMA PickIn == \A s : s # {} => Pick(s) \in s
  BY DEF Pick

(* They exist, by the size of the subsets.                                  *)
LEMMA SumsExist ==
    ASSUME NEW S, IsFiniteSet(S)
    PROVE  \E g : g = Sums(g, S)
<1> DEFINE Small(n) == {s \in SUBSET S : Cardinality(s) <= n}
           Upon(g, s) == IF s = {} THEN 0 ELSE Pick(s).size + g[s \ {Pick(s)}]
           K == {n \in Nat : \E g : g = [s \in Small(n) |-> Upon(g, s)]}
<1>1. \A s \in SUBSET S : IsFiniteSet(s) /\ Cardinality(s) \in Nat
  BY FS_Subset, FS_CardinalityType
<1>2. \A s \in SUBSET S : Cardinality(s) = 0 <=> s = {}
  BY <1>1, FS_EmptySet
<1>3. \A s \in SUBSET S : s # {} => /\ s \ {Pick(s)} \in SUBSET S
                                    /\ Cardinality(s \ {Pick(s)}) = Cardinality(s) - 1
  BY <1>1, PickIn, FS_RemoveElement
<1>4. 0 \in K
  <2> DEFINE g == [s \in Small(0) |-> 0]
  <2>1. \A s \in Small(0) : s = {}
    BY <1>1, <1>2
  <2>2. \A s \in Small(0) : Upon(g, s) = 0
    BY <2>1
  <2>3. g = [s \in Small(0) |-> Upon(g, s)]
    <3> HIDE DEF Small, Upon
    <3> QED
      BY <2>2
  <2> QED
    BY <2>3
<1>5. ASSUME NEW n \in Nat, n \in K
      PROVE  n + 1 \in K
  <2>1. PICK g : g = [s \in Small(n) |-> Upon(g, s)]
    BY <1>5
  <2> DEFINE h == [s \in Small(n + 1) |-> IF s \in Small(n) THEN g[s] ELSE Upon(g, s)]
  <2>2. \A s \in Small(n) : g[s] = Upon(g, s)
    <3> HIDE DEF Small, Upon
    <3> DEFINE r == [s \in Small(n) |-> Upon(g, s)]
    <3>1. \A s \in Small(n) : r[s] = Upon(g, s)
      OBVIOUS
    <3>2. g = r
      BY <2>1
    <3> HIDE DEF r
    <3> QED
      BY <3>1, <3>2
  <2>3. \A s \in Small(n + 1) : h[s] = Upon(g, s)
    <3> HIDE DEF Small, Upon
    <3> QED
      BY <2>2
  <2>4. \A s \in Small(n) : s \in Small(n + 1) /\ h[s] = g[s]
    <3>1. \A s \in Small(n) : s \in Small(n + 1)
      BY <1>1
    <3> HIDE DEF Small, Upon
    <3> QED
      BY <3>1
  <2>5. \A s \in Small(n + 1) : s # {} => s \ {Pick(s)} \in Small(n)
    BY <1>1, <1>3
  <2>6. \A s \in Small(n + 1) : Upon(g, s) = Upon(h, s)
    <3> HIDE DEF Small, h
    <3> QED
      BY <2>4, <2>5
  <2>7. h = [s \in Small(n + 1) |-> Upon(h, s)]
    <3>1. h = [s \in Small(n + 1) |-> h[s]]
      OBVIOUS
    <3>2. \A s \in Small(n + 1) : h[s] = Upon(h, s)
      <4> HIDE DEF Small, Upon, h
      <4> QED
        BY <2>3, <2>6
    <3> HIDE DEF Small, Upon, h
    <3> QED
      BY <3>1, <3>2
  <2> HIDE DEF Small, Upon, h
  <2> QED
    BY <2>7
<1>6. Nat \subseteq K
  <2> HIDE DEF K
  <2> QED
    BY <1>4, <1>5, Induct
<1>7. Cardinality(S) \in Nat /\ Cardinality(S) \in K
  BY <1>1, <1>6
<1>8. PICK g : g = [s \in Small(Cardinality(S)) |-> Upon(g, s)]
  BY <1>7
<1>9. Small(Cardinality(S)) = SUBSET S
  BY FS_Subset
<1>10. g = [s \in SUBSET S |-> Upon(g, s)]
  BY <1>8, <1>9
<1> QED
  BY <1>10 DEF Sums

(* What g makes of each subset.                                             *)
SumsUp(g, S) ==
    \A s \in SUBSET S : g[s] = IF s = {} THEN 0 ELSE Pick(s).size + g[s \ {Pick(s)}]

LEMMA BytesSumUp ==
    ASSUME NEW S, IsFiniteSet(S)
    PROVE  \E g : SumsUp(g, S) /\ Bytes(S) = g[S]
<1> DEFINE g == CHOOSE f : f = Sums(f, S)
<1>1. g = Sums(g, S)
  BY SumsExist
<1>2. Bytes(S) = g[S]
  BY BytesIs
<1> HIDE DEF g
<1>3. SumsUp(g, S)
  <2> DEFINE r == Sums(g, S)
  <2>1. \A s \in SUBSET S : r[s] = IF s = {} THEN 0 ELSE Pick(s).size + g[s \ {Pick(s)}]
    BY DEF Sums
  <2>2. g = r
    BY <1>1
  <2> HIDE DEF r
  <2> QED
    BY <2>1, <2>2 DEF SumsUp
<1> QED
  BY <1>2, <1>3

(* Two such functions agree where both are defined.                         *)
LEMMA SumsAgree ==
    ASSUME NEW S, NEW T, IsFiniteSet(T), T \subseteq S, NEW g, NEW f, SumsUp(g, S), SumsUp(f, T)
    PROVE  g[T] = f[T]
<1> DEFINE K == {n \in Nat : \A s \in SUBSET T : Cardinality(s) = n => g[s] = f[s]}
<1>1. \A s \in SUBSET T : IsFiniteSet(s) /\ Cardinality(s) \in Nat /\ s \in SUBSET S
  BY FS_Subset, FS_CardinalityType
<1>2. \A s \in SUBSET T : Cardinality(s) = 0 <=> s = {}
  BY <1>1, FS_EmptySet
<1>3. \A s \in SUBSET T : s # {} => /\ s \ {Pick(s)} \in SUBSET T
                                    /\ Cardinality(s \ {Pick(s)}) = Cardinality(s) - 1
  BY <1>1, PickIn, FS_RemoveElement
<1>4. 0 \in K
  BY <1>1, <1>2 DEF SumsUp
<1>5. ASSUME NEW n \in Nat, n \in K
      PROVE  n + 1 \in K
  <2> SUFFICES ASSUME NEW s \in SUBSET T, Cardinality(s) = n + 1
               PROVE  g[s] = f[s]
    OBVIOUS
  <2>1. s # {} /\ s \in SUBSET S
    BY <1>1, <1>2
  <2>2. s \ {Pick(s)} \in SUBSET T /\ Cardinality(s \ {Pick(s)}) = n
    BY <1>3, <2>1
  <2>3. g[s \ {Pick(s)}] = f[s \ {Pick(s)}]
    BY <1>5, <2>2
  <2>4. /\ g[s] = Pick(s).size + g[s \ {Pick(s)}]
        /\ f[s] = Pick(s).size + f[s \ {Pick(s)}]
    BY <2>1 DEF SumsUp
  <2> QED
    BY <2>3, <2>4
<1>6. Nat \subseteq K
  <2> HIDE DEF K
  <2> QED
    BY <1>4, <1>5, Induct
<1> QED
  BY <1>1, <1>6

LEMMA BytesPick ==
    ASSUME NEW S, IsFiniteSet(S)
    PROVE  Bytes(S) = IF S = {} THEN 0 ELSE Pick(S).size + Bytes(S \ {Pick(S)})
<1>1. PICK g : SumsUp(g, S) /\ Bytes(S) = g[S]
  BY BytesSumUp
<1> DEFINE T == S \ {Pick(S)}
<1>2. IsFiniteSet(T) /\ T \subseteq S
  BY FS_Subset
<1>3. PICK f : SumsUp(f, T) /\ Bytes(T) = f[T]
  BY <1>2, BytesSumUp
<1>4. g[T] = f[T]
  <2> HIDE DEF T
  <2> QED
    BY <1>1, <1>2, <1>3, SumsAgree
<1>5. g[S] = IF S = {} THEN 0 ELSE Pick(S).size + g[T]
  BY <1>1 DEF SumsUp
<1> QED
  BY <1>1, <1>3, <1>4, <1>5

(* Any member may be the one that is taken out first.                       *)
LEMMA BytesMember ==
    ASSUME NEW S, IsFiniteSet(S), Sized(S)
    PROVE  /\ Bytes(S) \in Nat
           /\ \A x \in S : Bytes(S) = x.size + Bytes(S \ {x})
<1> DEFINE Good(s) == Bytes(s) \in Nat /\ \A x \in s : Bytes(s) = x.size + Bytes(s \ {x})
           K == {n \in Nat : \A s \in SUBSET S : Cardinality(s) <= n => Good(s)}
<1>1. \A s \in SUBSET S : IsFiniteSet(s) /\ Cardinality(s) \in Nat
  BY FS_Subset, FS_CardinalityType
<1>2. \A s \in SUBSET S : Cardinality(s) = 0 <=> s = {}
  BY <1>1, FS_EmptySet
<1>3. \A s \in SUBSET S : \A x \in s : s \ {x} \in SUBSET S /\ Cardinality(s \ {x}) = Cardinality(s) - 1
  BY <1>1, FS_RemoveElement
<1>4. 0 \in K
  <2>1. Bytes({}) = 0
    BY FS_EmptySet, BytesPick
  <2>2. Good({})
    BY <2>1
  <2> HIDE DEF Good
  <2> QED
    BY <1>1, <1>2, <2>2
<1>5. ASSUME NEW n \in Nat, n \in K
      PROVE  n + 1 \in K
  <2> SUFFICES ASSUME NEW s \in SUBSET S, Cardinality(s) <= n + 1
               PROVE  Good(s)
    OBVIOUS
  <2>0. CASE s = {}
    <3>1. 0 \in K /\ Cardinality(s) <= 0
      BY <1>2, <1>4, <2>0
    <3> QED
      BY <1>5, <1>2, <2>0
  <2> SUFFICES ASSUME s # {} PROVE Good(s)
    BY <2>0
  <2> DEFINE p == Pick(s)
  <2>1. s # {} /\ p \in s /\ IsFiniteSet(s)
    BY <1>1, <1>2, PickIn
  <2>2. Bytes(s) = p.size + Bytes(s \ {p})
    BY <2>1, BytesPick
  <2> HIDE DEF p
  <2>3. \A x \in s : Good(s \ {x}) /\ x.size \in Nat
    <3>1. \A x \in s : s \ {x} \in SUBSET S /\ Cardinality(s \ {x}) <= n
      BY <1>1, <1>3
    <3>2. \A x \in s : x.size \in Nat
      BY DEF Sized
    <3> HIDE DEF Good
    <3> QED
      BY <1>5, <3>1, <3>2
  <2>4. Bytes(s) \in Nat
    BY <2>1, <2>2, <2>3
  <2>5. ASSUME NEW x \in s
        PROVE  Bytes(s) = x.size + Bytes(s \ {x})
    <3>1. CASE x = p
      BY <2>2, <3>1
    <3>2. CASE x # p
      <4> DEFINE both == (s \ {p}) \ {x}
      <4>1. both = (s \ {x}) \ {p}
        OBVIOUS
      <4>2. x \in s \ {p} /\ p \in s \ {x}
        BY <2>1, <3>2
      <4>3. Bytes(s \ {p}) = x.size + Bytes(both)
        BY <2>1, <2>3, <4>2
      <4>4. Bytes(s \ {x}) = p.size + Bytes(both)
        BY <2>3, <4>1, <4>2
      <4> HIDE DEF both
      <4>5. x.size \in Nat /\ p.size \in Nat /\ Bytes(s \ {p}) \in Nat /\ Bytes(s \ {x}) \in Nat
        BY <2>1, <2>3
      <4>6. Bytes(both) \in Int
        <5>1. s \ {p} \in SUBSET S /\ Cardinality(s \ {p}) <= n
          BY <1>1, <1>3, <2>1
        <5>2. both \in SUBSET S /\ Cardinality(both) = Cardinality(s \ {p}) - 1
          BY <1>3, <4>2, <5>1 DEF both
        <5>3. Cardinality(both) <= n
          BY <1>1, <5>1, <5>2
        <5>4. Good(both)
          <6> HIDE DEF Good
          <6> QED
            BY <1>5, <5>2, <5>3
        <5> QED
          BY <5>4
      <4> QED
        BY <2>2, <4>3, <4>4, <4>5, <4>6
    <3> QED
      BY <3>1, <3>2
  <2> QED
    BY <2>4, <2>5
<1>6. Nat \subseteq K
  <2> HIDE DEF K
  <2> QED
    BY <1>4, <1>5, Induct
<1> QED
  BY <1>1, <1>6

(* What leaves takes its octets with it.                                    *)
LEMMA BytesWithout ==
    ASSUME NEW S, IsFiniteSet(S), Sized(S), NEW T \in SUBSET S
    PROVE  Bytes(S \ T) = Bytes(S) - Bytes(T)
<1> DEFINE K == {n \in Nat : \A t \in SUBSET S :
                    Cardinality(t) = n => Bytes(S) = Bytes(S \ t) + Bytes(t)}
<1>1. \A s \in SUBSET S : IsFiniteSet(s) /\ Cardinality(s) \in Nat /\ Sized(s)
  BY FS_Subset, FS_CardinalityType DEF Sized
<1>2. \A s \in SUBSET S : Bytes(s) \in Nat /\ \A x \in s : Bytes(s) = x.size + Bytes(s \ {x})
  BY <1>1, BytesMember
<1>3. 0 \in K
  <2>1. Bytes({}) = 0
    BY FS_EmptySet, BytesPick
  <2>2. \A t \in SUBSET S : Cardinality(t) = 0 => t = {}
    BY <1>1, FS_EmptySet
  <2>3. S \ {} = S /\ S \in SUBSET S
    OBVIOUS
  <2>4. Bytes(S) = Bytes(S \ {}) + Bytes({})
    <3>1. Bytes(S) \in Nat /\ Bytes(S \ {}) = Bytes(S)
      BY <1>2, <2>3
    <3> QED
      BY <2>1, <3>1
  <2>5. \A t \in SUBSET S : Cardinality(t) = 0 => Bytes(S) = Bytes(S \ t) + Bytes(t)
    BY <2>2, <2>4
  <2> QED
    BY <2>5
<1>4. ASSUME NEW n \in Nat, n \in K
      PROVE  n + 1 \in K
  <2> SUFFICES ASSUME NEW t \in SUBSET S, Cardinality(t) = n + 1
               PROVE  Bytes(S) = Bytes(S \ t) + Bytes(t)
    OBVIOUS
  <2>1. PICK x : x \in t
    BY FS_EmptySet
  <2> DEFINE u == t \ {x}
  <2>2. u \in SUBSET S /\ Cardinality(u) = n
    BY <1>1, <2>1, FS_RemoveElement
  <2>3. Bytes(S) = Bytes(S \ u) + Bytes(u)
    BY <1>4, <2>2
  <2>4. Bytes(t) = x.size + Bytes(u)
    BY <1>2, <2>1
  <2>5. Bytes(S \ u) = x.size + Bytes(S \ t)
    <3>1. x \in S \ u /\ (S \ u) \ {x} = S \ t
      BY <2>1
    <3> QED
      BY <1>2, <3>1
  <2>6. x.size \in Nat /\ Bytes(u) \in Nat /\ Bytes(S \ t) \in Nat
    BY <1>2, <2>1, <2>2 DEF Sized
  <2> HIDE DEF u
  <2> QED
    BY <2>3, <2>4, <2>5, <2>6
<1>5. Nat \subseteq K
  <2> HIDE DEF K
  <2> QED
    BY <1>3, <1>4, Induct
<1>6. Bytes(S) = Bytes(S \ T) + Bytes(T)
  BY <1>1, <1>5
<1> QED
  BY <1>2, <1>6

LEMMA BytesWith ==
    ASSUME NEW S, IsFiniteSet(S), Sized(S), NEW x, x \notin S, x.size \in Nat
    PROVE  Bytes(S \cup {x}) = Bytes(S) + x.size
<1>1. IsFiniteSet(S \cup {x}) /\ Sized(S \cup {x}) /\ (S \cup {x}) \ {x} = S
  BY FS_AddElement DEF Sized
<1>2. Bytes(S \cup {x}) = x.size + Bytes((S \cup {x}) \ {x})
  BY <1>1, BytesMember
<1>3. Bytes(S) \in Nat
  BY BytesMember
<1>4. Bytes(S \cup {x}) = x.size + Bytes(S)
  BY <1>1, <1>2
<1> HIDE DEF Bytes
<1> QED
  BY <1>3, <1>4

(* A set of numbers that is bounded has a least and a greatest member.       *)
LEMMA MaxIs ==
    ASSUME NEW m \in Nat, NEW S \in SUBSET (0 .. m), S # {}
    PROVE  Max(S) \in S /\ \A y \in S : y <= Max(S)
<1> DEFINE K == {n \in Nat : (\E y \in S : y >= m - n) => \E x \in S : \A y \in S : x >= y}
<1>1. 0 \in K
  OBVIOUS
<1>2. ASSUME NEW n \in Nat, n \in K
      PROVE  n + 1 \in K
  <2>1. CASE \E y \in S : y >= m - n
    BY <1>2, <2>1
  <2>2. CASE ~ \E y \in S : y >= m - n
    <3>1. \A y \in S : y <= m - (n + 1)
      BY <2>2
    <3> QED
      BY <3>1
  <2> QED
    BY <2>1, <2>2
<1>3. Nat \subseteq K
  <2> HIDE DEF K
  <2> QED
    BY <1>1, <1>2, Induct
<1>4. \E x \in S : \A y \in S : x >= y
  <2>1. m \in K
    BY <1>3
  <2>2. \E y \in S : y >= m - m
    <3>1. PICK z \in S : z \in 0 .. m
      OBVIOUS
    <3>2. z >= m - m
      BY <3>1
    <3> QED
      BY <3>2
  <2> QED
    BY <2>1, <2>2
<1>5. Max(S) \in S /\ \A y \in S : Max(S) >= y
  BY <1>4 DEF Max
<1> QED
  BY <1>5

LEMMA MinIs ==
    ASSUME NEW S \in SUBSET Nat, S # {}
    PROVE  Min(S) \in S /\ \A y \in S : Min(S) <= y
<1> DEFINE K == {n \in Nat : (\E y \in S : y <= n) => \E x \in S : \A y \in S : x <= y}
<1>1. 0 \in K
  OBVIOUS
<1>2. ASSUME NEW n \in Nat, n \in K
      PROVE  n + 1 \in K
  <2>1. CASE \E y \in S : y <= n
    BY <1>2, <2>1
  <2>2. CASE ~ \E y \in S : y <= n
    <3>1. \A y \in S : y >= n + 1
      BY <2>2
    <3> QED
      BY <3>1
  <2> QED
    BY <2>1, <2>2
<1>3. Nat \subseteq K
  <2> HIDE DEF K
  <2> QED
    BY <1>1, <1>2, Induct
<1>4. \E x \in S : \A y \in S : x <= y
  <2>1. PICK z \in S : z \in Nat
    OBVIOUS
  <2>2. z \in K /\ z <= z
    BY <1>3, <2>1
  <2> QED
    BY <2>1, <2>2
<1>5. Min(S) \in S /\ \A y \in S : Min(S) <= y
  BY <1>4 DEF Min
<1> QED
  BY <1>5

-----------------------------------------------------------------------------
(***************************************************************************)
(* The mailbox.                                                             *)
(***************************************************************************)

Entries(s) == UNION {EntriesOf(s, d) : d \in Device}
Index(s) == UNION {{[call |-> e.call, target |-> d] : e \in EntriesOf(s, d)} : d \in Device}

Store ==
    [boxes : [Device -> Seq(Entry)], order : SUBSET [call : Nat, target : Device], bytes : Nat]

Sorted(s) ==
    \A d \in Device : \A i \in 1 .. Len(s.boxes[d]) :
        \A j \in 1 .. (i - 1) : s.boxes[d][j].call < s.boxes[d][i].call

(* A call is in the queue of one device.                                    *)
OwnCalls(s) ==
    \A d, e \in Device : \A x \in EntriesOf(s, d), y \in EntriesOf(s, e) :
        x.call = y.call => d = e

(* An entry has at most its TTL to go, and no more than one wait for a lock  *)
(* less than any that came before it to its queue.                          *)
InDate(s) ==
    \A d \in Device : \A i \in 1 .. Len(s.boxes[d]) :
        /\ s.boxes[d][i].left \in (-2 * MaxLag) .. CallTtl
        /\ \A j \in 1 .. (i - 1) : s.boxes[d][j].left - MaxLag <= s.boxes[d][i].left

GoodStore(s) ==
    /\ s \in Store /\ s.order = Index(s) /\ s.bytes = Bytes(Entries(s)) /\ s.bytes <= MaxBytes
    /\ \A d \in Device : Len(s.boxes[d]) <= Depth
    /\ Sorted(s) /\ OwnCalls(s) /\ InDate(s)

(* What the steps before a push, and the sweep, do to the queues.            *)
Fewer(s, t) ==
    \A d \in Device : EntriesOf(t, d) \subseteq EntriesOf(s, d) /\ Len(t.boxes[d]) <= Len(s.boxes[d])

LEMMA Bounds ==
    /\ IsFiniteSet(Device) /\ MaxLag \in Nat
    /\ Depth \in Nat \ {0} /\ MaxBytes \in Nat \ {0} /\ CallTtl \in Nat \ {0}
  BY MailboxConstants, RendezvousConstants

LEMMA QueueIs ==
    ASSUME NEW s \in Store, NEW d \in Device
    PROVE  /\ s.boxes[d] \in Seq(Entry) /\ Len(s.boxes[d]) \in Nat
           /\ EntriesOf(s, d) = {s.boxes[d][i] : i \in 1 .. Len(s.boxes[d])}
           /\ \A i \in 1 .. Len(s.boxes[d]) : s.boxes[d][i] \in Entry
           /\ EntriesOf(s, d) \subseteq Entry
<1> DEFINE q == s.boxes[d]
<1>1. q \in Seq(Entry)
  BY DEF Store
<1> HIDE DEF q
<1>2. Len(q) \in Nat /\ DOMAIN q = 1 .. Len(q) /\ \A i \in 1 .. Len(q) : q[i] \in Entry
  BY <1>1
<1>3. EntriesOf(s, d) = {q[i] : i \in 1 .. Len(q)}
  BY <1>2 DEF EntriesOf, q
<1> QED
  BY <1>1, <1>2, <1>3 DEF q

LEMMA EntriesAre ==
    ASSUME NEW s \in Store
    PROVE  IsFiniteSet(Entries(s)) /\ Sized(Entries(s)) /\ Entries(s) \subseteq Entry
<1>1. ASSUME NEW d \in Device
      PROVE  IsFiniteSet(EntriesOf(s, d))
  <2> DEFINE m == Len(s.boxes[d])
             f == [i \in 1 .. m |-> s.boxes[d][i]]
  <2>1. m \in Nat /\ EntriesOf(s, d) = {s.boxes[d][i] : i \in 1 .. m}
    BY QueueIs
  <2>2. IsFiniteSet(1 .. m)
    BY <2>1, FS_Interval
  <2>3. f \in Surjection(1 .. m, EntriesOf(s, d))
    <3> HIDE DEF m
    <3> QED
      BY <2>1 DEF Surjection
  <2> HIDE DEF f, m
  <2> QED
    BY <2>2, <2>3, FS_Surjection
<1>2. IsFiniteSet({EntriesOf(s, d) : d \in Device})
  <2> DEFINE T == {EntriesOf(s, d) : d \in Device}
             f == [d \in Device |-> EntriesOf(s, d)]
  <2>1. f \in Surjection(Device, T)
    BY DEF Surjection
  <2> HIDE DEF f, T
  <2>2. IsFiniteSet(T)
    BY <2>1, Bounds, FS_Surjection
  <2> QED
    BY <2>2 DEF T
<1>3. IsFiniteSet(Entries(s))
  <2> DEFINE T == {EntriesOf(s, d) : d \in Device}
  <2>1. \A x \in T : IsFiniteSet(x)
    BY <1>1
  <2> HIDE DEF T
  <2>2. IsFiniteSet(UNION T)
    BY <1>2, <2>1, FS_UNION DEF T
  <2> QED
    BY <2>2 DEF T, Entries
<1>4. Entries(s) \subseteq Entry
  BY QueueIs DEF Entries
<1>5. Sized(Entries(s))
  BY <1>4 DEF Sized, Entry
<1> QED
  BY <1>3, <1>4, <1>5

(* A call tells its queue and its place there.                              *)
LEMMA CallsTell ==
    ASSUME NEW s \in Store, Sorted(s), OwnCalls(s),
           NEW d \in Device, NEW i \in 1 .. Len(s.boxes[d]),
           NEW e \in Device, NEW j \in 1 .. Len(s.boxes[e]),
           s.boxes[d][i].call = s.boxes[e][j].call
    PROVE  d = e /\ i = j
<1>1. s.boxes[d][i] \in EntriesOf(s, d) /\ s.boxes[e][j] \in EntriesOf(s, e)
  BY QueueIs
<1>2. d = e
  BY <1>1 DEF OwnCalls
<1>3. Len(s.boxes[d]) \in Nat /\ s.boxes[d][i] \in Entry /\ s.boxes[d][j] \in Entry
  BY <1>2, QueueIs
<1>4. s.boxes[d][i].call \in Nat /\ s.boxes[d][j].call \in Nat
  BY <1>3 DEF Entry
<1>5. ~(i < j) /\ ~(j < i)
  <2>1. ASSUME i < j PROVE FALSE
    <3>1. i \in 1 .. (j - 1) /\ j \in 1 .. Len(s.boxes[d])
      BY <1>2, <1>3, <2>1
    <3>2. s.boxes[d][i].call < s.boxes[d][j].call
      BY <3>1 DEF Sorted
    <3> QED
      BY <1>2, <1>4, <3>2
  <2>2. ASSUME j < i PROVE FALSE
    <3>1. j \in 1 .. (i - 1)
      BY <1>2, <1>3, <2>2
    <3>2. s.boxes[d][j].call < s.boxes[d][i].call
      BY <3>1 DEF Sorted
    <3> QED
      BY <1>2, <1>4, <3>2
  <2> QED
    BY <2>1, <2>2
<1> QED
  BY <1>2, <1>3, <1>5

LEMMA SubSeqIs ==
    ASSUME NEW S, NEW q \in Seq(S), NEW k \in 0 .. Len(q)
    PROVE  LET t == SubSeq(q, k + 1, Len(q))
           IN  /\ t \in Seq(S) /\ Len(t) = Len(q) - k
               /\ \A i \in 1 .. (Len(q) - k) : t[i] = q[k + i]
<1>1. Len(q) \in Nat
  OBVIOUS
<1>2. \A i \in (k + 1) .. Len(q) : q[i] \in S
  OBVIOUS
<1> DEFINE t == SubSeq(q, k + 1, Len(q))
<1>3. t \in Seq(S) /\ Len(t) = (Len(q) - (k + 1)) + 1
  BY <1>1, <1>2
<1>4. \A i \in 1 .. (Len(q) - k) : t[i] = q[(k + 1 + i) - 1]
  BY <1>1, <1>2
<1>5. \A i \in 1 .. (Len(q) - k) : (k + 1 + i) - 1 = k + i
  BY <1>1
<1>6. (Len(q) - (k + 1)) + 1 = Len(q) - k
  BY <1>1
<1> HIDE DEF t
<1>7. \A i \in 1 .. (Len(q) - k) : t[i] = q[k + i]
  BY <1>4, <1>5
<1> QED
  BY <1>3, <1>6, <1>7 DEF t

(* Popping from the front of any of the queues.                             *)
Counts(s, n) == \A d \in Device : n[d] \in 0 .. Len(s.boxes[d])

LEMMA PoppedQueue ==
    ASSUME NEW s \in Store, NEW n, Counts(s, n), NEW d \in Device
    PROVE  LET q == s.boxes[d]  r == Popped(s, n).boxes[d]
           IN  /\ r \in Seq(Entry) /\ Len(r) = Len(q) - n[d]
               /\ \A i \in 1 .. (Len(q) - n[d]) : r[i] = q[n[d] + i]
               /\ EntriesOf(Popped(s, n), d) = {q[i] : i \in (n[d] + 1) .. Len(q)}
<1> DEFINE q == s.boxes[d]
           k == n[d]
           r == SubSeq(q, k + 1, Len(q))
<1>1. q \in Seq(Entry) /\ k \in 0 .. Len(q)
  BY QueueIs DEF Counts
<1>2. Popped(s, n).boxes[d] = r
  BY DEF Popped
<1> HIDE DEF q, k
<1>3. r \in Seq(Entry) /\ Len(r) = Len(q) - k /\ \A i \in 1 .. (Len(q) - k) : r[i] = q[k + i]
  BY <1>1, SubSeqIs
<1> HIDE DEF r
<1>4. Len(q) \in Nat /\ DOMAIN r = 1 .. (Len(q) - k)
  BY <1>1, <1>3
<1>5. {r[i] : i \in DOMAIN r} = {q[i] : i \in (k + 1) .. Len(q)}
  <2>1. \A i \in 1 .. (Len(q) - k) : r[i] = q[k + i] /\ k + i \in (k + 1) .. Len(q)
    BY <1>1, <1>3, <1>4
  <2>2. \A i \in (k + 1) .. Len(q) : i - k \in 1 .. (Len(q) - k) /\ r[i - k] = q[i]
    <3> SUFFICES ASSUME NEW i \in (k + 1) .. Len(q)
                 PROVE  i - k \in 1 .. (Len(q) - k) /\ r[i - k] = q[i]
      OBVIOUS
    <3>1. i - k \in 1 .. (Len(q) - k) /\ k + (i - k) = i
      BY <1>1, <1>4
    <3> QED
      BY <1>3, <3>1
  <2> QED
    BY <1>4, <2>1, <2>2
<1>6. EntriesOf(Popped(s, n), d) = {r[i] : i \in DOMAIN r}
  BY <1>2 DEF EntriesOf
<1> QED
  BY <1>2, <1>3, <1>5, <1>6 DEF q, k

LEMMA PoppedGood ==
    ASSUME NEW s, GoodStore(s), NEW n, Counts(s, n)
    PROVE  /\ GoodStore(Popped(s, n)) /\ Fewer(s, Popped(s, n))
           /\ Entries(Popped(s, n)) = Entries(s) \ Front(s, n)
<1> DEFINE t == Popped(s, n)
<1>1. /\ s \in Store /\ s.order = Index(s) /\ s.bytes = Bytes(Entries(s)) /\ s.bytes <= MaxBytes
      /\ \A d \in Device : Len(s.boxes[d]) <= Depth
      /\ Sorted(s) /\ OwnCalls(s) /\ InDate(s)
  BY DEF GoodStore
<1>2. \A d \in Device : /\ s.boxes[d] \in Seq(Entry) /\ Len(s.boxes[d]) \in Nat
                        /\ n[d] \in 0 .. Len(s.boxes[d])
                        /\ EntriesOf(s, d) = {s.boxes[d][i] : i \in 1 .. Len(s.boxes[d])}
                        /\ \A i \in 1 .. Len(s.boxes[d]) : s.boxes[d][i] \in Entry
  BY <1>1, QueueIs DEF Counts
<1>3. /\ t.boxes \in [Device -> Seq(Entry)]
      /\ t.order = {o \in s.order : \A e \in Front(s, n) : e.call # o.call}
      /\ t.bytes = s.bytes - Bytes(Front(s, n))
      /\ t = [boxes |-> t.boxes, order |-> t.order, bytes |-> t.bytes]
  <2>1. \A d \in Device : SubSeq(s.boxes[d], n[d] + 1, Len(s.boxes[d])) \in Seq(Entry)
    BY <1>2, SubSeqIs
  <2> QED
    BY <2>1 DEF Popped, Bytes
<1>4. \A d \in Device : /\ Len(t.boxes[d]) = Len(s.boxes[d]) - n[d]
                        /\ \A i \in 1 .. (Len(s.boxes[d]) - n[d]) : t.boxes[d][i] = s.boxes[d][n[d] + i]
                        /\ EntriesOf(t, d) = {s.boxes[d][i] : i \in (n[d] + 1) .. Len(s.boxes[d])}
  BY <1>1, PoppedQueue
<1> HIDE DEF t
<1>5. ASSUME NEW d \in Device, NEW i \in 1 .. Len(s.boxes[d])
      PROVE  s.boxes[d][i] \in Front(s, n) <=> i <= n[d]
  <2>1. ASSUME i <= n[d] PROVE s.boxes[d][i] \in Front(s, n)
    <3>1. i \in 1 .. n[d]
      BY <1>2, <2>1
    <3> QED
      BY <3>1 DEF Front
  <2>2. ASSUME s.boxes[d][i] \in Front(s, n) PROVE i <= n[d]
    <3>1. PICK e \in Device : \E j \in 1 .. n[e] : s.boxes[d][i] = s.boxes[e][j]
      BY <2>2 DEF Front
    <3>2. PICK j \in 1 .. n[e] : s.boxes[d][i] = s.boxes[e][j]
      BY <3>1
    <3>3. j \in 1 .. Len(s.boxes[e])
      BY <1>2
    <3>4. d = e /\ i = j
      BY <1>1, <3>2, <3>3, CallsTell
    <3> QED
      BY <1>2, <3>2, <3>4
  <2> QED
    BY <2>1, <2>2
<1>6. \A d \in Device : EntriesOf(t, d) = EntriesOf(s, d) \ Front(s, n)
  <2> SUFFICES ASSUME NEW d \in Device PROVE EntriesOf(t, d) = EntriesOf(s, d) \ Front(s, n)
    OBVIOUS
  <2>1. \A i \in (n[d] + 1) .. Len(s.boxes[d]) : i \in 1 .. Len(s.boxes[d]) /\ ~(i <= n[d])
    BY <1>2
  <2>2. EntriesOf(t, d) \subseteq EntriesOf(s, d) \ Front(s, n)
    BY <1>2, <1>4, <1>5, <2>1
  <2>3. ASSUME NEW x \in EntriesOf(s, d) \ Front(s, n) PROVE x \in EntriesOf(t, d)
    <3>1. PICK i \in 1 .. Len(s.boxes[d]) : x = s.boxes[d][i]
      BY <1>2
    <3>2. ~(i <= n[d])
      BY <1>5, <2>3, <3>1
    <3>3. i \in (n[d] + 1) .. Len(s.boxes[d])
      BY <1>2, <3>2
    <3> QED
      BY <1>4, <3>1, <3>3
  <2> QED
    BY <2>2, <2>3
<1>7. Entries(t) = Entries(s) \ Front(s, n)
  BY <1>6 DEF Entries
<1>8. Front(s, n) \subseteq Entries(s)
  <2> SUFFICES ASSUME NEW d \in Device, NEW i \in 1 .. n[d] PROVE s.boxes[d][i] \in Entries(s)
    BY DEF Front
  <2>1. i \in 1 .. Len(s.boxes[d])
    BY <1>2
  <2> QED
    BY <1>2, <2>1 DEF Entries
<1>9. IsFiniteSet(Entries(s)) /\ Sized(Entries(s)) /\ Entries(s) \subseteq Entry
  BY <1>1, EntriesAre
<1>10. /\ Bytes(Entries(t)) = Bytes(Entries(s)) - Bytes(Front(s, n))
       /\ Bytes(Entries(s)) \in Nat /\ Bytes(Front(s, n)) \in Nat /\ Bytes(Entries(t)) \in Nat
  <2>1. Bytes(Entries(t)) = Bytes(Entries(s)) - Bytes(Front(s, n))
    BY <1>7, <1>8, <1>9, BytesWithout
  <2>2. Bytes(Entries(s)) \in Nat
    BY <1>9, BytesMember
  <2>3. Bytes(Front(s, n)) \in Nat
    <3>1. IsFiniteSet(Front(s, n)) /\ Sized(Front(s, n))
      BY <1>8, <1>9, FS_Subset DEF Sized
    <3> QED
      BY <3>1, BytesMember
  <2>4. Bytes(Entries(t)) \in Nat
    <3>1. IsFiniteSet(Entries(t)) /\ Sized(Entries(t))
      BY <1>7, <1>9, FS_Subset DEF Sized
    <3> QED
      BY <3>1, BytesMember
  <2> QED
    BY <2>1, <2>2, <2>3, <2>4
<1>11. t.bytes = Bytes(Entries(t)) /\ t.bytes \in Nat /\ t.bytes <= MaxBytes
  BY <1>1, <1>3, <1>10, Bounds
<1>12. t.order = Index(t)
  <2>1. ASSUME NEW o \in t.order PROVE o \in Index(t)
    <3>1. o \in Index(s) /\ \A e \in Front(s, n) : e.call # o.call
      BY <1>1, <1>3
    <3>2. PICK d \in Device : \E e \in EntriesOf(s, d) : o = [call |-> e.call, target |-> d]
      BY <3>1 DEF Index
    <3>3. PICK e \in EntriesOf(s, d) : o = [call |-> e.call, target |-> d]
      BY <3>2
    <3>4. e \notin Front(s, n)
      BY <3>1, <3>3
    <3>5. e \in EntriesOf(t, d)
      BY <1>6, <3>4
    <3> QED
      BY <3>3, <3>5 DEF Index
  <2>2. ASSUME NEW o \in Index(t) PROVE o \in t.order
    <3>1. PICK d \in Device : \E e \in EntriesOf(t, d) : o = [call |-> e.call, target |-> d]
      BY <2>2 DEF Index
    <3>2. PICK e \in EntriesOf(t, d) : o = [call |-> e.call, target |-> d]
      BY <3>1
    <3>3. e \in EntriesOf(s, d) /\ e \notin Front(s, n)
      BY <1>6
    <3>4. o \in s.order
      BY <1>1, <3>2, <3>3 DEF Index
    <3>5. PICK i \in 1 .. Len(s.boxes[d]) : e = s.boxes[d][i]
      BY <1>2, <3>3
    <3>6. ASSUME NEW f \in Front(s, n), f.call = o.call PROVE FALSE
      <4>1. PICK g \in Device : \E j \in 1 .. n[g] : f = s.boxes[g][j]
        BY DEF Front
      <4>2. PICK j \in 1 .. n[g] : f = s.boxes[g][j]
        BY <4>1
      <4>3. j \in 1 .. Len(s.boxes[g])
        BY <1>2
      <4>4. s.boxes[g][j].call = s.boxes[d][i].call
        BY <3>2, <3>5, <3>6, <4>2
      <4>5. d = g /\ i = j
        BY <1>1, <4>3, <4>4, CallsTell
      <4> QED
        BY <3>3, <3>5, <4>2, <4>5
    <3> QED
      BY <1>3, <3>4, <3>6
  <2> QED
    BY <2>1, <2>2
<1>13. t \in Store
  <2>1. t.order \in SUBSET [call : Nat, target : Device]
    BY <1>1, <1>3 DEF Store
  <2> QED
    BY <1>3, <1>11, <2>1 DEF Store
<1>14. Fewer(s, t)
  BY <1>2, <1>4, <1>6 DEF Fewer
<1>15. \A d \in Device : Len(t.boxes[d]) <= Depth
  BY <1>1, <1>2, <1>4, Bounds
<1>16. \A d \in Device : \A i \in 1 .. Len(t.boxes[d]) :
          /\ n[d] + i \in 1 .. Len(s.boxes[d]) /\ t.boxes[d][i] = s.boxes[d][n[d] + i]
          /\ \A j \in 1 .. (i - 1) : n[d] + j \in 1 .. ((n[d] + i) - 1) /\ j \in 1 .. Len(t.boxes[d])
  <2> SUFFICES ASSUME NEW d \in Device, NEW i \in 1 .. Len(t.boxes[d])
               PROVE  /\ n[d] + i \in 1 .. Len(s.boxes[d]) /\ t.boxes[d][i] = s.boxes[d][n[d] + i]
                      /\ \A j \in 1 .. (i - 1) : /\ n[d] + j \in 1 .. ((n[d] + i) - 1)
                                                 /\ j \in 1 .. Len(t.boxes[d])
    OBVIOUS
  <2>1. /\ Len(s.boxes[d]) \in Nat /\ n[d] \in 0 .. Len(s.boxes[d])
        /\ Len(t.boxes[d]) = Len(s.boxes[d]) - n[d]
    BY <1>2, <1>4
  <2>2. i \in 1 .. (Len(s.boxes[d]) - n[d])
    BY <2>1
  <2>3. t.boxes[d][i] = s.boxes[d][n[d] + i]
    BY <1>4, <2>2
  <2> DEFINE k == n[d]
             m == Len(s.boxes[d])
  <2>4. m \in Nat /\ k \in 0 .. m /\ Len(t.boxes[d]) = m - k /\ i \in 1 .. (m - k)
    BY <2>1, <2>2
  <2> HIDE DEF k, m
  <2>5. k + i \in 1 .. m
    BY <2>4
  <2>6. \A j \in 1 .. (i - 1) : k + j \in 1 .. ((k + i) - 1) /\ j \in 1 .. Len(t.boxes[d])
    BY <2>4
  <2> QED
    BY <2>3, <2>5, <2>6 DEF k, m
<1>17. Sorted(t)
  <2> SUFFICES ASSUME NEW d \in Device, NEW i \in 1 .. Len(t.boxes[d]), NEW j \in 1 .. (i - 1)
               PROVE  t.boxes[d][j].call < t.boxes[d][i].call
    BY DEF Sorted
  <2>1. /\ n[d] + i \in 1 .. Len(s.boxes[d]) /\ n[d] + j \in 1 .. ((n[d] + i) - 1)
        /\ t.boxes[d][i] = s.boxes[d][n[d] + i] /\ t.boxes[d][j] = s.boxes[d][n[d] + j]
    BY <1>16
  <2>2. s.boxes[d][n[d] + j].call < s.boxes[d][n[d] + i].call
    <3> DEFINE a == n[d] + i
               b == n[d] + j
    <3>1. a \in 1 .. Len(s.boxes[d]) /\ b \in 1 .. (a - 1)
      BY <2>1
    <3> HIDE DEF a, b
    <3>2. s.boxes[d][b].call < s.boxes[d][a].call
      BY <1>1, <3>1 DEF Sorted
    <3> QED
      BY <3>2 DEF a, b
  <2> QED
    BY <2>1, <2>2
<1>18. OwnCalls(t)
  BY <1>1, <1>6 DEF OwnCalls
<1>19. InDate(t)
  <2> SUFFICES ASSUME NEW d \in Device, NEW i \in 1 .. Len(t.boxes[d])
               PROVE  /\ t.boxes[d][i].left \in (-2 * MaxLag) .. CallTtl
                      /\ \A j \in 1 .. (i - 1) : t.boxes[d][j].left - MaxLag <= t.boxes[d][i].left
    BY DEF InDate
  <2>1. n[d] + i \in 1 .. Len(s.boxes[d]) /\ t.boxes[d][i] = s.boxes[d][n[d] + i]
    BY <1>16
  <2>2. t.boxes[d][i].left \in (-2 * MaxLag) .. CallTtl
    BY <1>1, <2>1 DEF InDate
  <2>3. ASSUME NEW j \in 1 .. (i - 1)
        PROVE  t.boxes[d][j].left - MaxLag <= t.boxes[d][i].left
    <3>1. n[d] + j \in 1 .. ((n[d] + i) - 1) /\ t.boxes[d][j] = s.boxes[d][n[d] + j]
      BY <1>16
    <3>2. s.boxes[d][n[d] + j].left - MaxLag <= s.boxes[d][n[d] + i].left
      <4> DEFINE a == n[d] + i
                 b == n[d] + j
      <4>1. a \in 1 .. Len(s.boxes[d]) /\ b \in 1 .. (a - 1)
        BY <2>1, <3>1
      <4> HIDE DEF a, b
      <4>2. s.boxes[d][b].left - MaxLag <= s.boxes[d][a].left
        BY <1>1, <4>1 DEF InDate
      <4> QED
        BY <4>2 DEF a, b
    <3> QED
      BY <2>1, <3>1, <3>2
  <2> QED
    BY <2>2, <2>3
<1> QED
  BY <1>1, <1>7, <1>11, <1>12, <1>13, <1>14, <1>15, <1>17, <1>18, <1>19 DEF GoodStore, t

LEMMA FewerTransitive ==
    ASSUME NEW s \in Store, NEW t \in Store, NEW u \in Store, Fewer(s, t), Fewer(t, u)
    PROVE  Fewer(s, u)
<1> SUFFICES ASSUME NEW d \in Device
             PROVE  EntriesOf(u, d) \subseteq EntriesOf(s, d) /\ Len(u.boxes[d]) <= Len(s.boxes[d])
  BY DEF Fewer
<1>1. Len(s.boxes[d]) \in Nat /\ Len(t.boxes[d]) \in Nat /\ Len(u.boxes[d]) \in Nat
  BY QueueIs
<1> QED
  BY <1>1 DEF Fewer

LEMMA SameFewer == \A s \in Store : Fewer(s, s)
<1> SUFFICES ASSUME NEW s \in Store, NEW d \in Device PROVE Len(s.boxes[d]) <= Len(s.boxes[d])
  BY DEF Fewer
<1>1. Len(s.boxes[d]) \in Nat
  BY QueueIs
<1> QED
  BY <1>1

(* A sweep leaves each queue a front that is in date.                       *)
LEMMA SweepGood ==
    ASSUME NEW s, GoodStore(s), NEW lag \in Lag
    PROVE  LET t == SweepStore(s, lag)
           IN  /\ GoodStore(t) /\ Fewer(s, t)
               /\ \A d \in Device : Len(t.boxes[d]) > 0 => t.boxes[d][1].left + lag > 0
<1> DEFINE n == [d \in Device |-> LapsedRun(s, d, lag)]
           t == Popped(s, n)
<1>1. s \in Store
  BY DEF GoodStore
<1>2. ASSUME NEW d \in Device
      PROVE  /\ n[d] \in 0 .. Len(s.boxes[d])
             /\ n[d] < Len(s.boxes[d]) => ~ Lapsed(s.boxes[d][n[d] + 1], lag)
  <2> DEFINE m == Len(s.boxes[d])
             X == {k \in 0 .. m : \A i \in 1 .. k : Lapsed(s.boxes[d][i], lag)}
  <2>1. m \in Nat
    BY <1>1, QueueIs
  <2>2. n[d] = Max(X)
    BY DEF LapsedRun
  <2> HIDE DEF m, n
  <2>3. 0 \in X
    BY <2>1
  <2>4. Max(X) \in X /\ \A y \in X : y <= Max(X)
    <3>1. X \in SUBSET (0 .. m) /\ X # {}
      BY <2>3
    <3> HIDE DEF X
    <3> QED
      BY <2>1, <3>1, MaxIs
  <2>5. ASSUME n[d] < m PROVE ~ Lapsed(s.boxes[d][n[d] + 1], lag)
    <3>1. n[d] \in 0 .. m /\ \A i \in 1 .. n[d] : Lapsed(s.boxes[d][i], lag)
      BY <2>2, <2>4
    <3>2. n[d] + 1 \in 0 .. m /\ ~(n[d] + 1 <= n[d])
      BY <2>1, <2>5, <3>1
    <3>3. n[d] + 1 \notin X
      <4> HIDE DEF X
      <4> QED
        BY <2>2, <2>4, <3>2
    <3>4. PICK i \in 1 .. (n[d] + 1) : ~ Lapsed(s.boxes[d][i], lag)
      BY <3>2, <3>3
    <3>5. i = n[d] + 1
      BY <3>1, <3>4
    <3> QED
      BY <3>4, <3>5
  <2> QED
    BY <2>2, <2>4, <2>5 DEF m
<1>3. Counts(s, n)
  BY <1>2 DEF Counts
<1>4. GoodStore(t) /\ Fewer(s, t)
  BY <1>3, PoppedGood
<1>5. SweepStore(s, lag) = t
  BY DEF SweepStore
<1>6. ASSUME NEW d \in Device, Len(t.boxes[d]) > 0
      PROVE  t.boxes[d][1].left + lag > 0
  <2>1. /\ Len(t.boxes[d]) = Len(s.boxes[d]) - n[d]
        /\ \A i \in 1 .. (Len(s.boxes[d]) - n[d]) : t.boxes[d][i] = s.boxes[d][n[d] + i]
    BY <1>1, <1>3, PoppedQueue
  <2> HIDE DEF n, t
  <2>2. Len(s.boxes[d]) \in Nat /\ n[d] \in 0 .. Len(s.boxes[d])
    BY <1>1, <1>2, QueueIs
  <2>3. n[d] < Len(s.boxes[d]) /\ 1 \in 1 .. (Len(s.boxes[d]) - n[d])
    BY <1>6, <2>1, <2>2
  <2>4. t.boxes[d][1] = s.boxes[d][n[d] + 1]
    BY <2>1, <2>3
  <2>5. s.boxes[d][n[d] + 1] \in Entry
    <3>1. n[d] + 1 \in 1 .. Len(s.boxes[d])
      BY <2>2, <2>3
    <3> QED
      BY <1>1, <3>1, QueueIs
  <2>6. s.boxes[d][n[d] + 1].left \in Int /\ lag \in Int
    BY <2>5, Bounds DEF Entry, Lag
  <2>7. ~(s.boxes[d][n[d] + 1].left + lag <= 0)
    BY <1>2, <2>3 DEF Lapsed
  <2> QED
    BY <2>4, <2>6, <2>7
<1> HIDE DEF t, n
<1> QED
  BY <1>4, <1>5, <1>6

LEMMA IndexFinite ==
    ASSUME NEW s \in Store
    PROVE  IsFiniteSet(Index(s))
<1> DEFINE Of(d) == {[call |-> e.call, target |-> d] : e \in EntriesOf(s, d)}
<1>1. ASSUME NEW d \in Device
      PROVE  IsFiniteSet(Of(d))
  <2> DEFINE E == EntriesOf(s, d)
             f == [e \in E |-> [call |-> e.call, target |-> d]]
  <2>1. IsFiniteSet(E)
    <3>1. E \in SUBSET Entries(s)
      BY DEF Entries
    <3> QED
      BY <3>1, EntriesAre, FS_Subset
  <2>2. f \in Surjection(E, Of(d))
    <3> HIDE DEF E
    <3>1. Of(d) = {[call |-> e.call, target |-> d] : e \in E}
      BY DEF E
    <3> HIDE DEF Of
    <3> QED
      BY <3>1 DEF Surjection
  <2> HIDE DEF f, E, Of
  <2> QED
    BY <2>1, <2>2, FS_Surjection
<1> DEFINE T == {Of(d) : d \in Device}
           g == [d \in Device |-> Of(d)]
<1>2. IsFiniteSet(T)
  <2>1. g \in Surjection(Device, T)
    <3> HIDE DEF Of
    <3> QED
      BY DEF Surjection
  <2> HIDE DEF g, T
  <2> QED
    BY <2>1, Bounds, FS_Surjection
<1>3. \A x \in T : IsFiniteSet(x)
  BY <1>1
<1>4. Index(s) = UNION T
  BY DEF Index
<1> HIDE DEF T
<1> QED
  BY <1>2, <1>3, <1>4, FS_UNION

LEMMA PopFrontGood ==
    ASSUME NEW s, GoodStore(s), NEW d \in Device
    PROVE  LET t == PopFrontOf(s, d)
           IN  /\ GoodStore(t) /\ Fewer(s, t)
               /\ s.boxes[d] # <<>> => /\ Len(t.boxes[d]) < Len(s.boxes[d])
                                       /\ Cardinality(t.order) < Cardinality(s.order)
<1> DEFINE n == Only(d, 1)
           t == Popped(s, n)
<1>1. s \in Store /\ s.order = Index(s) /\ IsFiniteSet(s.order)
  BY IndexFinite DEF GoodStore
<1>2. CASE s.boxes[d] = <<>>
  BY <1>1, <1>2, SameFewer DEF PopFrontOf
<1>3. CASE s.boxes[d] # <<>>
  <2>1. s.boxes[d] \in Seq(Entry) /\ Len(s.boxes[d]) \in Nat \ {0}
    BY <1>1, <1>3, QueueIs
  <2>2. Counts(s, n)
    <3> SUFFICES ASSUME NEW e \in Device PROVE n[e] \in 0 .. Len(s.boxes[e])
      BY DEF Counts
    <3>1. Len(s.boxes[e]) \in Nat /\ n[e] = IF e = d THEN 1 ELSE 0
      BY <1>1, QueueIs DEF Only
    <3> QED
      BY <2>1, <3>1
  <2>3. PopFrontOf(s, d) = t
    BY <1>3 DEF PopFrontOf
  <2>4. GoodStore(t) /\ Fewer(s, t) /\ Len(t.boxes[d]) = Len(s.boxes[d]) - n[d]
    BY <1>1, <2>2, PoppedGood, PoppedQueue
  <2>5. Len(t.boxes[d]) < Len(s.boxes[d])
    <3>1. n[d] = 1
      BY DEF Only
    <3> HIDE DEF n, t
    <3> QED
      BY <2>1, <2>4, <3>1
  <2>6. Cardinality(t.order) < Cardinality(s.order)
    <3> DEFINE o == [call |-> s.boxes[d][1].call, target |-> d]
    <3>1. 1 \in 1 .. Len(s.boxes[d]) /\ n[d] = 1
      BY <2>1 DEF Only
    <3>2. s.boxes[d][1] \in Front(s, n)
      <4>1. 1 \in 1 .. n[d]
        BY <3>1
      <4> QED
        BY <4>1 DEF Front
    <3>3. s.boxes[d][1] \in EntriesOf(s, d)
      BY <1>1, <3>1, QueueIs
    <3>4. o \in s.order
      BY <1>1, <3>3 DEF Index
    <3>5. t.order = {p \in s.order : \A e \in Front(s, n) : e.call # p.call}
      BY DEF Popped
    <3> HIDE DEF n, t
    <3>6. o \notin t.order
      BY <3>2, <3>5
    <3>7. t.order \in SUBSET s.order /\ t.order # s.order
      BY <3>4, <3>5, <3>6
    <3> HIDE DEF o
    <3>8. Cardinality(s.order) \in Nat /\ Cardinality(t.order) \in Nat
      BY <1>1, <3>7, FS_Subset, FS_CardinalityType
    <3>9. Cardinality(t.order) <= Cardinality(s.order) /\ Cardinality(t.order) # Cardinality(s.order)
      BY <1>1, <3>7, FS_Subset
    <3> QED
      BY <3>8, <3>9
  <2> HIDE DEF t
  <2> QED
    BY <2>3, <2>4, <2>5, <2>6
<1> QED
  BY <1>2, <1>3

LEMMA OrderIs ==
    ASSUME NEW s, GoodStore(s)
    PROVE  /\ s \in Store /\ IsFiniteSet(s.order) /\ Cardinality(s.order) \in Nat
           /\ s.order \subseteq [call : Nat, target : Device] /\ s.order = Index(s)
<1>1. s \in Store /\ s.order = Index(s)
  BY DEF GoodStore
<1>2. IsFiniteSet(s.order)
  BY <1>1, IndexFinite
<1>3. Cardinality(s.order) \in Nat
  BY <1>2, FS_CardinalityType
<1>4. s.order \subseteq [call : Nat, target : Device]
  BY <1>1 DEF Store
<1> QED
  BY <1>1, <1>2, <1>3, <1>4

LEMMA EvictGood ==
    ASSUME NEW s, GoodStore(s)
    PROVE  LET t == EvictGloballyOldest(s)
           IN  /\ GoodStore(t) /\ Fewer(s, t)
               /\ s.order # {} => Cardinality(t.order) < Cardinality(s.order)
<1>1. /\ s \in Store /\ s.order \subseteq [call : Nat, target : Device] /\ s.order = Index(s)
  BY OrderIs
<1>2. CASE s.order = {}
  BY <1>1, <1>2, SameFewer DEF EvictGloballyOldest
<1>3. CASE s.order # {}
  <2> DEFINE C == {o.call : o \in s.order}
             d == Oldest(s).target
  <2>1. \E o \in s.order : \A p \in s.order : o.call <= p.call
    <3>1. C \in SUBSET Nat /\ C # {}
      BY <1>1, <1>3
    <3>2. Min(C) \in C /\ \A y \in C : Min(C) <= y
      <4> HIDE DEF C
      <4> QED
        BY <3>1, MinIs
    <3>3. PICK o \in s.order : o.call = Min(C)
      BY <3>2
    <3>4. \A p \in s.order : p.call \in C
      OBVIOUS
    <3> HIDE DEF C
    <3> QED
      BY <3>2, <3>3, <3>4
  <2>2. Oldest(s) \in s.order
    BY <2>1 DEF Oldest
  <2>3. d \in Device
    BY <1>1, <2>2
  <2>4. s.boxes[d] # <<>>
    <3>1. PICK e \in Device : \E x \in EntriesOf(s, e) : Oldest(s) = [call |-> x.call, target |-> e]
      BY <1>1, <2>2 DEF Index
    <3>2. e = d /\ EntriesOf(s, e) # {}
      BY <3>1
    <3>3. EntriesOf(s, d) = {s.boxes[d][i] : i \in 1 .. Len(s.boxes[d])} /\ Len(<<>>) = 0
      BY <1>1, <2>3, QueueIs
    <3> QED
      BY <3>2, <3>3
  <2>5. EvictGloballyOldest(s) = PopFrontOf(s, d)
    BY <1>3 DEF EvictGloballyOldest
  <2> HIDE DEF d
  <2> QED
    BY <2>3, <2>4, <2>5, PopFrontGood
<1> QED
  BY <1>2, <1>3

(* The evictions of EvictForBytes, one upon the other.                      *)
Evictions(g, s, n) == g[0] = s /\ \A k \in 1 .. n : g[k] = EvictGloballyOldest(g[k - 1])

LEMMA EvictionsExist ==
    ASSUME NEW s, NEW m \in Nat
    PROVE  \E g : g = [k \in 0 .. m |-> IF k = 0 THEN s ELSE EvictGloballyOldest(g[k - 1])]
<1> DEFINE Rec(g, n) == [k \in 0 .. n |-> IF k = 0 THEN s ELSE EvictGloballyOldest(g[k - 1])]
           S == {n \in Nat : \E g : g = Rec(g, n)}
<1>1. 0 \in S
  <2> DEFINE g == [k \in 0 .. 0 |-> s]
  <2>1. g = Rec(g, 0)
    OBVIOUS
  <2> QED
    BY <2>1
<1>2. ASSUME NEW n \in Nat, n \in S
      PROVE  n + 1 \in S
  <2>1. PICK g : g = Rec(g, n)
    BY <1>2
  <2> DEFINE h == [k \in 0 .. (n + 1) |-> IF k <= n THEN g[k] ELSE EvictGloballyOldest(g[n])]
  <2>2. \A k \in 0 .. n : g[k] = IF k = 0 THEN s ELSE EvictGloballyOldest(g[k - 1])
    <3> DEFINE r == Rec(g, n)
    <3>1. \A k \in 0 .. n : r[k] = IF k = 0 THEN s ELSE EvictGloballyOldest(g[k - 1])
      OBVIOUS
    <3>2. g = r
      BY <2>1
    <3> HIDE DEF r
    <3> QED
      BY <3>1, <3>2
  <2>3. \A k \in 0 .. (n + 1) : h[k] = IF k = 0 THEN s ELSE EvictGloballyOldest(h[k - 1])
    <3> SUFFICES ASSUME NEW k \in 0 .. (n + 1)
                 PROVE  h[k] = IF k = 0 THEN s ELSE EvictGloballyOldest(h[k - 1])
      OBVIOUS
    <3>1. CASE k = 0
      <4>1. h[k] = g[k] /\ k \in 0 .. n
        BY <3>1
      <4> QED
        BY <2>2, <3>1, <4>1
    <3>2. CASE k # 0 /\ k <= n
      <4>1. h[k] = g[k] /\ h[k - 1] = g[k - 1] /\ k \in 0 .. n
        BY <3>2
      <4> HIDE DEF h
      <4> QED
        BY <2>2, <3>2, <4>1
    <3>3. CASE k = n + 1
      <4>1. h[k] = EvictGloballyOldest(g[n]) /\ h[k - 1] = g[n] /\ k # 0
        BY <3>3
      <4> HIDE DEF h
      <4> QED
        BY <3>3, <4>1
    <3> QED
      BY <3>1, <3>2, <3>3
  <2>4. h = Rec(h, n + 1)
    <3>1. h = [k \in 0 .. (n + 1) |-> h[k]]
      OBVIOUS
    <3> HIDE DEF h
    <3> QED
      BY <2>3, <3>1
  <2> HIDE DEF h, Rec
  <2> QED
    BY <2>4
<1>3. Nat \subseteq S
  <2> HIDE DEF S
  <2> QED
    BY <1>1, <1>2, Induct
<1>4. m \in S
  BY <1>3
<1> QED
  BY <1>4 DEF S

LEMMA EvictForBytesGood ==
    ASSUME NEW s, GoodStore(s), NEW size \in Nat, size <= MaxBytes
    PROVE  LET t == EvictForBytes(s, size)
           IN  GoodStore(t) /\ Fewer(s, t) /\ t.bytes + size <= MaxBytes
<1> DEFINE m == Cardinality(s.order)
           Rec(g) == [k \in 0 .. m |-> IF k = 0 THEN s ELSE EvictGloballyOldest(g[k - 1])]
           after == CHOOSE g : g = Rec(g)
           enough == {k \in DOMAIN after : after[k].bytes + size <= MaxBytes}
<1>1. m \in Nat /\ s \in Store
  BY OrderIs
<1>2. after = Rec(after)
  BY <1>1, EvictionsExist
<1>3. EvictForBytes(s, size) = after[Min(enough)]
  BY DEF EvictForBytes
<1> HIDE DEF after
<1>4. /\ DOMAIN after = 0 .. m
      /\ \A k \in 0 .. m : after[k] = IF k = 0 THEN s ELSE EvictGloballyOldest(after[k - 1])
  <2> DEFINE r == Rec(after)
  <2>1. /\ DOMAIN r = 0 .. m
        /\ \A k \in 0 .. m : r[k] = IF k = 0 THEN s ELSE EvictGloballyOldest(after[k - 1])
    OBVIOUS
  <2>2. after = r
    BY <1>2
  <2> HIDE DEF r
  <2> QED
    BY <2>1, <2>2
<1> DEFINE Good(k) == /\ GoodStore(after[k]) /\ Fewer(s, after[k])
                      /\ after[k].order = {} \/ Cardinality(after[k].order) + k <= m
           K == {k \in Nat : k <= m => Good(k)}
<1>5. 0 \in K
  <2>1. after[0] = s /\ Fewer(s, s)
    BY <1>1, <1>4, SameFewer
  <2>2. Cardinality(s.order) + 0 <= m
    BY <1>1
  <2> HIDE DEF m
  <2> QED
    BY <2>1, <2>2
<1>6. ASSUME NEW k \in Nat, k \in K
      PROVE  k + 1 \in K
  <2> SUFFICES ASSUME k + 1 <= m PROVE Good(k + 1)
    OBVIOUS
  <2> DEFINE p == after[k]
             t == after[k + 1]
  <2>1. k <= m /\ k + 1 \in 0 .. m /\ k + 1 # 0 /\ (k + 1) - 1 = k
    BY <1>1
  <2>2. t = EvictGloballyOldest(p)
    BY <1>4, <2>1
  <2>3. GoodStore(p) /\ Fewer(s, p) /\ (p.order = {} \/ Cardinality(p.order) + k <= m)
    BY <1>6, <2>1
  <2> HIDE DEF p, t, m
  <2>4. /\ GoodStore(t) /\ Fewer(p, t)
        /\ p.order # {} => Cardinality(t.order) < Cardinality(p.order)
    BY <2>2, <2>3, EvictGood
  <2>5. /\ p \in Store /\ t \in Store /\ Cardinality(p.order) \in Nat /\ Cardinality(t.order) \in Nat
    BY <2>3, <2>4, OrderIs
  <2>6. Fewer(s, t)
    BY <1>1, <2>3, <2>4, <2>5, FewerTransitive
  <2>7. t.order = {} \/ Cardinality(t.order) + (k + 1) <= m
    <3>1. CASE p.order = {}
      BY <2>2, <3>1 DEF EvictGloballyOldest
    <3>2. CASE p.order # {}
      BY <1>1, <2>3, <2>4, <2>5, <3>2
    <3> QED
      BY <3>1, <3>2
  <2> QED
    BY <2>4, <2>6, <2>7 DEF t
<1>7. \A k \in 0 .. m : Good(k)
  <2>1. Nat \subseteq K
    <3> HIDE DEF K
    <3> QED
      BY <1>5, <1>6, Induct
  <2>2. \A k \in 0 .. m : k \in K /\ k <= m
    BY <1>1, <2>1
  <2> HIDE DEF Good, m
  <2> QED
    BY <2>2
<1>8. m \in enough
  <2> DEFINE t == after[m]
  <2>1. GoodStore(t) /\ (t.order = {} \/ Cardinality(t.order) + m <= m)
    BY <1>1, <1>7
  <2> HIDE DEF t, m
  <2>2. t.order = {}
    <3>1. IsFiniteSet(t.order) /\ Cardinality(t.order) \in Nat
      BY <2>1, OrderIs
    <3>2. t.order = {} \/ Cardinality(t.order) = 0
      BY <1>1, <2>1, <3>1
    <3> QED
      BY <3>1, <3>2, FS_EmptySet
  <2>3. Entries(t) = {}
    <3>1. Index(t) = {}
      BY <2>1, <2>2 DEF GoodStore
    <3>2. \A d \in Device : EntriesOf(t, d) = {}
      <4> SUFFICES ASSUME NEW d \in Device, NEW e \in EntriesOf(t, d) PROVE FALSE
        OBVIOUS
      <4>1. [call |-> e.call, target |-> d] \in Index(t)
        BY DEF Index
      <4> QED
        BY <3>1, <4>1
    <3> QED
      BY <3>2 DEF Entries
  <2>4. t.bytes = 0
    <3>1. Bytes({}) = 0
      BY FS_EmptySet, BytesPick
    <3> QED
      BY <2>1, <2>3, <3>1 DEF GoodStore
  <2>5. after[m].bytes + size <= MaxBytes
    BY <2>4 DEF t
  <2>6. m \in DOMAIN after
    BY <1>1, <1>4
  <2> QED
    BY <2>5, <2>6
<1>9. enough \in SUBSET Nat /\ enough # {}
  BY <1>1, <1>4, <1>8
<1> HIDE DEF m
<1>10. Min(enough) \in enough
  <2> HIDE DEF enough
  <2> QED
    BY <1>9, MinIs
<1>11. Min(enough) \in 0 .. m /\ after[Min(enough)].bytes + size <= MaxBytes
  BY <1>4, <1>10
<1> HIDE DEF enough
<1>12. Good(Min(enough))
  BY <1>7, <1>11
<1> QED
  BY <1>3, <1>11, <1>12

LEMMA MakeRoomGood ==
    ASSUME NEW s, GoodStore(s), NEW d \in Device
    PROVE  LET t == MakeRoom(s, d)
           IN  GoodStore(t) /\ Fewer(s, t) /\ Len(t.boxes[d]) < Depth
<1>1. s \in Store /\ s.boxes[d] \in Seq(Entry) /\ Len(s.boxes[d]) \in Nat /\ Len(s.boxes[d]) <= Depth
  BY QueueIs DEF GoodStore
<1>2. CASE Len(s.boxes[d]) >= Depth
  <2>1. MakeRoom(s, d) = PopFrontOf(s, d) /\ s.boxes[d] # <<>>
    BY <1>1, <1>2, Bounds DEF MakeRoom
  <2> DEFINE t == PopFrontOf(s, d)
  <2>2. GoodStore(t) /\ Fewer(s, t) /\ Len(t.boxes[d]) < Len(s.boxes[d])
    BY <2>1, PopFrontGood
  <2>3. t \in Store /\ Len(t.boxes[d]) \in Nat
    BY <2>2, QueueIs DEF GoodStore
  <2> HIDE DEF t
  <2>4. Len(t.boxes[d]) < Depth
    BY <1>1, <2>2, <2>3, Bounds
  <2> QED
    BY <2>1, <2>2, <2>4 DEF t
<1>3. CASE ~(Len(s.boxes[d]) >= Depth)
  <2>1. MakeRoom(s, d) \in {EvictGloballyOldest(s), s}
    BY <1>3 DEF MakeRoom
  <2> DEFINE t == MakeRoom(s, d)
  <2>2. GoodStore(t) /\ Fewer(s, t)
    BY <1>1, <2>1, EvictGood, SameFewer
  <2>3. t \in Store /\ Len(t.boxes[d]) \in Nat
    BY <2>2, QueueIs DEF GoodStore
  <2> HIDE DEF t
  <2>4. Len(t.boxes[d]) < Depth
    BY <1>1, <1>3, <2>2, <2>3, Bounds DEF Fewer
  <2> QED
    BY <2>2, <2>4 DEF t
<1> QED
  BY <1>2, <1>3

(* A call younger than all that are held joins the queue of its target.      *)
NewEntry(call, size, lag) == [call |-> call, size |-> size, left |-> CallTtl - lag]
Appended(s, d, entry) ==
    [boxes |-> [s.boxes EXCEPT ![d] = Append(@, entry)],
     order |-> s.order \cup {[call |-> entry.call, target |-> d]},
     bytes |-> s.bytes + entry.size]

LEMMA AppendGood ==
    ASSUME NEW s, GoodStore(s), NEW d \in Device, NEW call \in Nat, NEW size \in Nat, NEW lag \in Lag,
           \A e \in Entries(s) : e.call < call,
           Len(s.boxes[d]) < Depth, s.bytes + size <= MaxBytes
    PROVE  LET entry == NewEntry(call, size, lag)
               t == Appended(s, d, entry)
           IN  /\ GoodStore(t)
               /\ EntriesOf(t, d) = EntriesOf(s, d) \cup {entry}
               /\ \A e \in Device \ {d} : EntriesOf(t, e) = EntriesOf(s, e) /\ t.boxes[e] = s.boxes[e]
<1> DEFINE entry == NewEntry(call, size, lag)
           t == Appended(s, d, entry)
           q == s.boxes[d]
           r == Append(q, entry)
<1>1. /\ s \in Store /\ s.order = Index(s) /\ s.bytes = Bytes(Entries(s)) /\ s.bytes <= MaxBytes
      /\ \A e \in Device : Len(s.boxes[e]) <= Depth
      /\ Sorted(s) /\ OwnCalls(s) /\ InDate(s)
  BY DEF GoodStore
<1>2. /\ s.boxes \in [Device -> Seq(Entry)] /\ s.order \in SUBSET [call : Nat, target : Device]
      /\ s.bytes \in Nat
  BY <1>1 DEF Store
<1>3. /\ q \in Seq(Entry) /\ Len(q) \in Nat /\ EntriesOf(s, d) = {q[i] : i \in 1 .. Len(q)}
      /\ \A i \in 1 .. Len(q) : q[i] \in Entry
  BY <1>1, QueueIs
<1>4. lag \in 0 .. MaxLag /\ MaxLag \in Nat /\ CallTtl \in Nat \ {0}
  BY Bounds DEF Lag
<1>5. entry \in Entry /\ entry.call = call /\ entry.size = size /\ entry.left = CallTtl - lag
  BY <1>4 DEF Entry, NewEntry
<1> HIDE DEF entry, q
<1>6. /\ r \in Seq(Entry) /\ Len(r) = Len(q) + 1 /\ DOMAIN r = 1 .. (Len(q) + 1)
      /\ \A i \in 1 .. Len(q) : r[i] = q[i]
      /\ r[Len(q) + 1] = entry
  BY <1>3, <1>5
<1>7. /\ t.boxes = [s.boxes EXCEPT ![d] = r] /\ t.bytes = s.bytes + size
      /\ t.order = s.order \cup {[call |-> call, target |-> d]}
  BY <1>5 DEF q, Appended
<1>8. /\ t.boxes \in [Device -> Seq(Entry)] /\ t.boxes[d] = r
      /\ \A e \in Device \ {d} : t.boxes[e] = s.boxes[e]
  <2> HIDE DEF r, t
  <2> QED
    BY <1>2, <1>6, <1>7
<1>9. t \in Store
  <2>1. t.order \in SUBSET [call : Nat, target : Device] /\ t.bytes \in Nat
    BY <1>2, <1>7
  <2>2. t = [boxes |-> t.boxes, order |-> t.order, bytes |-> t.bytes]
    BY DEF Appended
  <2> HIDE DEF t
  <2> QED
    BY <1>8, <2>1, <2>2 DEF Store
<1> HIDE DEF r, t
<1>10. EntriesOf(t, d) = EntriesOf(s, d) \cup {entry}
  <2>1. EntriesOf(t, d) = {r[i] : i \in 1 .. (Len(q) + 1)}
    BY <1>6, <1>8 DEF EntriesOf
  <2> QED
    BY <1>3, <1>6, <2>1
<1>11. \A e \in Device \ {d} : EntriesOf(t, e) = EntriesOf(s, e)
  BY <1>8 DEF EntriesOf
<1>12. Entries(t) = Entries(s) \cup {entry}
  BY <1>10, <1>11 DEF Entries
<1>13. \A e \in Entries(s) : e.call \in Nat
  BY <1>1, EntriesAre DEF Entry
<1>14. entry \notin Entries(s)
  BY <1>5, <1>13
<1>15. t.bytes = Bytes(Entries(t)) /\ t.bytes <= MaxBytes
  <2>1. IsFiniteSet(Entries(s)) /\ Sized(Entries(s))
    BY <1>1, EntriesAre
  <2>2. Bytes(Entries(s) \cup {entry}) = Bytes(Entries(s)) + entry.size
    BY <1>5, <1>14, <2>1, BytesWith
  <2> QED
    BY <1>1, <1>5, <1>7, <1>12, <2>2
<1>16. t.order = Index(t)
  <2>1. ASSUME NEW o \in t.order PROVE o \in Index(t)
    <3>1. CASE o = [call |-> call, target |-> d]
      <4>1. entry \in EntriesOf(t, d) /\ o = [call |-> entry.call, target |-> d]
        BY <1>5, <1>10, <3>1
      <4> QED
        BY <4>1 DEF Index
    <3>2. CASE o \in s.order
      <4>1. PICK e \in Device : \E x \in EntriesOf(s, e) : o = [call |-> x.call, target |-> e]
        BY <1>1, <3>2 DEF Index
      <4>2. PICK x \in EntriesOf(s, e) : o = [call |-> x.call, target |-> e]
        BY <4>1
      <4>3. x \in EntriesOf(t, e)
        BY <1>10, <1>11
      <4> QED
        BY <4>2, <4>3 DEF Index
    <3> QED
      BY <1>7, <3>1, <3>2
  <2>2. ASSUME NEW o \in Index(t) PROVE o \in t.order
    <3>1. PICK e \in Device : \E x \in EntriesOf(t, e) : o = [call |-> x.call, target |-> e]
      BY <2>2 DEF Index
    <3>2. PICK x \in EntriesOf(t, e) : o = [call |-> x.call, target |-> e]
      BY <3>1
    <3>3. CASE x \in EntriesOf(s, e)
      <4>1. o \in Index(s)
        BY <3>2, <3>3 DEF Index
      <4> QED
        BY <1>1, <1>7, <4>1
    <3>4. CASE x \notin EntriesOf(s, e)
      <4>1. e = d /\ x = entry
        BY <1>10, <1>11, <3>2, <3>4
      <4> QED
        BY <1>5, <1>7, <3>2, <4>1
    <3> QED
      BY <3>3, <3>4
  <2> QED
    BY <2>1, <2>2
<1>17. \A e \in Device : Len(t.boxes[e]) <= Depth
  BY <1>1, <1>3, <1>6, <1>8, Bounds DEF q
<1>18. ASSUME NEW i \in 1 .. Len(q) PROVE q[i].call < call /\ q[i].left \in Int /\ q[i].left <= CallTtl
  <2>1. q[i] \in Entries(s) /\ q[i] \in Entry
    BY <1>3 DEF Entries
  <2>2. q[i].left \in (-2 * MaxLag) .. CallTtl
    BY <1>1 DEF InDate, q
  <2> QED
    BY <1>4, <2>1, <2>2 DEF Entry
<1>19. Sorted(t)
  <2> SUFFICES ASSUME NEW e \in Device, NEW i \in 1 .. Len(t.boxes[e]), NEW j \in 1 .. (i - 1)
               PROVE  t.boxes[e][j].call < t.boxes[e][i].call
    BY DEF Sorted
  <2>1. CASE e # d
    BY <1>1, <1>8, <2>1 DEF Sorted
  <2>2. CASE e = d
    <3>1. i \in 1 .. (Len(q) + 1) /\ j \in 1 .. Len(q) /\ t.boxes[e] = r /\ r[j] = q[j]
      BY <1>3, <1>6, <1>8, <2>2
    <3>2. CASE i = Len(q) + 1
      BY <1>5, <1>6, <1>18, <3>1, <3>2
    <3>3. CASE i # Len(q) + 1
      <4>1. i \in 1 .. Len(q) /\ r[i] = q[i]
        BY <1>3, <1>6, <3>1, <3>3
      <4>2. q[j].call < q[i].call
        BY <1>1, <4>1 DEF Sorted, q
      <4> QED
        BY <3>1, <4>1, <4>2
    <3> QED
      BY <3>2, <3>3
  <2> QED
    BY <2>1, <2>2
<1>20. InDate(t)
  <2> SUFFICES ASSUME NEW e \in Device, NEW i \in 1 .. Len(t.boxes[e])
               PROVE  /\ t.boxes[e][i].left \in (-2 * MaxLag) .. CallTtl
                      /\ \A j \in 1 .. (i - 1) : t.boxes[e][j].left - MaxLag <= t.boxes[e][i].left
    BY DEF InDate
  <2>1. CASE e # d
    BY <1>1, <1>8, <2>1 DEF InDate
  <2>2. CASE e = d
    <3>1. i \in 1 .. (Len(q) + 1) /\ t.boxes[e] = r
      BY <1>3, <1>6, <1>8, <2>2
    <3>2. CASE i = Len(q) + 1
      <4>1. r[i].left = CallTtl - lag
        BY <1>5, <1>6, <3>2
      <4>2. \A j \in 1 .. (i - 1) : r[j] = q[j] /\ j \in 1 .. Len(q)
        BY <1>3, <1>6, <3>2
      <4>3. CallTtl - lag \in (-2 * MaxLag) .. CallTtl
        BY <1>4
      <4>4. ASSUME NEW j \in 1 .. (i - 1) PROVE r[j].left - MaxLag <= CallTtl - lag
        <5>1. q[j].left \in Int /\ q[j].left <= CallTtl
          BY <1>18, <4>2
        <5> QED
          BY <1>4, <4>2, <5>1
      <4> QED
        BY <3>1, <4>1, <4>3, <4>4
    <3>3. CASE i # Len(q) + 1
      <4>1. i \in 1 .. Len(q) /\ r[i] = q[i] /\ \A j \in 1 .. (i - 1) : r[j] = q[j]
        BY <1>3, <1>6, <3>1, <3>3
      <4>2. /\ q[i].left \in (-2 * MaxLag) .. CallTtl
            /\ \A j \in 1 .. (i - 1) : q[j].left - MaxLag <= q[i].left
        BY <1>1, <4>1 DEF InDate, q
      <4> QED
        BY <3>1, <4>1, <4>2
    <3> QED
      BY <3>2, <3>3
  <2> QED
    BY <2>1, <2>2
<1>21. OwnCalls(t)
  <2> SUFFICES ASSUME NEW e \in Device, NEW f \in Device, NEW x \in EntriesOf(t, e),
                      NEW y \in EntriesOf(t, f), x.call = y.call
               PROVE  e = f
    BY DEF OwnCalls
  <2>1. CASE x \in EntriesOf(s, e) /\ y \in EntriesOf(s, f)
    BY <1>1, <2>1 DEF OwnCalls
  <2>2. CASE x \notin EntriesOf(s, e)
    <3>1. x = entry /\ e = d /\ x.call = call
      BY <1>5, <1>10, <1>11, <2>2
    <3>2. y \notin Entries(s)
      BY <1>13, <3>1
    <3>3. y \notin EntriesOf(s, f)
      BY <3>2 DEF Entries
    <3> QED
      BY <1>10, <1>11, <3>1, <3>3
  <2>3. CASE y \notin EntriesOf(s, f)
    <3>1. y = entry /\ f = d /\ y.call = call
      BY <1>5, <1>10, <1>11, <2>3
    <3>2. x \notin Entries(s)
      BY <1>13, <3>1
    <3>3. x \notin EntriesOf(s, e)
      BY <3>2 DEF Entries
    <3> QED
      BY <1>10, <1>11, <3>1, <3>3
  <2> QED
    BY <2>1, <2>2, <2>3
<1>22. GoodStore(t)
  BY <1>9, <1>15, <1>16, <1>17, <1>19, <1>20, <1>21 DEF GoodStore
<1> QED
  BY <1>8, <1>10, <1>11, <1>22 DEF t, entry

(* A push, whatever it sweeps, drops and evicts before.                      *)
LEMMA PushGood ==
    ASSUME NEW s, GoodStore(s), NEW d \in Device, NEW call \in Nat, NEW size \in Nat, NEW lag \in Lag,
           \A e \in Entries(s) : e.call < call
    PROVE  LET t == Push(s, d, call, size, lag)
           IN  /\ GoodStore(t)
               /\ \A e \in Device : \A x \in EntriesOf(t, e) :
                    x \in EntriesOf(s, e) \/ (e = d /\ x.call = call)
               /\ \A e \in Device \ {d} : Len(t.boxes[e]) <= Len(s.boxes[e])
<1> DEFINE swept == SweepStore(s, lag)
           roomy == MakeRoom(swept, d)
           room  == EvictForBytes(roomy, size)
           entry == NewEntry(call, size, lag)
           t == Push(s, d, call, size, lag)
<1>1. GoodStore(swept) /\ Fewer(s, swept)
  BY SweepGood
<1>2. CASE Refused(size)
  <2>1. t = swept
    BY <1>2 DEF Push
  <2> HIDE DEF swept, t
  <2> QED
    BY <1>1, <2>1 DEF Fewer, t
<1>3. CASE ~ Refused(size)
  <2> HIDE DEF swept
  <2>1. size <= MaxBytes
    BY <1>3, Bounds DEF Refused
  <2>2. GoodStore(roomy) /\ Fewer(swept, roomy) /\ Len(roomy.boxes[d]) < Depth
    BY <1>1, MakeRoomGood
  <2> HIDE DEF roomy
  <2>3. GoodStore(room) /\ Fewer(roomy, room) /\ room.bytes + size <= MaxBytes
    BY <2>1, <2>2, EvictForBytesGood
  <2> HIDE DEF room
  <2>4. s \in Store /\ swept \in Store /\ roomy \in Store /\ room \in Store
    BY <1>1, <2>2, <2>3 DEF GoodStore
  <2>5. Fewer(s, room)
    BY <1>1, <2>2, <2>3, <2>4, FewerTransitive
  <2>6. \A e \in Entries(room) : e.call < call
    BY <2>5 DEF Fewer, Entries
  <2>7. Len(room.boxes[d]) < Depth
    <3>1. Len(room.boxes[d]) <= Len(roomy.boxes[d])
      BY <2>3 DEF Fewer
    <3>2. Len(room.boxes[d]) \in Nat /\ Len(roomy.boxes[d]) \in Nat
      BY <2>4, QueueIs
    <3> QED
      BY <2>2, <3>1, <3>2, Bounds
  <2>8. t = Appended(room, d, entry)
    BY <1>3 DEF Push, room, roomy, swept, Appended, NewEntry
  <2> HIDE DEF t
  <2>9. /\ GoodStore(t)
        /\ EntriesOf(t, d) = EntriesOf(room, d) \cup {entry}
        /\ \A e \in Device \ {d} : EntriesOf(t, e) = EntriesOf(room, e) /\ t.boxes[e] = room.boxes[e]
    BY <2>3, <2>6, <2>7, <2>8, AppendGood
  <2>10. entry.call = call
    BY DEF NewEntry
  <2> HIDE DEF entry
  <2>11. \A e \in Device : \A x \in EntriesOf(t, e) : x \in EntriesOf(s, e) \/ (e = d /\ x.call = call)
    BY <2>5, <2>9, <2>10 DEF Fewer
  <2>12. \A e \in Device \ {d} : Len(t.boxes[e]) <= Len(s.boxes[e])
    BY <2>5, <2>9 DEF Fewer
  <2> QED
    BY <2>9, <2>11, <2>12 DEF t
<1> QED
  BY <1>2, <1>3

(* What a take hands back is the queue the sweep left, and it is not late;    *)
(* nothing of it stays.                                                      *)
LEMMA TakeGood ==
    ASSUME NEW s, GoodStore(s), NEW d \in Device, NEW lag \in Lag
    PROVE  LET t == AfterTake(s, d, lag)
               q == Taken(s, d, lag)
           IN  /\ GoodStore(t) /\ Fewer(s, t) /\ t.boxes[d] = <<>>
               /\ q \in Seq(Entry)
               /\ \A i \in 1 .. Len(q) : q[i] \in EntriesOf(s, d) /\ q[i].left > -2 * MaxLag
               /\ \A i, j \in 1 .. Len(q) : q[i].call = q[j].call => i = j
<1> DEFINE swept == SweepStore(s, lag)
           q == Taken(s, d, lag)
           n == Only(d, Len(swept.boxes[d]))
           t == Popped(swept, n)
<1>1. /\ GoodStore(swept) /\ Fewer(s, swept)
      /\ \A e \in Device : Len(swept.boxes[e]) > 0 => swept.boxes[e][1].left + lag > 0
  BY SweepGood
<1>2. q = swept.boxes[d] /\ AfterTake(s, d, lag) = t
  BY DEF Taken, AfterTake
<1> HIDE DEF swept, q
<1>3. s \in Store /\ swept \in Store /\ Sorted(swept) /\ OwnCalls(swept) /\ InDate(swept)
  BY <1>1 DEF GoodStore
<1>4. /\ q \in Seq(Entry) /\ Len(q) \in Nat
      /\ EntriesOf(swept, d) = {q[i] : i \in 1 .. Len(q)}
  BY <1>2, <1>3, QueueIs
<1>5. Counts(swept, n) /\ n[d] = Len(q)
  BY <1>2, <1>3, QueueIs DEF Counts, Only
<1> HIDE DEF n
<1>6. GoodStore(t) /\ Fewer(swept, t)
  BY <1>1, <1>5, PoppedGood
<1>7. t.boxes[d] = <<>>
  <2>1. t.boxes[d] \in Seq(Entry) /\ Len(t.boxes[d]) = Len(swept.boxes[d]) - n[d]
    BY <1>3, <1>5, PoppedQueue
  <2>2. Len(t.boxes[d]) = 0
    BY <1>2, <1>4, <1>5, <2>1
  <2> HIDE DEF t
  <2> QED
    BY <2>1, <2>2
<1> HIDE DEF t
<1>8. Fewer(s, t)
  <2>1. t \in Store
    BY <1>6 DEF GoodStore
  <2> QED
    BY <1>1, <1>3, <1>6, <2>1, FewerTransitive
<1>9. ASSUME NEW i \in 1 .. Len(q)
      PROVE  q[i] \in EntriesOf(s, d) /\ q[i].left > -2 * MaxLag
  <2>1. q[i] \in EntriesOf(s, d)
    BY <1>1, <1>4 DEF Fewer
  <2>2. q[1] \in Entry /\ q[i] \in Entry /\ 1 \in 1 .. Len(q)
    BY <1>2, <1>3, <1>4, QueueIs
  <2>3. q[1].left + lag > 0
    BY <1>1, <1>2, <1>4
  <2>4. i = 1 \/ q[1].left - MaxLag <= q[i].left
    BY <1>2, <1>3, <1>4 DEF InDate
  <2>5. q[1].left \in Int /\ q[i].left \in Int /\ MaxLag \in Nat /\ lag \in 0 .. MaxLag
    BY <2>2, Bounds DEF Entry, Lag
  <2>6. q[i].left > -2 * MaxLag
    <3>1. CASE i = 1
      BY <2>3, <2>5, <3>1
    <3>2. CASE i # 1
      BY <2>3, <2>4, <2>5, <3>2
    <3> QED
      BY <3>1, <3>2
  <2> QED
    BY <2>1, <2>6
<1>10. ASSUME NEW i \in 1 .. Len(q), NEW j \in 1 .. Len(q), q[i].call = q[j].call
       PROVE  i = j
  BY <1>2, <1>3, <1>10, CallsTell
<1> QED
  BY <1>2, <1>4, <1>6, <1>7, <1>8, <1>9, <1>10 DEF q

(* Entries that keep their sizes, one for one, keep their sum.               *)
LEMMA BytesSame ==
    ASSUME NEW S, IsFiniteSet(S), Sized(S), NEW f, DOMAIN f = S,
           \A x \in S : f[x].size = x.size,
           \A x, y \in S : f[x] = f[y] => x = y
    PROVE  Bytes({f[x] : x \in S}) = Bytes(S)
<1> DEFINE Of(s) == {f[x] : x \in s}
           K == {n \in Nat : \A s \in SUBSET S : Cardinality(s) = n =>
                    IsFiniteSet(Of(s)) /\ Sized(Of(s)) /\ Bytes(Of(s)) = Bytes(s)}
<1>1. \A s \in SUBSET S : IsFiniteSet(s) /\ Cardinality(s) \in Nat /\ Sized(s)
  BY FS_Subset, FS_CardinalityType DEF Sized
<1>2. 0 \in K
  <2> SUFFICES ASSUME NEW s \in SUBSET S, Cardinality(s) = 0
               PROVE  IsFiniteSet(Of(s)) /\ Sized(Of(s)) /\ Bytes(Of(s)) = Bytes(s)
    OBVIOUS
  <2>1. s = {} /\ Of(s) = {}
    BY <1>1, FS_EmptySet
  <2> QED
    BY <2>1, FS_EmptySet DEF Sized
<1>3. ASSUME NEW n \in Nat, n \in K
      PROVE  n + 1 \in K
  <2> SUFFICES ASSUME NEW s \in SUBSET S, Cardinality(s) = n + 1
               PROVE  IsFiniteSet(Of(s)) /\ Sized(Of(s)) /\ Bytes(Of(s)) = Bytes(s)
    OBVIOUS
  <2>1. PICK x : x \in s
    BY FS_EmptySet
  <2> DEFINE u == s \ {x}
  <2>2. u \in SUBSET S /\ Cardinality(u) = n /\ s = u \cup {x} /\ x \notin u /\ x \in S
    <3>1. IsFiniteSet(s) /\ Cardinality(u) = Cardinality(s) - 1
      BY <1>1, <2>1, FS_RemoveElement
    <3> QED
      BY <2>1, <3>1
  <2> HIDE DEF u
  <2>3. IsFiniteSet(Of(u)) /\ Sized(Of(u)) /\ Bytes(Of(u)) = Bytes(u)
    BY <1>3, <2>2
  <2>4. Of(s) = Of(u) \cup {f[x]} /\ f[x] \notin Of(u) /\ f[x].size = x.size /\ x.size \in Nat
    BY <2>2 DEF Sized
  <2>5. IsFiniteSet(u) /\ Sized(u)
    BY <1>1, <2>2
  <2> HIDE DEF Of
  <2>6. Bytes(s) = Bytes(u) + x.size
    BY <2>2, <2>4, <2>5, BytesWith
  <2>7. Bytes(Of(s)) = Bytes(Of(u)) + f[x].size
    BY <2>3, <2>4, BytesWith
  <2>8. IsFiniteSet(Of(s)) /\ Sized(Of(s))
    BY <2>3, <2>4, FS_AddElement DEF Sized
  <2> QED
    BY <2>3, <2>4, <2>6, <2>7, <2>8
<1>4. Nat \subseteq K
  <2> HIDE DEF K
  <2> QED
    BY <1>2, <1>3, Induct
<1> QED
  BY <1>1, <1>4

(* A tick ages the entries and moves none.                                   *)
Older(x, floor) == [x EXCEPT !.left = IF @ > floor THEN @ - 1 ELSE floor]

LEMMA AgedQueue ==
    ASSUME NEW s \in Store, NEW floor \in Int, NEW d \in Device
    PROVE  LET q == s.boxes[d]  r == AgeStore(s, floor).boxes[d]
           IN  /\ r \in Seq(Entry) /\ Len(r) = Len(q)
               /\ \A i \in 1 .. Len(q) : r[i] = Older(q[i], floor)
               /\ EntriesOf(AgeStore(s, floor), d) = {Older(x, floor) : x \in EntriesOf(s, d)}
<1> DEFINE q == s.boxes[d]
           r == [i \in DOMAIN q |-> Older(q[i], floor)]
<1>1. /\ q \in Seq(Entry) /\ Len(q) \in Nat /\ DOMAIN q = 1 .. Len(q)
      /\ \A i \in 1 .. Len(q) : q[i] \in Entry
      /\ EntriesOf(s, d) = {q[i] : i \in 1 .. Len(q)}
  BY QueueIs
<1>2. AgeStore(s, floor).boxes[d] = r
  <2>1. s = [boxes |-> s.boxes, order |-> s.order, bytes |-> s.bytes]
    BY DEF Store
  <2> QED
    BY <2>1 DEF AgeStore, Older
<1> HIDE DEF q
<1>3. \A x \in Entry : Older(x, floor) \in Entry
  BY DEF Entry, Older
<1>4. r \in Seq(Entry) /\ Len(r) = Len(q) /\ \A i \in 1 .. Len(q) : r[i] = Older(q[i], floor)
  <2>1. r \in [1 .. Len(q) -> Entry]
    BY <1>1, <1>3
  <2>2. \A i \in 1 .. Len(q) : r[i] = Older(q[i], floor)
    BY <1>1
  <2> HIDE DEF r
  <2> QED
    BY <1>1, <2>1, <2>2
<1> HIDE DEF r
<1>5. EntriesOf(AgeStore(s, floor), d) = {r[i] : i \in 1 .. Len(q)}
  BY <1>1, <1>2, <1>4 DEF EntriesOf
<1>6. {r[i] : i \in 1 .. Len(q)} = {Older(x, floor) : x \in {q[i] : i \in 1 .. Len(q)}}
  BY <1>4
<1> QED
  BY <1>1, <1>2, <1>4, <1>5, <1>6 DEF q

LEMMA OlderIs ==
    ASSUME NEW x \in Entry, NEW floor \in Int
    PROVE  LET y == Older(x, floor)
           IN  /\ y \in Entry /\ y.call = x.call /\ y.size = x.size
               /\ y.left = IF x.left > floor THEN x.left - 1 ELSE floor
  BY DEF Entry, Older

LEMMA AgeGood ==
    ASSUME NEW s, GoodStore(s), NEW floor, floor = -2 * MaxLag
    PROVE  LET t == AgeStore(s, floor)
           IN  /\ GoodStore(t)
               /\ \A d \in Device :
                    /\ Len(t.boxes[d]) = Len(s.boxes[d])
                    /\ \A y \in EntriesOf(t, d) : \E x \in EntriesOf(s, d) : x.call = y.call
<1> DEFINE t == AgeStore(s, floor)
<1>1. /\ s \in Store /\ s.order = Index(s) /\ s.bytes = Bytes(Entries(s)) /\ s.bytes <= MaxBytes
      /\ \A d \in Device : Len(s.boxes[d]) <= Depth
      /\ Sorted(s) /\ OwnCalls(s) /\ InDate(s)
  BY DEF GoodStore
<1>2. floor \in Int /\ MaxLag \in Nat /\ CallTtl \in Nat
  BY Bounds
<1>3. /\ t.order = s.order /\ t.bytes = s.bytes
      /\ t.boxes = [d \in Device |-> t.boxes[d]]
      /\ t = [boxes |-> t.boxes, order |-> t.order, bytes |-> t.bytes]
  <2>1. s = [boxes |-> s.boxes, order |-> s.order, bytes |-> s.bytes]
    BY <1>1 DEF Store
  <2> DEFINE b == [d \in Device |-> [i \in DOMAIN s.boxes[d] |->
                      [s.boxes[d][i] EXCEPT !.left = IF @ > floor THEN @ - 1 ELSE floor]]]
  <2>2. t = [s EXCEPT !.boxes = b]
    BY DEF AgeStore
  <2>3. b = [d \in Device |-> b[d]]
    OBVIOUS
  <2> HIDE DEF b, t
  <2>4. t = [boxes |-> b, order |-> s.order, bytes |-> s.bytes]
    BY <2>1, <2>2
  <2> QED
    BY <2>3, <2>4
<1>4. \A d \in Device : /\ t.boxes[d] \in Seq(Entry) /\ Len(t.boxes[d]) = Len(s.boxes[d])
                        /\ \A i \in 1 .. Len(s.boxes[d]) : t.boxes[d][i] = Older(s.boxes[d][i], floor)
                        /\ EntriesOf(t, d) = {Older(x, floor) : x \in EntriesOf(s, d)}
  BY <1>1, <1>2, AgedQueue
<1> HIDE DEF t
<1>5. t \in Store
  <2>1. t.boxes \in [Device -> Seq(Entry)]
    BY <1>3, <1>4
  <2>2. t.order \in SUBSET [call : Nat, target : Device] /\ t.bytes \in Nat
    BY <1>1, <1>3 DEF Store
  <2> QED
    BY <1>3, <2>1, <2>2 DEF Store
<1>6. \A d \in Device : \A x \in EntriesOf(s, d) : x \in Entry
  BY <1>1, QueueIs
<1>7. \A d \in Device : \A y \in EntriesOf(t, d) : \E x \in EntriesOf(s, d) : x.call = y.call
  <2> SUFFICES ASSUME NEW d \in Device, NEW y \in EntriesOf(t, d)
               PROVE  \E x \in EntriesOf(s, d) : x.call = y.call
    OBVIOUS
  <2>1. PICK x \in EntriesOf(s, d) : y = Older(x, floor)
    BY <1>4
  <2> QED
    BY <1>2, <1>6, <2>1, OlderIs
<1>8. \A d \in Device : \A x \in EntriesOf(s, d) :
        Older(x, floor) \in EntriesOf(t, d) /\ Older(x, floor).call = x.call
  BY <1>2, <1>4, <1>6, OlderIs
<1>9. t.order = Index(t)
  <2>1. ASSUME NEW o \in Index(s) PROVE o \in Index(t)
    <3>1. PICK e \in Device : \E x \in EntriesOf(s, e) : o = [call |-> x.call, target |-> e]
      BY <2>1 DEF Index
    <3>2. PICK x \in EntriesOf(s, e) : o = [call |-> x.call, target |-> e]
      BY <3>1
    <3>3. \E y \in EntriesOf(t, e) : o = [call |-> y.call, target |-> e]
      BY <1>8, <3>2
    <3> QED
      BY <3>3 DEF Index
  <2>2. ASSUME NEW o \in Index(t) PROVE o \in Index(s)
    <3>1. PICK e \in Device : \E y \in EntriesOf(t, e) : o = [call |-> y.call, target |-> e]
      BY <2>2 DEF Index
    <3>2. PICK y \in EntriesOf(t, e) : o = [call |-> y.call, target |-> e]
      BY <3>1
    <3>3. \E x \in EntriesOf(s, e) : o = [call |-> x.call, target |-> e]
      BY <1>7, <3>2
    <3> QED
      BY <3>3 DEF Index
  <2> QED
    BY <1>1, <1>3, <2>1, <2>2
<1>10. t.bytes = Bytes(Entries(t))
  <2> DEFINE S == Entries(s)
             f == [x \in S |-> Older(x, floor)]
  <2>1. IsFiniteSet(S) /\ Sized(S) /\ S \subseteq Entry
    BY <1>1, EntriesAre
  <2>2. Entries(t) = {Older(x, floor) : x \in S}
    BY <1>4 DEF Entries
  <2>3. \A x, y \in S : x.call = y.call => x = y
    <3> SUFFICES ASSUME NEW x \in S, NEW y \in S, x.call = y.call PROVE x = y
      OBVIOUS
    <3>1. PICK d \in Device : x \in EntriesOf(s, d)
      BY DEF Entries
    <3>2. PICK e \in Device : y \in EntriesOf(s, e)
      BY DEF Entries
    <3>3. PICK i \in 1 .. Len(s.boxes[d]) : x = s.boxes[d][i]
      BY <1>1, <3>1, QueueIs
    <3>4. PICK j \in 1 .. Len(s.boxes[e]) : y = s.boxes[e][j]
      BY <1>1, <3>2, QueueIs
    <3> QED
      BY <1>1, <3>3, <3>4, CallsTell
  <2> HIDE DEF S
  <2>4. /\ DOMAIN f = S
        /\ \A x \in S : f[x] = Older(x, floor) /\ f[x].size = x.size /\ f[x].call = x.call
    BY <1>2, <2>1, OlderIs
  <2> HIDE DEF f
  <2>5. \A x, y \in S : f[x] = f[y] => x = y
    BY <2>3, <2>4
  <2>6. Bytes({f[x] : x \in S}) = Bytes(S)
    BY <2>1, <2>4, <2>5, BytesSame
  <2>7. {f[x] : x \in S} = {Older(x, floor) : x \in S}
    BY <2>4
  <2> QED
    BY <1>1, <1>3, <2>2, <2>6, <2>7 DEF S
<1>11. \A d \in Device : \A i \in 1 .. Len(s.boxes[d]) :
         /\ t.boxes[d][i].call = s.boxes[d][i].call /\ s.boxes[d][i].left \in Int
         /\ t.boxes[d][i].left = IF s.boxes[d][i].left > floor THEN s.boxes[d][i].left - 1 ELSE floor
  <2> SUFFICES ASSUME NEW d \in Device, NEW i \in 1 .. Len(s.boxes[d])
               PROVE  /\ t.boxes[d][i].call = s.boxes[d][i].call /\ s.boxes[d][i].left \in Int
                      /\ t.boxes[d][i].left = IF s.boxes[d][i].left > floor
                                              THEN s.boxes[d][i].left - 1 ELSE floor
    OBVIOUS
  <2>1. s.boxes[d][i] \in Entry /\ t.boxes[d][i] = Older(s.boxes[d][i], floor)
    BY <1>1, <1>4, QueueIs
  <2> DEFINE x == s.boxes[d][i]
             y == t.boxes[d][i]
  <2> HIDE DEF x, y
  <2>2. x \in Entry /\ y = Older(x, floor)
    BY <2>1 DEF x, y
  <2>3. x.left \in Int
    BY <2>2 DEF Entry
  <2>4. y.call = x.call /\ y.left = IF x.left > floor THEN x.left - 1 ELSE floor
    BY <1>2, <2>2, OlderIs
  <2> QED
    BY <2>3, <2>4 DEF x, y
<1>12. Sorted(t)
  <2> SUFFICES ASSUME NEW d \in Device, NEW i \in 1 .. Len(t.boxes[d]), NEW j \in 1 .. (i - 1)
               PROVE  t.boxes[d][j].call < t.boxes[d][i].call
    BY DEF Sorted
  <2>1. i \in 1 .. Len(s.boxes[d]) /\ j \in 1 .. Len(s.boxes[d])
    BY <1>1, <1>4, QueueIs
  <2>2. s.boxes[d][j].call < s.boxes[d][i].call
    BY <1>1, <2>1 DEF Sorted
  <2> QED
    BY <1>11, <2>1, <2>2
<1>13. InDate(t)
  <2> SUFFICES ASSUME NEW d \in Device, NEW i \in 1 .. Len(t.boxes[d])
               PROVE  /\ t.boxes[d][i].left \in (-2 * MaxLag) .. CallTtl
                      /\ \A j \in 1 .. (i - 1) : t.boxes[d][j].left - MaxLag <= t.boxes[d][i].left
    BY DEF InDate
  <2>1. i \in 1 .. Len(s.boxes[d]) /\ Len(s.boxes[d]) \in Nat
    BY <1>1, <1>4, QueueIs
  <2> DEFINE x == s.boxes[d][i].left
             y == t.boxes[d][i].left
  <2>2. x \in floor .. CallTtl /\ y = IF x > floor THEN x - 1 ELSE floor
    BY <1>1, <1>11, <2>1 DEF InDate
  <2>3. ASSUME NEW j \in 1 .. (i - 1)
        PROVE  t.boxes[d][j].left - MaxLag <= y
    <3>1. j \in 1 .. Len(s.boxes[d])
      BY <2>1
    <3> DEFINE u == s.boxes[d][j].left
               v == t.boxes[d][j].left
    <3>2. u \in Int /\ v = IF u > floor THEN u - 1 ELSE floor
      BY <1>11, <3>1
    <3>3. u - MaxLag <= x
      BY <1>1, <2>1 DEF InDate
    <3> HIDE DEF u, v, x, y
    <3>4. v - MaxLag <= y
      BY <1>2, <2>2, <3>2, <3>3
    <3> QED
      BY <3>4 DEF v
  <2> HIDE DEF x, y
  <2>4. y \in floor .. CallTtl
    BY <1>2, <2>2
  <2> QED
    BY <2>3, <2>4 DEF y
<1>14. OwnCalls(t)
  <2> SUFFICES ASSUME NEW d \in Device, NEW e \in Device, NEW x \in EntriesOf(t, d),
                      NEW y \in EntriesOf(t, e), x.call = y.call
               PROVE  d = e
    BY DEF OwnCalls
  <2>1. PICK u \in EntriesOf(s, d) : u.call = x.call
    BY <1>7
  <2>2. PICK v \in EntriesOf(s, e) : v.call = y.call
    BY <1>7
  <2> QED
    BY <1>1, <2>1, <2>2 DEF OwnCalls
<1>15. GoodStore(t)
  BY <1>1, <1>3, <1>4, <1>5, <1>9, <1>10, <1>12, <1>13, <1>14 DEF GoodStore
<1> QED
  BY <1>4, <1>7, <1>15 DEF t

(* What the mailbox's invariant says.                                        *)
LEMMA GoodAgrees ==
    ASSUME NEW s, GoodStore(s)
    PROVE  Agrees(s)
<1>1. /\ s \in Store /\ s.order = Index(s) /\ s.bytes = Bytes(Entries(s)) /\ s.bytes <= MaxBytes
      /\ \A d \in Device : Len(s.boxes[d]) <= Depth
      /\ Sorted(s)
  BY DEF GoodStore
<1>2. \A d \in Device : DOMAIN s.boxes[d] = 1 .. Len(s.boxes[d]) /\ Len(s.boxes[d]) \in Nat
  BY <1>1, QueueIs
<1>3. ASSUME NEW d \in Device, NEW i \in DOMAIN s.boxes[d], NEW j \in DOMAIN s.boxes[d], i < j
      PROVE  s.boxes[d][i].call < s.boxes[d][j].call
  <2>1. j \in 1 .. Len(s.boxes[d]) /\ i \in 1 .. (j - 1)
    BY <1>2, <1>3
  <2> QED
    BY <1>1, <2>1 DEF Sorted
<1>4. s.order = UNION {{[call |-> e.call, target |-> d] : e \in EntriesOf(s, d)} : d \in Device}
  BY <1>1 DEF Index
<1>5. s.bytes = MapThenSumSet(LAMBDA e : e.size, UNION {EntriesOf(s, d) : d \in Device})
  BY <1>1 DEF Bytes, Entries
<1> QED
  BY <1>1, <1>3, <1>4, <1>5 DEF Agrees

(* The mailbox starts empty.                                                 *)
LEMMA EmptyGood == GoodStore(EmptyStore) /\ \A d \in Device : EntriesOf(EmptyStore, d) = {}
<1> DEFINE s == EmptyStore
<1>1. /\ s.boxes \in [Device -> Seq(Entry)] /\ s.order = {} /\ s.bytes = 0
      /\ \A d \in Device : s.boxes[d] = <<>>
      /\ s = [boxes |-> s.boxes, order |-> s.order, bytes |-> s.bytes]
  BY DEF EmptyStore
<1> HIDE DEF s
<1>2. s \in Store
  BY <1>1 DEF Store
<1>3. \A d \in Device : EntriesOf(s, d) = {} /\ Len(s.boxes[d]) = 0
  BY <1>1 DEF EntriesOf
<1>4. Entries(s) = {} /\ Index(s) = {}
  BY <1>3 DEF Entries, Index
<1>5. Bytes({}) = 0
  BY FS_EmptySet, BytesPick
<1>6. Sorted(s) /\ OwnCalls(s) /\ InDate(s)
  BY <1>3 DEF Sorted, OwnCalls, InDate
<1>7. GoodStore(s)
  BY <1>1, <1>2, <1>3, <1>4, <1>5, <1>6, Bounds DEF GoodStore
<1> QED
  BY <1>3, <1>7 DEF s
----------------------------------------------------------------------------
(* The inductive invariant of the service.                                   *)
Attachment == [conn : Conn, epoch : Nat, left : Int]
Phases == {"closed", "idle", "reattaching", "claiming", "attaching",
           "draining", "detaching", "releasing"}
Task == [phase : Phases, device : Device \cup {None}, bound : Nat, lag : Lag, queued : Seq(Entry)]

Typed ==
    /\ live \in [Device -> {None} \cup Attachment]
    /\ epochs \in Nat
    /\ conn \in [Conn -> Task]
    /\ carried \in SUBSET [call : Nat, to : Conn]
    /\ called \in Nat
    /\ handed \in SUBSET Nat

(* A connection that is open is for a device; one that drains has something  *)
(* left to drain.                                                            *)
TasksHold ==
    \A c \in Conn :
        /\ conn[c].phase # "closed" => conn[c].device \in Device
        /\ conn[c].phase = "draining" => conn[c].queued # <<>>

(* An epoch is given out once, to the connection that is bound by it.        *)
EpochsHold ==
    /\ \A d \in Device : live[d] # None => live[d].epoch \in 1 .. epochs
    /\ \A c \in Conn : conn[c].bound \in 0 .. epochs
    /\ \A d \in Device, c \in Conn :
          live[d] # None => (live[d].epoch = conn[c].bound => live[d].conn = c)

(* Where the calls routed so far are: each in one place, and there once.     *)
WaitingFor(d) == {e.call : e \in EntriesOf(store, d)}
InStore == {e.call : e \in Entries(store)}
Draining(c) == {conn[c].queued[i].call : i \in 1 .. Len(conn[c].queued)}
Underway == {k.call : k \in carried}

PlacesHold ==
    /\ InStore \cup Underway \cup handed \subseteq 1 .. called
    /\ InStore \cap (Underway \cup handed) = {}
    /\ Underway \cap handed = {}
    /\ \A k, l \in carried : k.call = l.call => k = l
    /\ \A c \in Conn :
          /\ Draining(c) \subseteq 1 .. called
          /\ Draining(c) \cap (InStore \cup Underway \cup handed) = {}
          /\ \A i, j \in 1 .. Len(conn[c].queued) :
                conn[c].queued[i].call = conn[c].queued[j].call => i = j
    /\ \A b, c \in Conn : b # c => Draining(b) \cap Draining(c) = {}

InTime ==
    \A c \in Conn : \A i \in 1 .. Len(conn[c].queued) : conn[c].queued[i].left > -2 * MaxLag

Unstranded == \A d \in Device : live[d] # None => store.boxes[d] = <<>>

Inductive ==
    /\ Typed /\ GoodStore(store) /\ TasksHold /\ EpochsHold /\ PlacesHold /\ InTime /\ Unstranded

LEMMA TaskIs ==
    ASSUME Typed, NEW c \in Conn
    PROVE  /\ conn[c] \in Task
           /\ conn[c].phase \in Phases /\ conn[c].device \in Device \cup {None}
           /\ conn[c].bound \in Nat /\ conn[c].lag \in Lag
           /\ conn[c].queued \in Seq(Entry) /\ Len(conn[c].queued) \in Nat
           /\ \A i \in 1 .. Len(conn[c].queued) : conn[c].queued[i] \in Entry
<1>1. conn[c] \in Task
  BY DEF Typed
<1>2. conn[c].queued \in Seq(Entry)
  BY <1>1 DEF Task
<1> DEFINE q == conn[c].queued
<1> HIDE DEF q
<1>3. q \in Seq(Entry)
  BY <1>2 DEF q
<1>4. Len(q) \in Nat /\ \A i \in 1 .. Len(q) : q[i] \in Entry
  BY <1>3
<1> QED
  BY <1>1, <1>2, <1>4 DEF Task, q

LEMMA TaskWith ==
    ASSUME NEW x \in Task, NEW phase, NEW queued
    PROVE  /\ [x EXCEPT !.phase = phase] =
                [phase |-> phase, device |-> x.device, bound |-> x.bound, lag |-> x.lag, queued |-> x.queued]
           /\ [x EXCEPT !.phase = phase, !.queued = queued] =
                [phase |-> phase, device |-> x.device, bound |-> x.bound, lag |-> x.lag, queued |-> queued]
<1>1. x = [phase |-> x.phase, device |-> x.device, bound |-> x.bound, lag |-> x.lag, queued |-> x.queued]
  BY DEF Task
<1>2. PICK p, d, b, l, q : x = [phase |-> p, device |-> d, bound |-> b, lag |-> l, queued |-> q]
  BY <1>1
<1>3. [x EXCEPT !.phase = phase] = [phase |-> phase, device |-> d, bound |-> b, lag |-> l, queued |-> q]
  BY <1>2
<1>4. [x EXCEPT !.phase = phase, !.queued = queued] =
        [phase |-> phase, device |-> d, bound |-> b, lag |-> l, queued |-> queued]
  <2>1. [x EXCEPT !.phase = phase, !.queued = queued] =
          [[x EXCEPT !.phase = phase] EXCEPT !.queued = queued]
    OBVIOUS
  <2> DEFINE y == [phase |-> phase, device |-> d, bound |-> b, lag |-> l, queued |-> q]
  <2>2. [y EXCEPT !.queued = queued] =
          [phase |-> phase, device |-> d, bound |-> b, lag |-> l, queued |-> queued]
    OBVIOUS
  <2>3. [x EXCEPT !.phase = phase] = y
    BY <1>3
  <2> HIDE DEF y
  <2> QED
    BY <2>1, <2>2, <2>3, Zenon
<1> QED
  BY <1>2, <1>3, <1>4

LEMMA NoAttachment == None \notin Attachment
  BY RendezvousConstants DEF Attachment

LEMMA ClosedIs ==
    /\ Closed \in Task /\ Closed.phase = "closed" /\ Closed.bound = 0 /\ Closed.queued = <<>>
<1>1. 0 \in Lag
  BY Bounds DEF Lag
<1> QED
  BY <1>1 DEF Closed, Task, Phases

(* One task changes, and neither the mailbox nor any call on its way; an      *)
(* attachment may end.                                                       *)
LEMMA TaskChanges ==
    ASSUME Inductive, UNCHANGED <<store, epochs, carried, called, handed>>,
           NEW c \in Conn, NEW t \in Task, conn' = [conn EXCEPT ![c] = t],
           t.queued \in {conn[c].queued, <<>>}, t.bound \in {conn[c].bound, 0},
           t.phase # "closed" => t.device \in Device,
           t.phase = "draining" => t.queued # <<>>,
           live' \in [Device -> {None} \cup Attachment],
           \A d \in Device : live'[d] \in {live[d], None}
    PROVE  Inductive'
<1>1. Typed /\ GoodStore(store) /\ TasksHold /\ EpochsHold /\ PlacesHold /\ InTime /\ Unstranded
  BY DEF Inductive
<1>2. conn'[c] = t /\ \A b \in Conn : b # c => conn'[b] = conn[b]
  BY <1>1 DEF Typed
<1>3. Typed'
  BY <1>1 DEF Typed
<1>4. GoodStore(store)' /\ InStore' = InStore /\ Underway' = Underway
  BY <1>1 DEF InStore, Underway
<1>5. TasksHold'
  BY <1>1, <1>2 DEF TasksHold
<1>6. EpochsHold'
  <2>1. \A d \in Device : live'[d] # None => live[d] = live'[d]
    OBVIOUS
  <2>2. \A b \in Conn : conn'[b].bound \in {conn[b].bound, 0}
    BY <1>2
  <2>3. epochs \in Nat
    BY <1>1 DEF Typed
  <2>4. \A b \in Conn : conn'[b].bound \in 0 .. epochs
    BY <1>1, <2>2, <2>3 DEF EpochsHold
  <2>5. ASSUME NEW d \in Device, NEW b \in Conn, live'[d] # None, live'[d].epoch = conn'[b].bound
        PROVE  live'[d].conn = b
    <3>1. live'[d] = live[d] /\ live[d].epoch \in 1 .. epochs
      BY <1>1, <2>1, <2>5 DEF EpochsHold
    <3>2. conn'[b].bound = conn[b].bound
      BY <2>2, <2>3, <2>5, <3>1
    <3> QED
      BY <1>1, <2>5, <3>1, <3>2 DEF EpochsHold
  <2> QED
    BY <1>1, <2>1, <2>4, <2>5 DEF EpochsHold
<1>7. \A b \in Conn : conn'[b].queued \in {conn[b].queued, <<>>}
  BY <1>2
<1>8. \A b \in Conn : \A i \in 1 .. Len(conn'[b].queued) : conn'[b].queued = conn[b].queued
  <2>1. Len(<<>>) = 0
    OBVIOUS
  <2> QED
    BY <1>7, <2>1
<1>9. \A b \in Conn : Draining(b)' \subseteq Draining(b)
  BY <1>8 DEF Draining
<1>10. PlacesHold'
  <2>1. \A b \in Conn : \A i, j \in 1 .. Len(conn'[b].queued) :
            conn'[b].queued[i].call = conn'[b].queued[j].call => i = j
    BY <1>1, <1>8 DEF PlacesHold
  <2>2. \A b \in Conn : /\ Draining(b)' \subseteq 1 .. called
                        /\ Draining(b)' \cap (InStore \cup Underway \cup handed) = {}
    BY <1>1, <1>9 DEF PlacesHold
  <2>3. \A a, b \in Conn : a # b => Draining(a)' \cap Draining(b)' = {}
    BY <1>1, <1>9 DEF PlacesHold
  <2> QED
    BY <1>1, <1>4, <2>1, <2>2, <2>3 DEF PlacesHold
<1>11. InTime'
  BY <1>1, <1>8 DEF InTime
<1>12. Unstranded'
  BY <1>1 DEF Unstranded
<1> QED
  BY <1>3, <1>4, <1>5, <1>6, <1>10, <1>11, <1>12 DEF Inductive

(* What a sweep of the attachments leaves.                                   *)
LEMMA SweptIs ==
    ASSUME Typed, NEW lag \in Lag
    PROVE  /\ SweepLive(lag) \in [Device -> {None} \cup Attachment]
           /\ \A d \in Device :
                \/ SweepLive(lag)[d] = live[d]
                \/ SweepLive(lag)[d] = None /\ live[d] # None /\ live[d].left <= 0
<1>1. live \in [Device -> {None} \cup Attachment]
  BY DEF Typed
<1>2. ASSUME NEW d \in Device, live[d] # None, live[d].left + lag <= 0
      PROVE  live[d].left <= 0
  <2>1. live[d].left \in Int /\ lag \in Nat
    BY <1>1, <1>2, Bounds DEF Attachment, Lag
  <2> QED
    BY <1>2, <2>1
<1> QED
  BY <1>1, <1>2 DEF SweepLive

(* The steps of a connection that touch no call.                             *)
LEMMA LeavesIs ==
    ASSUME Inductive, NEW c \in Conn, conn[c].phase # "closed", Leaves(c)
    PROVE  \E t \in Task :
              /\ conn' = [conn EXCEPT ![c] = t]
              /\ t.queued = <<>> /\ t.bound \in {conn[c].bound, 0}
              /\ t.phase # "closed" => t.device \in Device
              /\ t.phase # "draining"
<1> DEFINE t == IF conn[c].bound = 0 THEN Closed
                ELSE [conn[c] EXCEPT !.phase = "detaching", !.queued = <<>>]
<1>1. conn' = [conn EXCEPT ![c] = t]
  BY DEF Leaves
<1>2. Typed /\ conn[c].device \in Device
  BY DEF Inductive, TasksHold
<1>3. CASE conn[c].bound = 0
  <2>1. t = Closed
    BY <1>3
  <2> HIDE DEF t
  <2> QED
    BY <1>1, <2>1, ClosedIs
<1>4. CASE conn[c].bound # 0
  <2> DEFINE u == [phase |-> "detaching", device |-> conn[c].device, bound |-> conn[c].bound,
                   lag |-> conn[c].lag, queued |-> <<>>]
  <2>1. t = u
    BY <1>2, <1>4, TaskIs, TaskWith
  <2>2. u \in Task
    <3>1. "detaching" \in Phases /\ <<>> \in Seq(Entry)
      BY DEF Phases
    <3>2. conn[c].device \in Device \cup {None} /\ conn[c].bound \in Nat /\ conn[c].lag \in Lag
      BY <1>2, TaskIs
    <3> QED
      BY <3>1, <3>2 DEF Task
  <2>3. u.queued = <<>> /\ u.bound = conn[c].bound /\ u.device \in Device /\ u.phase = "detaching"
    BY <1>2
  <2> HIDE DEF t, u
  <2> QED
    BY <1>1, <2>1, <2>2, <2>3
<1> QED
  BY <1>3, <1>4

LEMMA GoesIs ==
    ASSUME Inductive, NEW c \in Conn, conn[c].phase # "closed",
           NEW phase \in Phases \ {"closed", "draining"}, Goes(c, phase)
    PROVE  \E t \in Task :
              /\ conn' = [conn EXCEPT ![c] = t]
              /\ t.queued = conn[c].queued /\ t.bound = conn[c].bound
              /\ t.phase = phase /\ t.device \in Device
<1> DEFINE t == [conn[c] EXCEPT !.phase = phase]
           u == [phase |-> phase, device |-> conn[c].device, bound |-> conn[c].bound,
                 lag |-> conn[c].lag, queued |-> conn[c].queued]
<1>1. conn' = [conn EXCEPT ![c] = t]
  BY DEF Goes
<1>2. Typed /\ conn[c].device \in Device
  BY DEF Inductive, TasksHold
<1>3. t = u
  BY <1>2, TaskIs, TaskWith
<1>4. u \in Task
  BY <1>2, TaskIs DEF Task
<1>5. u.queued = conn[c].queued /\ u.bound = conn[c].bound /\ u.phase = phase /\ u.device \in Device
  BY <1>2
<1> HIDE DEF t, u
<1> QED
  BY <1>1, <1>3, <1>4, <1>5

Standing == {"idle", "reattaching", "claiming", "attaching", "detaching", "releasing"}

LEMMA LeavesGood ==
    ASSUME Inductive, NEW c \in Conn, conn[c].phase # "closed", Leaves(c),
           UNCHANGED <<store, epochs, carried, called, handed>>,
           live' \in [Device -> {None} \cup Attachment],
           \A d \in Device : live'[d] \in {live[d], None}
    PROVE  Inductive'
<1>1. PICK t \in Task :
        /\ conn' = [conn EXCEPT ![c] = t]
        /\ t.queued = <<>> /\ t.bound \in {conn[c].bound, 0}
        /\ t.phase # "closed" => t.device \in Device
        /\ t.phase # "draining"
  BY LeavesIs
<1> QED
  BY <1>1, TaskChanges

LEMMA GoesGood ==
    ASSUME Inductive, NEW c \in Conn, conn[c].phase # "closed",
           NEW phase \in Standing, Goes(c, phase),
           UNCHANGED <<store, epochs, carried, called, handed>>,
           live' \in [Device -> {None} \cup Attachment],
           \A d \in Device : live'[d] \in {live[d], None}
    PROVE  Inductive'
<1>1. phase \in Phases \ {"closed", "draining"}
  BY DEF Phases, Standing
<1>2. PICK t \in Task :
        /\ conn' = [conn EXCEPT ![c] = t]
        /\ t.queued = conn[c].queued /\ t.bound = conn[c].bound
        /\ t.phase = phase /\ t.device \in Device
  BY <1>1, GoesIs
<1>3. t.phase # "draining"
  BY <1>1, <1>2
<1> QED
  BY <1>2, <1>3, TaskChanges

LEMMA LiveStays ==
    ASSUME Inductive, UNCHANGED live
    PROVE  /\ live' \in [Device -> {None} \cup Attachment]
           /\ \A d \in Device : live'[d] \in {live[d], None}
  BY DEF Inductive, Typed

LEMMA ConnectGood ==
    ASSUME Inductive, NEW c \in Conn, Connect(c)
    PROVE  Inductive'
<1>1. PICK d \in Device : conn' = [conn EXCEPT ![c] = [Closed EXCEPT !.phase = "idle", !.device = d]]
  BY DEF Connect
<1> DEFINE t == [phase |-> "idle", device |-> d, bound |-> 0, lag |-> 0, queued |-> <<>>]
<1>2. [Closed EXCEPT !.phase = "idle", !.device = d] = t
  <2> DEFINE y == [phase |-> "idle", device |-> None, bound |-> 0, lag |-> 0, queued |-> <<>>]
  <2>1. [Closed EXCEPT !.phase = "idle", !.device = d] = [[Closed EXCEPT !.phase = "idle"] EXCEPT !.device = d]
    OBVIOUS
  <2>2. [Closed EXCEPT !.phase = "idle"] = y
    BY DEF Closed
  <2>3. [y EXCEPT !.device = d] = t
    OBVIOUS
  <2> HIDE DEF t, y
  <2> QED
    BY <2>1, <2>2, <2>3, Zenon
<1>3. t \in Task
  <2>1. 0 \in Lag /\ "idle" \in Phases /\ <<>> \in Seq(Entry)
    BY Bounds DEF Lag, Phases
  <2> QED
    BY <2>1 DEF Task
<1>4. t.queued = <<>> /\ t.bound = 0 /\ t.device \in Device /\ t.phase # "draining"
  OBVIOUS
<1> HIDE DEF t
<1>5. UNCHANGED <<live, store, epochs, carried, called, handed>>
  BY DEF Connect
<1>6. conn' = [conn EXCEPT ![c] = t]
  BY <1>1, <1>2
<1> QED
  BY <1>3, <1>4, <1>5, <1>6, LiveStays, TaskChanges

LEMMA AttachGood ==
    ASSUME Inductive, NEW c \in Conn, Attach(c)
    PROVE  Inductive'
<1>1. /\ conn[c].phase # "closed"
      /\ UNCHANGED <<live, store, epochs, carried, called, handed>>
      /\ Goes(c, IF conn[c].bound = 0 THEN "claiming" ELSE "reattaching")
  BY DEF Attach
<1>2. (IF conn[c].bound = 0 THEN "claiming" ELSE "reattaching") \in Standing
  BY DEF Standing
<1> QED
  BY <1>1, <1>2, LiveStays, GoesGood

LEMMA ClaimsGood ==
    ASSUME Inductive, NEW c \in Conn, ReleaseOwn(c) \/ ClaimAgain(c) \/ ClaimFirst(c) \/ ClaimRefused(c)
    PROVE  Inductive'
<1>1. CASE ReleaseOwn(c)
  <2>1. /\ conn[c].phase # "closed" /\ Goes(c, "claiming")
        /\ UNCHANGED <<live, store, epochs, carried, called, handed>>
    BY <1>1 DEF ReleaseOwn
  <2>2. "claiming" \in Standing
    BY DEF Standing
  <2> QED
    BY <2>1, <2>2, LiveStays, GoesGood
<1>2. CASE ClaimAgain(c) \/ ClaimFirst(c)
  <2>1. /\ conn[c].phase # "closed" /\ Goes(c, "attaching")
        /\ UNCHANGED <<live, store, epochs, carried, called, handed>>
    BY <1>2 DEF ClaimAgain, ClaimFirst
  <2>2. "attaching" \in Standing
    BY DEF Standing
  <2> QED
    BY <2>1, <2>2, LiveStays, GoesGood
<1>3. CASE ClaimRefused(c)
  <2>1. /\ conn[c].phase # "closed" /\ Leaves(c)
        /\ UNCHANGED <<live, store, epochs, carried, called, handed>>
    BY <1>3 DEF ClaimRefused
  <2> QED
    BY <2>1, LiveStays, LeavesGood
<1> QED
  BY <1>1, <1>2, <1>3

LEMMA AttachRefusedGood ==
    ASSUME Inductive, NEW c \in Conn, AttachRefused(c)
    PROVE  Inductive'
<1>1. /\ conn[c].phase = "attaching" /\ Leaves(c) /\ live' = SweepLive(conn[c].lag)
      /\ UNCHANGED <<store, epochs, carried, called, handed>>
  BY DEF AttachRefused
<1>2. Typed /\ conn[c].lag \in Lag
  BY TaskIs DEF Inductive
<1>3. /\ live' \in [Device -> {None} \cup Attachment]
      /\ \A d \in Device : live'[d] \in {live[d], None}
  BY <1>1, <1>2, SweptIs
<1> QED
  BY <1>1, <1>3, LeavesGood

LEMMA CloseGood ==
    ASSUME Inductive, NEW c \in Conn, Close(c)
    PROVE  Inductive'
<1>1. /\ conn[c].phase = "idle" /\ Leaves(c)
      /\ UNCHANGED <<live, store, epochs, carried, called, handed>>
  BY DEF Close
<1> QED
  BY <1>1, LiveStays, LeavesGood

LEMMA DetachGood ==
    ASSUME Inductive, NEW c \in Conn, Detach(c)
    PROVE  Inductive'
<1>1. /\ conn[c].phase = "detaching" /\ Goes(c, "releasing")
      /\ UNCHANGED <<store, epochs, carried, called, handed>>
      /\ live' \in {live, [live EXCEPT ![conn[c].device] = None]}
  BY DEF Detach
<1>2. live \in [Device -> {None} \cup Attachment]
  BY DEF Inductive, Typed
<1>3. /\ live' \in [Device -> {None} \cup Attachment]
      /\ \A d \in Device : live'[d] \in {live[d], None}
  BY <1>1, <1>2
<1>4. "releasing" \in Standing
  BY DEF Standing
<1> QED
  BY <1>1, <1>3, <1>4, GoesGood

LEMMA ReleaseGood ==
    ASSUME Inductive, NEW c \in Conn, Release(c)
    PROVE  Inductive'
<1>1. /\ conn' = [conn EXCEPT ![c] = Closed]
      /\ UNCHANGED <<live, store, epochs, carried, called, handed>>
  BY DEF Release
<1>2. Closed.phase # "draining"
  BY ClosedIs
<1> QED
  BY <1>1, <1>2, ClosedIs, LiveStays, TaskChanges

(* Time and the sweeps: no call moves but out of the mailbox.                *)
LEMMA BoxesEmpty ==
    ASSUME NEW s \in Store, NEW t \in Store, NEW d \in Device,
           s.boxes[d] = <<>>, Len(t.boxes[d]) <= Len(s.boxes[d])
    PROVE  t.boxes[d] = <<>>
<1>1. Len(s.boxes[d]) = 0
  OBVIOUS
<1> DEFINE q == t.boxes[d]
<1> HIDE DEF q
<1>2. q \in Seq(Entry) /\ Len(q) \in Nat /\ Len(q) <= 0
  BY <1>1, QueueIs DEF q
<1>3. q = <<>>
  BY <1>2
<1> QED
  BY <1>3 DEF q

LEMMA CallsKept ==
    ASSUME Inductive, GoodStore(store'),
           \A d \in Device : \A y \in EntriesOf(store', d) : \E x \in EntriesOf(store, d) : x.call = y.call,
           \A d \in Device : Len(store'.boxes[d]) <= Len(store.boxes[d]),
           UNCHANGED <<carried, called, handed>>,
           \A b \in Conn : conn'[b].queued = conn[b].queued
    PROVE  /\ PlacesHold' /\ InTime'
           /\ \A d \in Device : store.boxes[d] = <<>> => store'.boxes[d] = <<>>
<1>1. PlacesHold /\ InTime /\ store \in Store /\ store' \in Store
  BY DEF Inductive, GoodStore
<1>2. InStore' \subseteq InStore
  BY DEF InStore, Entries
<1>3. Underway' = Underway /\ \A b \in Conn : Draining(b)' = Draining(b)
  BY DEF Underway, Draining
<1>4. PlacesHold'
  <2>1. \A b \in Conn : \A i, j \in 1 .. Len(conn'[b].queued) :
            conn'[b].queued[i].call = conn'[b].queued[j].call => i = j
    BY <1>1 DEF PlacesHold
  <2>2. \A b \in Conn : /\ Draining(b)' \subseteq 1 .. called
                        /\ Draining(b)' \cap (InStore' \cup Underway \cup handed) = {}
    BY <1>1, <1>2, <1>3 DEF PlacesHold
  <2>3. \A a, b \in Conn : a # b => Draining(a)' \cap Draining(b)' = {}
    BY <1>1, <1>3 DEF PlacesHold
  <2>4. /\ InStore' \cup Underway \cup handed \subseteq 1 .. called
        /\ InStore' \cap (Underway \cup handed) = {}
        /\ Underway \cap handed = {}
        /\ \A k, l \in carried : k.call = l.call => k = l
    BY <1>1, <1>2 DEF PlacesHold
  <2> QED
    BY <1>3, <2>1, <2>2, <2>3, <2>4 DEF PlacesHold
<1>5. InTime'
  BY <1>1 DEF InTime
<1>6. \A d \in Device : store.boxes[d] = <<>> => store'.boxes[d] = <<>>
  BY <1>1, BoxesEmpty
<1> QED
  BY <1>4, <1>5, <1>6

LEMMA SweeperGood ==
    ASSUME Inductive, NEW lag \in Lag, Sweeper(lag)
    PROVE  Inductive'
<1>1. /\ live' = SweepLive(lag) /\ store' = SweepStore(store, lag)
      /\ UNCHANGED <<epochs, conn, carried, called, handed>>
  BY DEF Sweeper
<1>2. Typed /\ GoodStore(store) /\ TasksHold /\ EpochsHold /\ Unstranded
  BY DEF Inductive
<1>3. GoodStore(store') /\ Fewer(store, store')
  BY <1>1, <1>2, SweepGood
<1>4. /\ PlacesHold' /\ InTime'
      /\ \A d \in Device : store.boxes[d] = <<>> => store'.boxes[d] = <<>>
  BY <1>1, <1>3, CallsKept DEF Fewer
<1>5. /\ live' \in [Device -> {None} \cup Attachment]
      /\ \A d \in Device : live'[d] # None => live'[d] = live[d]
  BY <1>1, <1>2, SweptIs
<1>6. Typed' /\ TasksHold'
  BY <1>1, <1>2, <1>5 DEF Typed, TasksHold
<1>7. EpochsHold'
  BY <1>1, <1>2, <1>5 DEF EpochsHold
<1>8. Unstranded'
  BY <1>2, <1>4, <1>5 DEF Unstranded
<1> QED
  BY <1>3, <1>4, <1>6, <1>7, <1>8 DEF Inductive

LEMMA TaskAged ==
    ASSUME NEW x \in Task, NEW lag
    PROVE  [x EXCEPT !.lag = lag] =
             [phase |-> x.phase, device |-> x.device, bound |-> x.bound, lag |-> lag, queued |-> x.queued]
<1>1. x = [phase |-> x.phase, device |-> x.device, bound |-> x.bound, lag |-> x.lag, queued |-> x.queued]
  BY DEF Task
<1>2. PICK p, d, b, l, q : x = [phase |-> p, device |-> d, bound |-> b, lag |-> l, queued |-> q]
  BY <1>1
<1> QED
  BY <1>2

LEMMA TaskMade ==
    ASSUME NEW phase \in Phases, NEW device \in Device \cup {None}, NEW bound \in Nat, NEW lag \in Lag,
           NEW queued \in Seq(Entry)
    PROVE  [phase |-> phase, device |-> device, bound |-> bound, lag |-> lag, queued |-> queued] \in Task
  BY DEF Task

LEMMA TickGood ==
    ASSUME Inductive, Tick
    PROVE  Inductive'
<1> DEFINE later(c) == IF Waiting(c) THEN conn[c].lag + 1 ELSE 0
           sooner(d) == Sooner(live[d].left)
<1>1. /\ \A c \in Conn : Waiting(c) => conn[c].lag < MaxLag
      /\ conn' = [c \in Conn |-> [conn[c] EXCEPT !.lag = later(c)]]
      /\ live' = [d \in Device |-> IF live[d] = None THEN None ELSE [live[d] EXCEPT !.left = sooner(d)]]
      /\ store' = AgeStore(store, -2 * MaxLag)
      /\ UNCHANGED <<epochs, carried, called, handed>>
  BY DEF Tick
<1>2. Typed /\ GoodStore(store) /\ TasksHold /\ EpochsHold /\ Unstranded
  BY DEF Inductive
<1>3. \A c \in Conn : later(c) \in Lag
  <2> SUFFICES ASSUME NEW c \in Conn PROVE later(c) \in Lag
    OBVIOUS
  <2>1. conn[c].lag \in 0 .. MaxLag /\ MaxLag \in Nat
    BY <1>2, TaskIs, Bounds DEF Lag
  <2> QED
    BY <1>1, <2>1 DEF Lag
<1>4. \A d \in Device : live[d] # None => live[d] \in Attachment /\ sooner(d) \in Int
  <2> SUFFICES ASSUME NEW d \in Device, live[d] # None
               PROVE  live[d] \in Attachment /\ sooner(d) \in Int
    OBVIOUS
  <2>1. live[d] \in Attachment
    BY <1>2 DEF Typed
  <2>2. live[d].left \in Int
    BY <2>1 DEF Attachment
  <2> QED
    BY <2>1, <2>2 DEF Sooner
<1> HIDE DEF later, sooner
<1>5. GoodStore(store') /\ \A d \in Device :
        /\ Len(store'.boxes[d]) = Len(store.boxes[d])
        /\ \A y \in EntriesOf(store', d) : \E x \in EntriesOf(store, d) : x.call = y.call
  BY <1>1, <1>2, AgeGood
<1>6. \A d \in Device : Len(store'.boxes[d]) <= Len(store.boxes[d])
  <2>1. store \in Store /\ store' \in Store
    BY <1>2, <1>5 DEF GoodStore
  <2> QED
    BY <1>5, <2>1, QueueIs
<1>7. \A c \in Conn : conn'[c] = [phase |-> conn[c].phase, device |-> conn[c].device, bound |-> conn[c].bound,
                                  lag |-> later(c), queued |-> conn[c].queued]
  BY <1>1, <1>2, TaskIs, TaskAged
<1>8. /\ conn' \in [Conn -> Task]
      /\ \A c \in Conn : /\ conn'[c].phase = conn[c].phase /\ conn'[c].device = conn[c].device
                         /\ conn'[c].bound = conn[c].bound /\ conn'[c].queued = conn[c].queued
  <2>1. \A c \in Conn : conn'[c] \in Task
    <3> SUFFICES ASSUME NEW c \in Conn PROVE conn'[c] \in Task
      OBVIOUS
    <3>1. /\ conn[c].phase \in Phases /\ conn[c].device \in Device \cup {None}
          /\ conn[c].bound \in Nat /\ conn[c].queued \in Seq(Entry)
      BY <1>2, TaskIs
    <3> QED
      <4> DEFINE lag == later(c)
                 u == [phase |-> conn[c].phase, device |-> conn[c].device, bound |-> conn[c].bound,
                       lag |-> lag, queued |-> conn[c].queued]
      <4>1. conn'[c] = u /\ lag \in Lag
        BY <1>3, <1>7
      <4> HIDE DEF lag
      <4>2. u \in Task
        BY <3>1, <4>1, TaskMade
      <4> HIDE DEF u
      <4> QED
        BY <4>1, <4>2
  <2>2. conn' = [c \in Conn |-> conn'[c]]
    BY <1>1
  <2> QED
    BY <1>7, <2>1, <2>2
<1>9. /\ PlacesHold' /\ InTime'
      /\ \A d \in Device : store.boxes[d] = <<>> => store'.boxes[d] = <<>>
  BY <1>1, <1>5, <1>6, <1>8, CallsKept
<1>10. \A d \in Device : live[d] # None =>
         /\ live'[d] \in Attachment
         /\ live'[d].conn = live[d].conn /\ live'[d].epoch = live[d].epoch
  <2> SUFFICES ASSUME NEW d \in Device, live[d] # None
               PROVE  /\ live'[d] \in Attachment
                      /\ live'[d].conn = live[d].conn /\ live'[d].epoch = live[d].epoch
    OBVIOUS
  <2>1. live'[d] = [live[d] EXCEPT !.left = sooner(d)]
    BY <1>1
  <2> QED
    BY <1>4, <2>1 DEF Attachment
<1>11. \A d \in Device : live[d] = None => live'[d] = None
  BY <1>1
<1>12. live' \in [Device -> {None} \cup Attachment]
  BY <1>1, <1>10, <1>11
<1>13. Typed' /\ TasksHold'
  BY <1>1, <1>2, <1>8, <1>12 DEF Typed, TasksHold
<1>14. EpochsHold'
  <2>1. epochs' = epochs /\ \A d \in Device : live'[d] # None =>
            live[d] # None /\ live'[d].conn = live[d].conn /\ live'[d].epoch = live[d].epoch
    BY <1>1, <1>10, <1>11
  <2>2. /\ \A d \in Device : live[d] # None => live[d].epoch \in 1 .. epochs
        /\ \A c \in Conn : conn[c].bound \in 0 .. epochs
        /\ \A d \in Device, c \in Conn :
              live[d] # None => (live[d].epoch = conn[c].bound => live[d].conn = c)
    BY <1>2 DEF EpochsHold
  <2>3. \A d \in Device : live'[d] # None => live'[d].epoch \in 1 .. epochs'
    BY <2>1, <2>2
  <2>4. \A c \in Conn : conn'[c].bound \in 0 .. epochs'
    BY <1>8, <2>1, <2>2
  <2>5. \A d \in Device, c \in Conn :
          live'[d] # None => (live'[d].epoch = conn'[c].bound => live'[d].conn = c)
    BY <1>8, <2>1, <2>2
  <2> QED
    BY <2>3, <2>4, <2>5 DEF EpochsHold
<1>15. Unstranded'
  BY <1>2, <1>9, <1>11 DEF Unstranded
<1> QED
  BY <1>5, <1>9, <1>13, <1>14, <1>15 DEF Inductive

(* The newest attachment takes its device's mailbox with it.                 *)
Rebound(x, phase, bound, lag, queued) ==
    [x EXCEPT !.phase = phase, !.bound = bound, !.lag = lag, !.queued = queued]

LEMMA TaskBound ==
    ASSUME NEW x \in Task, NEW phase, NEW bound, NEW lag, NEW queued
    PROVE  Rebound(x, phase, bound, lag, queued) =
             [phase |-> phase, device |-> x.device, bound |-> bound, lag |-> lag, queued |-> queued]
<1> DEFINE y == [x EXCEPT !.phase = phase]
           z == [phase |-> phase, device |-> x.device, bound |-> x.bound, lag |-> x.lag, queued |-> x.queued]
<1>1. y = z
  BY TaskWith
<1>2. [x EXCEPT !.phase = phase, !.bound = bound, !.lag = lag, !.queued = queued] =
        [[[y EXCEPT !.bound = bound] EXCEPT !.lag = lag] EXCEPT !.queued = queued]
  OBVIOUS
<1> DEFINE u == [phase |-> phase, device |-> x.device, bound |-> bound, lag |-> x.lag, queued |-> x.queued]
           v == [phase |-> phase, device |-> x.device, bound |-> bound, lag |-> lag, queued |-> x.queued]
<1>3. [z EXCEPT !.bound = bound] = u /\ [u EXCEPT !.lag = lag] = v
  OBVIOUS
<1>4. [v EXCEPT !.queued = queued] =
        [phase |-> phase, device |-> x.device, bound |-> bound, lag |-> lag, queued |-> queued]
  OBVIOUS
<1> HIDE DEF y, z, u, v
<1> QED
  BY <1>1, <1>2, <1>3, <1>4, Zenon DEF Rebound

LEMMA AttachBoundGood ==
    ASSUME Inductive, NEW c \in Conn, AttachBound(c)
    PROVE  Inductive'
<1> DEFINE d == conn[c].device
           lag == conn[c].lag
           q == Taken(store, d, lag)
           new == epochs + 1
           phase == IF q = <<>> THEN "idle" ELSE "draining"
           t == [phase |-> phase, device |-> d, bound |-> new, lag |-> 0, queued |-> q]
           a == [conn |-> c, epoch |-> new, left |-> AttachTtl - lag]
<1>1. Typed /\ GoodStore(store) /\ TasksHold /\ EpochsHold /\ PlacesHold /\ InTime /\ Unstranded
  BY DEF Inductive
<1>2. /\ conn[c].phase = "attaching"
      /\ epochs' = new
      /\ live' = [SweepLive(lag) EXCEPT ![d] = a]
      /\ store' = AfterTake(store, d, lag)
      /\ conn' = [conn EXCEPT ![c] = [@ EXCEPT !.phase = phase, !.bound = new, !.lag = 0, !.queued = q]]
      /\ UNCHANGED <<carried, called, handed>>
  BY DEF AttachBound
<1>3. d \in Device /\ lag \in Lag /\ epochs \in Nat /\ new \in Nat /\ lag \in Int
  BY <1>1, <1>2, TaskIs, Bounds DEF TasksHold, Typed, Lag
<1>4. /\ GoodStore(store') /\ Fewer(store, store') /\ store'.boxes[d] = <<>>
      /\ q \in Seq(Entry)
      /\ \A i \in 1 .. Len(q) : q[i] \in EntriesOf(store, d) /\ q[i].left > -2 * MaxLag
      /\ \A i, j \in 1 .. Len(q) : q[i].call = q[j].call => i = j
  BY <1>1, <1>2, <1>3, TakeGood
<1>5. t \in Task /\ t.queued = q /\ t.bound = new /\ t.device = d /\ (t.phase = "draining" => q # <<>>)
  <2>1. phase \in Phases /\ 0 \in Lag /\ (phase = "draining" => q # <<>>)
    BY Bounds DEF Phases, Lag
  <2> HIDE DEF phase, q, d, new
  <2> QED
    BY <1>3, <1>4, <2>1, TaskMade
<1>6. conn' = [conn EXCEPT ![c] = t]
  <2>1. conn[c] \in Task
    BY <1>1, TaskIs
  <2>2. Rebound(conn[c], phase, new, 0, q) = t
    BY <2>1, TaskBound
  <2> QED
    BY <1>2, <2>2 DEF Rebound
<1>7. a \in Attachment /\ a.conn = c /\ a.epoch = new
  <2>1. AttachTtl \in Int
    BY RendezvousConstants
  <2> HIDE DEF d, lag
  <2> QED
    BY <1>3, <2>1 DEF Attachment
<1> HIDE DEF t, q, d, lag, a, phase, new
<1>8. /\ SweepLive(lag) \in [Device -> {None} \cup Attachment]
      /\ \A e \in Device : SweepLive(lag)[e] # None => SweepLive(lag)[e] = live[e]
  BY <1>1, <1>3, SweptIs
<1>9. /\ live' \in [Device -> {None} \cup Attachment]
      /\ live'[d] = a
      /\ \A e \in Device : e # d => (live'[e] # None => live'[e] = live[e])
  BY <1>2, <1>3, <1>7, <1>8
<1>10. /\ conn' \in [Conn -> Task] /\ conn'[c] = t
       /\ \A b \in Conn : b # c => conn'[b] = conn[b]
  BY <1>1, <1>5, <1>6 DEF Typed
<1>11. Typed' /\ TasksHold'
  <2>1. Typed'
    BY <1>1, <1>2, <1>3, <1>9, <1>10 DEF Typed
  <2>2. TasksHold'
    BY <1>1, <1>3, <1>5, <1>10 DEF TasksHold
  <2> QED
    BY <2>1, <2>2
<1>12. EpochsHold'
  <2>1. \A e \in Device : live[e] # None => live[e].epoch \in 1 .. epochs
    BY <1>1 DEF EpochsHold
  <2>2. \A b \in Conn : conn[b].bound \in 0 .. epochs
    BY <1>1 DEF EpochsHold
  <2>3. new = epochs + 1
    BY DEF new
  <2>4. \A e \in Device : live'[e] # None => live'[e].epoch \in 1 .. new
    <3> SUFFICES ASSUME NEW e \in Device, live'[e] # None PROVE live'[e].epoch \in 1 .. new
      OBVIOUS
    <3>1. CASE e = d
      BY <1>3, <1>7, <1>9, <2>3, <3>1
    <3>2. CASE e # d
      BY <1>3, <1>9, <2>1, <2>3, <3>2
    <3> QED
      BY <3>1, <3>2
  <2>5. \A b \in Conn : conn'[b].bound \in 0 .. new
    <3> SUFFICES ASSUME NEW b \in Conn PROVE conn'[b].bound \in 0 .. new
      OBVIOUS
    <3>1. CASE b = c
      BY <1>3, <1>5, <1>10, <2>3, <3>1
    <3>2. CASE b # c
      BY <1>3, <1>10, <2>2, <2>3, <3>2
    <3> QED
      BY <3>1, <3>2
  <2>6. ASSUME NEW e \in Device, NEW b \in Conn, live'[e] # None, live'[e].epoch = conn'[b].bound
        PROVE  live'[e].conn = b
    <3>1. CASE e = d /\ b = c
      BY <1>7, <1>9, <3>1
    <3>2. CASE e = d /\ b # c
      <4>1. live'[e].epoch = epochs + 1 /\ conn'[b].bound \in 0 .. epochs
        BY <1>7, <1>9, <1>10, <2>2, <2>3, <3>2
      <4> QED
        BY <1>3, <2>6, <4>1
    <3>3. CASE e # d /\ b = c
      <4>1. live'[e].epoch \in 1 .. epochs /\ conn'[b].bound = epochs + 1
        BY <1>5, <1>9, <1>10, <2>1, <2>3, <2>6, <3>3
      <4> QED
        BY <1>3, <2>6, <4>1
    <3>4. CASE e # d /\ b # c
      <4>1. live'[e] = live[e] /\ conn'[b] = conn[b]
        BY <1>9, <1>10, <2>6, <3>4
      <4> QED
        BY <1>1, <2>6, <4>1 DEF EpochsHold
    <3> QED
      BY <3>1, <3>2, <3>3, <3>4
  <2> QED
    BY <1>2, <2>4, <2>5, <2>6 DEF EpochsHold
<1>13. store \in Store /\ store' \in Store /\ OwnCalls(store)
  BY <1>1, <1>4 DEF GoodStore
<1>14. InStore' \subseteq InStore /\ WaitingFor(d) \subseteq InStore /\ InStore' \cap WaitingFor(d) = {}
  <2>1. ASSUME NEW k \in InStore' PROVE k \in InStore /\ k \notin WaitingFor(d)
    <3>1. PICK e \in Device : \E x \in EntriesOf(store', e) : k = x.call
      BY <2>1 DEF InStore, Entries
    <3>2. PICK x \in EntriesOf(store', e) : k = x.call
      BY <3>1
    <3>3. x \in EntriesOf(store, e)
      BY <1>4 DEF Fewer
    <3>4. e # d
      BY <1>4, <3>2 DEF EntriesOf
    <3>5. k \notin WaitingFor(d)
      BY <1>3, <1>13, <3>2, <3>3, <3>4 DEF WaitingFor, OwnCalls
    <3> QED
      BY <3>2, <3>3, <3>5 DEF InStore, Entries
  <2>2. WaitingFor(d) \subseteq InStore
    BY <1>3 DEF WaitingFor, InStore, Entries
  <2> QED
    BY <2>1, <2>2
<1>15. Underway' = Underway
  BY <1>2 DEF Underway
<1>16. Draining(c)' \subseteq WaitingFor(d)
  BY <1>4, <1>5, <1>10 DEF Draining, WaitingFor
<1>17. \A b \in Conn : b # c => Draining(b)' = Draining(b)
  BY <1>10 DEF Draining
<1>18. PlacesHold'
  <2>1. \A b \in Conn : \A i, j \in 1 .. Len(conn'[b].queued) :
            conn'[b].queued[i].call = conn'[b].queued[j].call => i = j
    BY <1>1, <1>4, <1>5, <1>10 DEF PlacesHold
  <2>2. /\ InStore \cup Underway \cup handed \subseteq 1 .. called
        /\ InStore \cap (Underway \cup handed) = {}
        /\ Underway \cap handed = {}
        /\ \A k, l \in carried : k.call = l.call => k = l
        /\ \A b \in Conn : /\ Draining(b) \subseteq 1 .. called
                           /\ Draining(b) \cap (InStore \cup Underway \cup handed) = {}
        /\ \A b, e \in Conn : b # e => Draining(b) \cap Draining(e) = {}
    BY <1>1 DEF PlacesHold
  <2>3. \A b \in Conn : /\ Draining(b)' \subseteq 1 .. called
                        /\ Draining(b)' \cap (InStore' \cup Underway \cup handed) = {}
    <3> SUFFICES ASSUME NEW b \in Conn
                 PROVE  /\ Draining(b)' \subseteq 1 .. called
                        /\ Draining(b)' \cap (InStore' \cup Underway \cup handed) = {}
      OBVIOUS
    <3>1. CASE b = c
      BY <1>14, <1>16, <2>2, <3>1
    <3>2. CASE b # c
      BY <1>14, <1>17, <2>2, <3>2
    <3> QED
      BY <3>1, <3>2
  <2>4. \A b, e \in Conn : b # e => Draining(b)' \cap Draining(e)' = {}
    <3> SUFFICES ASSUME NEW b \in Conn, NEW e \in Conn, b # e
                 PROVE  Draining(b)' \cap Draining(e)' = {}
      OBVIOUS
    <3>1. CASE b = c
      BY <1>14, <1>16, <1>17, <2>2, <3>1
    <3>2. CASE e = c
      BY <1>14, <1>16, <1>17, <2>2, <3>2
    <3>3. CASE b # c /\ e # c
      BY <1>17, <2>2, <3>3
    <3> QED
      BY <3>1, <3>2, <3>3
  <2> QED
    BY <1>2, <1>14, <1>15, <2>1, <2>2, <2>3, <2>4 DEF PlacesHold
<1>19. InTime'
  BY <1>1, <1>4, <1>5, <1>10 DEF InTime
<1>20. Unstranded'
  <2> SUFFICES ASSUME NEW e \in Device, live'[e] # None PROVE store'.boxes[e] = <<>>
    BY DEF Unstranded
  <2>1. CASE e = d
    BY <1>4, <2>1
  <2>2. CASE e # d
    <3>1. store.boxes[e] = <<>>
      BY <1>1, <1>9, <2>2 DEF Unstranded
    <3> QED
      BY <1>4, <1>13, <3>1, BoxesEmpty DEF Fewer
  <2> QED
    BY <2>1, <2>2
<1> QED
  BY <1>4, <1>11, <1>12, <1>18, <1>19, <1>20 DEF Inductive

(* What a connection drains goes to its writer, all of it or its front.      *)
LEMMA DrainGood ==
    ASSUME Inductive, NEW c \in Conn, NEW t \in Task, NEW gone,
           UNCHANGED <<store, live, epochs, carried, called>>,
           conn' = [conn EXCEPT ![c] = t],
           t.bound \in {conn[c].bound, 0},
           t.phase # "closed" => t.device \in Device,
           t.phase = "draining" => t.queued # <<>>,
           gone \subseteq Draining(c), handed' = handed \cup gone,
           \A i \in 1 .. Len(t.queued) : /\ t.queued[i].call \in Draining(c) \ gone
                                         /\ t.queued[i].left > -2 * MaxLag,
           \A i, j \in 1 .. Len(t.queued) : t.queued[i].call = t.queued[j].call => i = j
    PROVE  Inductive'
<1>1. Typed /\ GoodStore(store) /\ TasksHold /\ EpochsHold /\ PlacesHold /\ InTime /\ Unstranded
  BY DEF Inductive
<1>2. /\ conn' \in [Conn -> Task] /\ conn'[c] = t
      /\ \A b \in Conn : b # c => conn'[b] = conn[b]
  BY <1>1 DEF Typed
<1>3. gone \subseteq Nat
  <2>1. Draining(c) \subseteq 1 .. called /\ called \in Nat
    BY <1>1 DEF PlacesHold, Typed
  <2> QED
    BY <2>1
<1>4. Typed' /\ TasksHold'
  <2>1. Typed'
    BY <1>1, <1>2, <1>3 DEF Typed
  <2>2. TasksHold'
    BY <1>1, <1>2 DEF TasksHold
  <2> QED
    BY <2>1, <2>2
<1>5. EpochsHold'
  <2>1. epochs \in Nat
    BY <1>1 DEF Typed
  <2>2. \A b \in Conn : conn'[b].bound \in {conn[b].bound, 0}
    BY <1>2
  <2>3. \A b \in Conn : conn'[b].bound \in 0 .. epochs
    BY <1>1, <2>1, <2>2 DEF EpochsHold
  <2>4. ASSUME NEW d \in Device, NEW b \in Conn, live[d] # None, live[d].epoch = conn'[b].bound
        PROVE  live[d].conn = b
    <3>1. live[d].epoch \in 1 .. epochs
      BY <1>1, <2>4 DEF EpochsHold
    <3>2. conn'[b].bound = conn[b].bound
      BY <2>1, <2>2, <2>4, <3>1
    <3> QED
      BY <1>1, <2>4, <3>2 DEF EpochsHold
  <2> QED
    BY <1>1, <2>3, <2>4 DEF EpochsHold
<1>6. InStore' = InStore /\ Underway' = Underway /\ GoodStore(store)' /\ Unstranded'
  BY <1>1 DEF InStore, Underway, Unstranded
<1>7. /\ Draining(c)' \subseteq Draining(c) \ gone
      /\ \A b \in Conn : b # c => Draining(b)' = Draining(b)
  <2>1. Draining(c)' = {t.queued[i].call : i \in 1 .. Len(t.queued)}
    BY <1>2 DEF Draining
  <2>2. Draining(c)' \subseteq Draining(c) \ gone
    BY <2>1
  <2>3. \A b \in Conn : b # c => Draining(b)' = Draining(b)
    BY <1>2 DEF Draining
  <2> QED
    BY <2>2, <2>3
<1>8. PlacesHold'
  <2>1. \A b \in Conn : \A i, j \in 1 .. Len(conn'[b].queued) :
            conn'[b].queued[i].call = conn'[b].queued[j].call => i = j
    BY <1>1, <1>2 DEF PlacesHold
  <2>2. /\ InStore \cup Underway \cup handed \subseteq 1 .. called
        /\ InStore \cap (Underway \cup handed) = {}
        /\ Underway \cap handed = {}
        /\ \A k, l \in carried : k.call = l.call => k = l
        /\ \A b \in Conn : /\ Draining(b) \subseteq 1 .. called
                           /\ Draining(b) \cap (InStore \cup Underway \cup handed) = {}
        /\ \A b, e \in Conn : b # e => Draining(b) \cap Draining(e) = {}
    BY <1>1 DEF PlacesHold
  <2>3. ASSUME NEW b \in Conn
        PROVE  /\ Draining(b)' \subseteq 1 .. called
               /\ Draining(b)' \cap (InStore \cup Underway \cup handed') = {}
    <3>1. CASE b = c
      BY <1>7, <2>2, <3>1
    <3>2. CASE b # c
      BY <1>7, <2>2, <3>2
    <3> QED
      BY <3>1, <3>2
  <2>4. ASSUME NEW b \in Conn, NEW e \in Conn, b # e
        PROVE  Draining(b)' \cap Draining(e)' = {}
    <3>1. Draining(b)' \subseteq Draining(b) /\ Draining(e)' \subseteq Draining(e)
      BY <1>7
    <3> QED
      BY <2>2, <2>4, <3>1
  <2>5. /\ InStore \cup Underway \cup handed' \subseteq 1 .. called
        /\ InStore \cap (Underway \cup handed') = {}
        /\ Underway \cap handed' = {}
    BY <2>2
  <2> QED
    BY <1>6, <2>1, <2>2, <2>3, <2>4, <2>5 DEF PlacesHold
<1>9. InTime'
  BY <1>1, <1>2 DEF InTime
<1> QED
  BY <1>4, <1>5, <1>6, <1>8, <1>9 DEF Inductive

LEMMA TailIs ==
    ASSUME NEW S, NEW q \in Seq(S), q # <<>>
    PROVE  /\ Len(q) \in Nat \ {0} /\ Head(q) = q[1]
           /\ Tail(q) \in Seq(S) /\ Len(Tail(q)) = Len(q) - 1
           /\ \A i \in 1 .. (Len(q) - 1) : Tail(q)[i] = q[i + 1]
  OBVIOUS

LEMMA TaskDrained ==
    ASSUME NEW x \in Task, NEW phase, NEW queued
    PROVE  [[x EXCEPT !.queued = queued] EXCEPT !.phase = phase] =
             [phase |-> phase, device |-> x.device, bound |-> x.bound, lag |-> x.lag, queued |-> queued]
<1>1. x = [phase |-> x.phase, device |-> x.device, bound |-> x.bound, lag |-> x.lag, queued |-> x.queued]
  BY DEF Task
<1>2. PICK p, d, b, l, q : x = [phase |-> p, device |-> d, bound |-> b, lag |-> l, queued |-> q]
  BY <1>1
<1> DEFINE y == [phase |-> p, device |-> d, bound |-> b, lag |-> l, queued |-> queued]
<1>3. [x EXCEPT !.queued = queued] = y
  BY <1>2
<1>4. [y EXCEPT !.phase = phase] =
        [phase |-> phase, device |-> x.device, bound |-> x.bound, lag |-> x.lag, queued |-> queued]
  BY <1>2
<1> HIDE DEF y
<1> QED
  BY <1>3, <1>4, Zenon

LEMMA DrainOneGood ==
    ASSUME Inductive, NEW c \in Conn, DrainOne(c)
    PROVE  Inductive'
<1> DEFINE q == conn[c].queued
           phase == IF Len(q) = 1 THEN "idle" ELSE conn[c].phase
           t == [phase |-> phase, device |-> conn[c].device, bound |-> conn[c].bound,
                 lag |-> conn[c].lag, queued |-> Tail(q)]
<1>1. /\ conn[c].phase = "draining" /\ handed' = handed \cup {Head(q).call}
      /\ conn' = [conn EXCEPT ![c].queued = Tail(@),
                              ![c].phase = IF Len(conn[c].queued) = 1 THEN "idle" ELSE @]
      /\ UNCHANGED <<store, live, epochs, carried, called>>
  BY DEF DrainOne
<1>2. Typed /\ TasksHold /\ PlacesHold /\ InTime
  BY DEF Inductive
<1>3. /\ conn[c] \in Task /\ conn \in [Conn -> Task]
      /\ q \in Seq(Entry) /\ q # <<>> /\ conn[c].device \in Device
  BY <1>1, <1>2, TaskIs DEF TasksHold, Typed
<1>4. conn' = [conn EXCEPT ![c] = t]
  <2>1. conn' = [conn EXCEPT ![c] = [[conn[c] EXCEPT !.queued = Tail(q)] EXCEPT !.phase = phase]]
    BY <1>1, <1>3
  <2>2. [[conn[c] EXCEPT !.queued = Tail(q)] EXCEPT !.phase = phase] = t
    <3> HIDE DEF phase
    <3> QED
      BY <1>3, TaskDrained
  <2> QED
    BY <2>1, <2>2
<1>5. phase \in Phases
  BY <1>1 DEF Phases
<1>6. /\ Len(q) \in Nat \ {0} /\ Head(q) = q[1]
      /\ Tail(q) \in Seq(Entry) /\ Len(Tail(q)) = Len(q) - 1
      /\ \A i \in 1 .. (Len(q) - 1) : Tail(q)[i] = q[i + 1]
  BY <1>3, TailIs
<1>7. phase = "draining" => Tail(q) # <<>>
  <2>1. CASE Len(q) = 1
    BY <2>1
  <2>2. CASE Len(q) # 1
    <3> DEFINE r == Tail(q)
    <3>1. Len(r) # 0
      BY <1>6, <2>2
    <3> HIDE DEF r
    <3>2. r # <<>>
      BY <3>1
    <3> QED
      BY <3>2 DEF r
  <2> QED
    BY <2>1, <2>2
<1>8. /\ t \in Task /\ t.queued = Tail(q) /\ t.bound = conn[c].bound
      /\ t.device \in Device /\ t.phase = phase
  <2>1. /\ conn[c].device \in Device \cup {None} /\ conn[c].bound \in Nat /\ conn[c].lag \in Lag
    BY <1>2, TaskIs
  <2> HIDE DEF phase
  <2> QED
    BY <1>3, <1>5, <1>6, <2>1, TaskMade
<1>9. /\ Draining(c) = {q[i].call : i \in 1 .. Len(q)}
      /\ \A i, j \in 1 .. Len(q) : q[i].call = q[j].call => i = j
      /\ \A i \in 1 .. Len(q) : q[i].left > -2 * MaxLag
  BY <1>2 DEF Draining, PlacesHold, InTime
<1> HIDE DEF q, phase, t
<1> DEFINE r == Tail(q)
<1> HIDE DEF r
<1>10. t.queued = r /\ Len(r) = Len(q) - 1 /\ Len(q) \in Nat \ {0}
       /\ \A i \in 1 .. (Len(q) - 1) : r[i] = q[i + 1]
  BY <1>6, <1>8 DEF r
<1>11. {q[1].call} \subseteq Draining(c)
  BY <1>9, <1>10
<1>12. \A i \in 1 .. Len(r) : r[i].call \in Draining(c) \ {q[1].call} /\ r[i].left > -2 * MaxLag
  <2> SUFFICES ASSUME NEW i \in 1 .. Len(r)
               PROVE  r[i].call \in Draining(c) \ {q[1].call} /\ r[i].left > -2 * MaxLag
    OBVIOUS
  <2>1. i + 1 \in 1 .. Len(q) /\ 1 \in 1 .. Len(q) /\ i + 1 # 1 /\ r[i] = q[i + 1]
    BY <1>10
  <2> QED
    BY <1>9, <2>1
<1>13. \A i, j \in 1 .. Len(r) : r[i].call = r[j].call => i = j
  <2> SUFFICES ASSUME NEW i \in 1 .. Len(r), NEW j \in 1 .. Len(r), r[i].call = r[j].call
               PROVE  i = j
    OBVIOUS
  <2>1. /\ i + 1 \in 1 .. Len(q) /\ r[i] = q[i + 1]
        /\ j + 1 \in 1 .. Len(q) /\ r[j] = q[j + 1]
    BY <1>10
  <2>2. i + 1 = j + 1
    BY <1>9, <2>1
  <2> QED
    BY <2>2
<1>14. handed' = handed \cup {q[1].call}
  BY <1>1, <1>6 DEF q
<1>15. t.phase = "draining" => r # <<>>
  BY <1>7, <1>8 DEF r
<1>16. /\ t.bound \in {conn[c].bound, 0}
       /\ t.phase # "closed" => t.device \in Device
       /\ t.phase = "draining" => t.queued # <<>>
  BY <1>8, <1>10, <1>15
<1>17. /\ \A i \in 1 .. Len(t.queued) : /\ t.queued[i].call \in Draining(c) \ {q[1].call}
                                        /\ t.queued[i].left > -2 * MaxLag
       /\ \A i, j \in 1 .. Len(t.queued) : t.queued[i].call = t.queued[j].call => i = j
  BY <1>10, <1>12, <1>13
<1>18. t \in Task
  BY <1>8
<1> DEFINE gone == {q[1].call}
<1> HIDE DEF gone
<1>19. /\ gone \subseteq Draining(c) /\ handed' = handed \cup gone
       /\ \A i \in 1 .. Len(t.queued) : /\ t.queued[i].call \in Draining(c) \ gone
                                        /\ t.queued[i].left > -2 * MaxLag
  BY <1>11, <1>14, <1>17 DEF gone
<1> QED
  BY <1>1, <1>4, <1>16, <1>17, <1>18, <1>19, DrainGood

LEMMA DrainFailsGood ==
    ASSUME Inductive, NEW c \in Conn, DrainFails(c)
    PROVE  Inductive'
<1>1. /\ conn[c].phase = "draining" /\ Leaves(c)
      /\ handed' = handed \cup {conn[c].queued[i].call : i \in DOMAIN conn[c].queued}
      /\ UNCHANGED <<store, live, epochs, carried, called>>
  BY DEF DrainFails
<1>2. PICK t \in Task :
        /\ conn' = [conn EXCEPT ![c] = t]
        /\ t.queued = <<>> /\ t.bound \in {conn[c].bound, 0}
        /\ t.phase # "closed" => t.device \in Device
        /\ t.phase # "draining"
  BY <1>1, LeavesIs
<1>3. DOMAIN conn[c].queued = 1 .. Len(conn[c].queued)
  BY TaskIs DEF Inductive
<1>4. handed' = handed \cup Draining(c)
  BY <1>1, <1>3 DEF Draining
<1>5. Len(t.queued) = 0
  BY <1>2
<1>6. /\ \A i \in 1 .. Len(t.queued) : /\ t.queued[i].call \in Draining(c) \ Draining(c)
                                       /\ t.queued[i].left > -2 * MaxLag
      /\ \A i, j \in 1 .. Len(t.queued) : t.queued[i].call = t.queued[j].call => i = j
  BY <1>5
<1> QED
  BY <1>1, <1>2, <1>4, <1>6, DrainGood

(* A call is routed: to a connection, or into the mailbox.                   *)
LEMMA LiveSwept ==
    ASSUME Inductive, NEW lag \in Lag, live' = SweepLive(lag), UNCHANGED <<epochs, conn>>
    PROVE  /\ live' \in [Device -> {None} \cup Attachment]
           /\ \A d \in Device : live'[d] # None => live'[d] = live[d]
           /\ TasksHold' /\ EpochsHold' /\ InTime'
<1>1. Typed /\ TasksHold /\ EpochsHold /\ InTime
  BY DEF Inductive
<1>2. /\ live' \in [Device -> {None} \cup Attachment]
      /\ \A d \in Device : live'[d] # None => live'[d] = live[d]
  BY <1>1, SweptIs
<1> QED
  BY <1>1, <1>2 DEF TasksHold, EpochsHold, InTime

LEMMA CallLiveGood ==
    ASSUME Inductive, NEW d \in Device, NEW lag \in Lag, CallLive(d, lag)
    PROVE  Inductive'
<1> DEFINE k == [call |-> called + 1, to |-> SweepLive(lag)[d].conn]
<1>1. /\ SweepLive(lag)[d] # None /\ live' = SweepLive(lag)
      /\ called' = called + 1 /\ carried' = carried \cup {k}
      /\ UNCHANGED <<store, epochs, conn, handed>>
  BY DEF CallLive
<1>2. Typed /\ GoodStore(store) /\ PlacesHold /\ Unstranded
  BY DEF Inductive
<1>3. /\ live' \in [Device -> {None} \cup Attachment]
      /\ \A e \in Device : live'[e] # None => live'[e] = live[e]
      /\ TasksHold' /\ EpochsHold' /\ InTime'
  BY <1>1, LiveSwept
<1>4. k.call = called + 1 /\ k \in [call : Nat, to : Conn] /\ called \in Nat
  <2>1. SweepLive(lag)[d] \in Attachment
    BY <1>1, <1>3
  <2> QED
    BY <1>2, <2>1 DEF Attachment, Typed
<1> HIDE DEF k
<1>5. Typed'
  BY <1>1, <1>2, <1>3, <1>4 DEF Typed
<1>6. InStore' = InStore /\ Underway' = Underway \cup {called + 1}
      /\ \A c \in Conn : Draining(c)' = Draining(c)
  BY <1>1, <1>4 DEF InStore, Underway, Draining
<1>7. called + 1 \notin 1 .. called /\ 1 .. called' = 1 .. called \cup {called + 1}
  BY <1>1, <1>4
<1>8. PlacesHold'
  <2>1. /\ InStore \cup Underway \cup handed \subseteq 1 .. called
        /\ InStore \cap (Underway \cup handed) = {}
        /\ Underway \cap handed = {}
        /\ \A l, m \in carried : l.call = m.call => l = m
        /\ \A c \in Conn : /\ Draining(c) \subseteq 1 .. called
                           /\ Draining(c) \cap (InStore \cup Underway \cup handed) = {}
        /\ \A b, c \in Conn : b # c => Draining(b) \cap Draining(c) = {}
    BY <1>2 DEF PlacesHold
  <2>2. \A l, m \in carried' : l.call = m.call => l = m
    <3>1. \A l \in carried : l.call \in 1 .. called
      BY <2>1 DEF Underway
    <3> QED
      BY <1>1, <1>4, <1>7, <2>1, <3>1
  <2>3. \A c \in Conn : \A i, j \in 1 .. Len(conn[c].queued) :
            conn[c].queued[i].call = conn[c].queued[j].call => i = j
    BY <1>2 DEF PlacesHold
  <2>4. /\ InStore' \cup Underway' \cup handed \subseteq 1 .. called'
        /\ InStore' \cap (Underway' \cup handed) = {}
        /\ Underway' \cap handed = {}
    BY <1>6, <1>7, <2>1
  <2>5. \A c \in Conn : /\ Draining(c)' \subseteq 1 .. called'
                        /\ Draining(c)' \cap (InStore' \cup Underway' \cup handed) = {}
    BY <1>6, <1>7, <2>1
  <2>6. \A b, c \in Conn : b # c => Draining(b)' \cap Draining(c)' = {}
    BY <1>6, <2>1
  <2> QED
    BY <1>1, <2>2, <2>3, <2>4, <2>5, <2>6 DEF PlacesHold
<1>9. Unstranded'
  BY <1>1, <1>2, <1>3 DEF Unstranded
<1>10. GoodStore(store)'
  BY <1>1, <1>2
<1> QED
  BY <1>3, <1>5, <1>8, <1>9, <1>10 DEF Inductive

LEMMA CallMailboxedGood ==
    ASSUME Inductive, NEW d \in Device, NEW lag \in Lag, NEW size \in Sizes, CallMailboxed(d, size, lag)
    PROVE  Inductive'
<1>1. /\ SweepLive(lag)[d] = None /\ live' = SweepLive(lag)
      /\ called' = called + 1 /\ store' = Push(store, d, called + 1, size, lag)
      /\ UNCHANGED <<epochs, conn, carried, handed>>
  BY DEF CallMailboxed
<1>2. Typed /\ GoodStore(store) /\ PlacesHold /\ Unstranded /\ called \in Nat /\ size \in Nat
  BY RendezvousConstants DEF Inductive, Typed
<1>3. /\ live' \in [Device -> {None} \cup Attachment]
      /\ \A e \in Device : live'[e] # None => live'[e] = live[e]
      /\ TasksHold' /\ EpochsHold' /\ InTime'
  BY <1>1, LiveSwept
<1>4. \A e \in Entries(store) : e.call < called + 1
  <2>1. \A e \in Entries(store) : e.call \in 1 .. called
    BY <1>2 DEF PlacesHold, InStore
  <2> QED
    BY <1>2, <2>1
<1>5. /\ GoodStore(store')
      /\ \A e \in Device : \A x \in EntriesOf(store', e) :
            x \in EntriesOf(store, e) \/ (e = d /\ x.call = called + 1)
      /\ \A e \in Device \ {d} : Len(store'.boxes[e]) <= Len(store.boxes[e])
  BY <1>1, <1>2, <1>4, PushGood
<1>6. Typed'
  BY <1>1, <1>2, <1>3 DEF Typed
<1>7. InStore' \subseteq InStore \cup {called + 1}
  BY <1>5 DEF InStore, Entries
<1>8. Underway' = Underway /\ \A c \in Conn : Draining(c)' = Draining(c)
  BY <1>1 DEF Underway, Draining
<1>9. called + 1 \notin 1 .. called /\ 1 .. called' = 1 .. called \cup {called + 1}
  BY <1>1, <1>2
<1>10. PlacesHold'
  <2>1. /\ InStore \cup Underway \cup handed \subseteq 1 .. called
        /\ InStore \cap (Underway \cup handed) = {}
        /\ Underway \cap handed = {}
        /\ \A l, m \in carried : l.call = m.call => l = m
        /\ \A c \in Conn : /\ Draining(c) \subseteq 1 .. called
                           /\ Draining(c) \cap (InStore \cup Underway \cup handed) = {}
        /\ \A b, c \in Conn : b # c => Draining(b) \cap Draining(c) = {}
    BY <1>2 DEF PlacesHold
  <2>2. \A c \in Conn : \A i, j \in 1 .. Len(conn[c].queued) :
            conn[c].queued[i].call = conn[c].queued[j].call => i = j
    BY <1>2 DEF PlacesHold
  <2>3. /\ InStore' \cup Underway' \cup handed \subseteq 1 .. called'
        /\ InStore' \cap (Underway' \cup handed) = {}
        /\ Underway' \cap handed = {}
    BY <1>7, <1>8, <1>9, <2>1
  <2>4. \A c \in Conn : /\ Draining(c)' \subseteq 1 .. called'
                        /\ Draining(c)' \cap (InStore' \cup Underway' \cup handed) = {}
    BY <1>7, <1>8, <1>9, <2>1
  <2>5. \A b, c \in Conn : b # c => Draining(b)' \cap Draining(c)' = {}
    BY <1>8, <2>1
  <2> QED
    BY <1>1, <2>1, <2>2, <2>3, <2>4, <2>5 DEF PlacesHold
<1>11. Unstranded'
  <2> SUFFICES ASSUME NEW e \in Device, live'[e] # None PROVE store'.boxes[e] = <<>>
    BY DEF Unstranded
  <2>1. e # d
    BY <1>1
  <2>2. store.boxes[e] = <<>>
    BY <1>2, <1>3 DEF Unstranded
  <2>3. store \in Store /\ store' \in Store
    BY <1>2, <1>5 DEF GoodStore
  <2> QED
    BY <1>5, <2>1, <2>2, <2>3, BoxesEmpty
<1> QED
  BY <1>3, <1>5, <1>6, <1>10, <1>11 DEF Inductive

LEMMA SendLiveGood ==
    ASSUME Inductive, NEW k \in carried, SendLive(k)
    PROVE  Inductive'
<1>1. /\ carried' = carried \ {k} /\ handed' = handed \cup {k.call}
      /\ UNCHANGED <<store, live, epochs, conn, called>>
  BY DEF SendLive
<1>2. Typed /\ GoodStore(store) /\ TasksHold /\ EpochsHold /\ PlacesHold /\ InTime /\ Unstranded
  BY DEF Inductive
<1>3. /\ InStore \cup Underway \cup handed \subseteq 1 .. called
      /\ InStore \cap (Underway \cup handed) = {}
      /\ Underway \cap handed = {}
      /\ \A l, m \in carried : l.call = m.call => l = m
      /\ \A c \in Conn : /\ Draining(c) \subseteq 1 .. called
                         /\ Draining(c) \cap (InStore \cup Underway \cup handed) = {}
      /\ \A b, c \in Conn : b # c => Draining(b) \cap Draining(c) = {}
  BY <1>2 DEF PlacesHold
<1>4. k.call \in Underway /\ Underway' = Underway \ {k.call} /\ InStore' = InStore
  BY <1>1, <1>3 DEF Underway, InStore
<1>5. \A c \in Conn : Draining(c)' = Draining(c)
  BY <1>1 DEF Draining
<1>6. PlacesHold'
  <2>1. \A c \in Conn : \A i, j \in 1 .. Len(conn[c].queued) :
            conn[c].queued[i].call = conn[c].queued[j].call => i = j
    BY <1>2 DEF PlacesHold
  <2>2. /\ InStore' \cup Underway' \cup handed' \subseteq 1 .. called
        /\ InStore' \cap (Underway' \cup handed') = {}
        /\ Underway' \cap handed' = {}
    BY <1>1, <1>3, <1>4
  <2>3. \A c \in Conn : /\ Draining(c)' \subseteq 1 .. called
                        /\ Draining(c)' \cap (InStore' \cup Underway' \cup handed') = {}
    BY <1>1, <1>3, <1>4, <1>5
  <2>4. \A b, c \in Conn : b # c => Draining(b)' \cap Draining(c)' = {}
    BY <1>3, <1>5
  <2>5. \A l, m \in carried' : l.call = m.call => l = m
    BY <1>1, <1>3
  <2> QED
    BY <1>1, <2>1, <2>2, <2>3, <2>4, <2>5 DEF PlacesHold
<1>7. Typed'
  <2>1. k.call \in Nat
    BY <1>2 DEF Typed
  <2> QED
    BY <1>1, <1>2, <2>1 DEF Typed
<1>8. GoodStore(store)' /\ TasksHold' /\ EpochsHold' /\ InTime' /\ Unstranded'
  BY <1>1, <1>2 DEF TasksHold, EpochsHold, InTime, Unstranded
<1> QED
  BY <1>6, <1>7, <1>8 DEF Inductive
----------------------------------------------------------------------------
LEMMA InitGood == Init => Inductive
<1> SUFFICES ASSUME Init PROVE Inductive
  OBVIOUS
<1>1. /\ store = EmptyStore /\ live = [d \in Device |-> None] /\ epochs = 0
      /\ conn = [c \in Conn |-> Closed] /\ carried = {} /\ called = 0 /\ handed = {}
  BY DEF Init
<1>2. Typed
  BY <1>1, ClosedIs DEF Typed
<1>3. GoodStore(store) /\ Entries(store) = {}
  BY <1>1, EmptyGood DEF Entries
<1>4. \A c \in Conn : Len(conn[c].queued) = 0
  BY <1>1, ClosedIs
<1>5. TasksHold /\ EpochsHold
  BY <1>1, ClosedIs DEF TasksHold, EpochsHold
<1>6. InStore = {} /\ Underway = {} /\ \A c \in Conn : Draining(c) = {}
  BY <1>1, <1>3, <1>4 DEF InStore, Underway, Draining
<1>7. PlacesHold
  BY <1>1, <1>4, <1>6 DEF PlacesHold
<1>8. InTime /\ Unstranded
  BY <1>1, <1>4 DEF InTime, Unstranded
<1> QED
  BY <1>2, <1>3, <1>5, <1>7, <1>8 DEF Inductive

LEMMA StepGood == Inductive /\ [Next]_vars => Inductive'
<1> SUFFICES ASSUME Inductive, [Next]_vars PROVE Inductive'
  OBVIOUS
<1>1. ASSUME NEW c \in Conn,
             \/ Connect(c) \/ Attach(c) \/ ReleaseOwn(c)
             \/ ClaimAgain(c) \/ ClaimFirst(c) \/ ClaimRefused(c)
             \/ AttachBound(c) \/ AttachRefused(c)
             \/ DrainOne(c) \/ DrainFails(c)
             \/ Close(c) \/ Detach(c) \/ Release(c)
      PROVE  Inductive'
  BY <1>1, ConnectGood, AttachGood, ClaimsGood, AttachBoundGood, AttachRefusedGood, DrainOneGood,
     DrainFailsGood, CloseGood, DetachGood, ReleaseGood
<1>2. ASSUME NEW d \in Device, NEW lag \in Lag,
             CallLive(d, lag) \/ \E size \in Sizes : CallMailboxed(d, size, lag)
      PROVE  Inductive'
  BY <1>2, CallLiveGood, CallMailboxedGood
<1>3. ASSUME NEW k \in carried, SendLive(k) PROVE Inductive'
  BY <1>3, SendLiveGood
<1>4. ASSUME NEW lag \in Lag, Sweeper(lag) PROVE Inductive'
  BY <1>4, SweeperGood
<1>5. CASE Tick
  BY <1>5, TickGood
<1>6. CASE UNCHANGED vars
  <2>1. UNCHANGED <<store, live, epochs, conn, carried, called, handed>>
    BY <1>6 DEF vars
  <2>2. Typed /\ GoodStore(store) /\ TasksHold /\ EpochsHold /\ PlacesHold /\ InTime /\ Unstranded
    BY DEF Inductive
  <2>3. Typed' /\ GoodStore(store)' /\ TasksHold'
    BY <2>1, <2>2 DEF Typed, TasksHold
  <2>4. EpochsHold' /\ InTime' /\ Unstranded'
    BY <2>1, <2>2 DEF EpochsHold, InTime, Unstranded
  <2>5. InStore' = InStore /\ Underway' = Underway /\ \A c \in Conn : Draining(c)' = Draining(c)
    BY <2>1 DEF InStore, Underway, Draining
  <2>6. PlacesHold'
    BY <2>1, <2>2, <2>5 DEF PlacesHold
  <2> QED
    BY <2>3, <2>4, <2>6 DEF Inductive
<1> QED
  BY <1>1, <1>2, <1>3, <1>4, <1>5, <1>6 DEF Next

(* The router's state stays well formed: every queue, attachment, connection *)
(* task and CALL in its range, the mailbox good, calls in one place each,    *)
(* epochs given out once (Router in server.rs, mailbox.rs and attach.rs).    *)
THEOREM RouterHoldsAlways == Spec => []Inductive
  BY InitGood, StepGood, PTL DEF Spec

(* The queues, the index and the byte count of the mailbox tell of the same  *)
(* CALLs, in order and under their ceilings, after any pushes, sweeps,       *)
(* evictions and takes (mailbox.rs).                                         *)
THEOREM MailboxAgreesAlways == Spec => []MailboxAgrees
<1>1. Inductive => MailboxAgrees
  BY GoodAgrees DEF Inductive, MailboxAgrees
<1> QED
  BY <1>1, RouterHoldsAlways, PTL

(* A CALL leaves the mailbox for a connection no later after its TTL than    *)
(* two waits for a lock (mailbox.rs sweep and take).                         *)
THEOREM NeverLateAlways == Spec => []NeverLate
<1>1. Inductive => NeverLate
  <2> SUFFICES ASSUME Inductive, NEW c \in Conn, NEW i \in DOMAIN conn[c].queued
               PROVE  conn[c].queued[i].left > -2 * MaxLag
    BY DEF NeverLate
  <2>1. DOMAIN conn[c].queued = 1 .. Len(conn[c].queued)
    BY TaskIs DEF Inductive
  <2> QED
    BY <2>1 DEF Inductive, InTime
<1> QED
  BY <1>1, RouterHoldsAlways, PTL

(* No CALL waits in the mailbox of a device that is attached (the ATTACH and *)
(* CALL handlers of server.rs).                                              *)
THEOREM NothingStrandedAlways == Spec => []NothingStranded
<1>1. Inductive => NothingStranded
  BY DEF Inductive, Unstranded, NothingStranded, Attached
<1> QED
  BY <1>1, RouterHoldsAlways, PTL

LEMMA CallsCounted ==
    ASSUME NEW m \in Nat, NEW q, \A i, j \in 1 .. m : q[i].call = q[j].call => i = j
    PROVE  Cardinality({q[i].call : i \in 1 .. m}) = m
<1> DEFINE T == {q[i].call : i \in 1 .. m}
           f == [i \in 1 .. m |-> q[i].call]
<1>1. f \in [1 .. m -> T] /\ \A i \in 1 .. m : f[i] = q[i].call
  OBVIOUS
<1>2. \A t \in T : \E i \in 1 .. m : f[i] = t
  OBVIOUS
<1>3. \A i, j \in 1 .. m : f[i] = f[j] => i = j
  BY <1>1
<1> HIDE DEF f, T
<1>4. f \in Bijection(1 .. m, T)
  BY <1>1, <1>2, <1>3 DEF Bijection, Injection, Surjection, IsInjective
<1>5. ExistsBijection(1 .. m, T)
  BY <1>4 DEF ExistsBijection
<1>6. IsFiniteSet(1 .. m) /\ Cardinality(1 .. m) = m
  <2>1. 1 \in Int /\ m \in Int /\ (IF 1 > m THEN 0 ELSE m - 1 + 1) = m
    OBVIOUS
  <2> QED
    BY <2>1, FS_Interval
<1>7. Cardinality(T) = Cardinality(1 .. m)
  BY <1>5, <1>6, FS_Bijection
<1> QED
  BY <1>6, <1>7 DEF T

(* N-9, at most once: a CALL is in one place only, the mailbox, the drain of *)
(* one connection, on its way to one, or with a writer (mailbox.rs take, and *)
(* the ATTACH and CALL handlers of server.rs).                               *)
THEOREM OnePlaceAlways == Spec => []OnePlace
<1>1. Inductive => OnePlace
  <2> SUFFICES ASSUME Inductive PROVE OnePlace
    OBVIOUS
  <2> DEFINE waiting(d)  == {e.call : e \in EntriesOf(store, d)}
             mailboxed   == UNION {waiting(d) : d \in Device}
             draining(c) == {conn[c].queued[i].call : i \in DOMAIN conn[c].queued}
             underway    == {k.call : k \in carried}
  <2>1. /\ InStore \cap (Underway \cup handed) = {}
        /\ Underway \cap handed = {}
        /\ \A c \in Conn :
             /\ Draining(c) \cap (InStore \cup Underway \cup handed) = {}
             /\ \A i, j \in 1 .. Len(conn[c].queued) :
                   conn[c].queued[i].call = conn[c].queued[j].call => i = j
        /\ \A b, c \in Conn : b # c => Draining(b) \cap Draining(c) = {}
    BY DEF Inductive, PlacesHold
  <2>2. OwnCalls(store)
    BY DEF Inductive, GoodStore
  <2>3. mailboxed = InStore
    BY DEF InStore, Entries
  <2>4. ASSUME NEW c \in Conn
        PROVE  draining(c) = Draining(c) /\ Cardinality(draining(c)) = Len(conn[c].queued)
    <3>1. DOMAIN conn[c].queued = 1 .. Len(conn[c].queued) /\ Len(conn[c].queued) \in Nat
      BY TaskIs DEF Inductive
    <3>2. draining(c) = Draining(c)
      BY <3>1 DEF Draining
    <3>3. Cardinality(Draining(c)) = Len(conn[c].queued)
      <4> DEFINE q == conn[c].queued
                 m == Len(q)
      <4>1. m \in Nat /\ \A i, j \in 1 .. m : q[i].call = q[j].call => i = j
        BY <2>1, <3>1
      <4>2. Draining(c) = {q[i].call : i \in 1 .. m}
        BY DEF Draining
      <4> HIDE DEF q, m
      <4>3. Cardinality({q[i].call : i \in 1 .. m}) = m
        BY <4>1, CallsCounted
      <4> QED
        BY <4>2, <4>3 DEF m, q
    <3> QED
      BY <3>2, <3>3
  <2>5. underway = Underway
    BY DEF Underway
  <2>6. \A d, e \in Device : d # e => waiting(d) \cap waiting(e) = {}
    BY <2>2 DEF OwnCalls
  <2> HIDE DEF waiting, mailboxed, draining, underway
  <2>7. /\ \A d, e \in Device : d # e => waiting(d) \cap waiting(e) = {}
        /\ \A b, c \in Conn : b # c => draining(b) \cap draining(c) = {}
        /\ \A c \in Conn :
              /\ Cardinality(draining(c)) = Len(conn[c].queued)
              /\ draining(c) \cap (mailboxed \cup underway \cup handed) = {}
        /\ mailboxed \cap (underway \cup handed) = {}
        /\ underway \cap handed = {}
    <3>1. \A b, c \in Conn : b # c => draining(b) \cap draining(c) = {}
      BY <2>1, <2>4
    <3>2. \A c \in Conn : draining(c) \cap (mailboxed \cup underway \cup handed) = {}
      BY <2>1, <2>3, <2>4, <2>5
    <3>3. mailboxed \cap (underway \cup handed) = {} /\ underway \cap handed = {}
      BY <2>1, <2>3, <2>5
    <3> QED
      BY <2>4, <2>6, <3>1, <3>2, <3>3
  <2> QED
    BY <2>7 DEF OnePlace, waiting, mailboxed, draining, underway
<1> QED
  BY <1>1, RouterHoldsAlways, PTL

(* What a step may do to the attachment of a device.                         *)
Stands(d) ==
    \/ live'[d] = live[d]
    \/ live'[d] = None /\ live[d].left <= 0
    \/ live'[d] # None /\ live'[d].conn = live[d].conn /\ live'[d].epoch = live[d].epoch
    \/ live'[d] # None /\ live'[d].epoch > live[d].epoch
    \/ conn[live[d].conn].phase = "detaching"

LEMMA SweepStands ==
    ASSUME Inductive, NEW lag \in Lag, live' = SweepLive(lag), NEW d \in Device
    PROVE  Stands(d)
  BY SweptIs DEF Inductive, Stands

LEMMA StepStands ==
    ASSUME Inductive, [Next]_vars, NEW d \in Device, live[d] # None
    PROVE  Stands(d)
<1>1. Typed /\ TasksHold /\ EpochsHold
  BY DEF Inductive
<1>2. CASE UNCHANGED live
  BY <1>2 DEF Stands
<1>3. ASSUME NEW c \in Conn, AttachBound(c)
      PROVE  Stands(d)
  <2>1. /\ conn[c].phase = "attaching" /\ conn[c].device \in Device /\ conn[c].lag \in Lag
        /\ epochs \in Nat
    BY <1>1, <1>3, TaskIs DEF AttachBound, TasksHold, Typed
  <2>2. live' = [SweepLive(conn[c].lag) EXCEPT ![conn[c].device] =
                    [conn |-> c, epoch |-> epochs + 1, left |-> AttachTtl - conn[c].lag]]
    BY <1>3 DEF AttachBound
  <2>3. SweepLive(conn[c].lag) \in [Device -> {None} \cup Attachment]
    BY <1>1, <2>1, SweptIs
  <2>4. CASE d = conn[c].device
    <3>1. live'[d].epoch = epochs + 1 /\ live'[d] = [conn |-> c, epoch |-> epochs + 1, left |-> AttachTtl - conn[c].lag]
      BY <2>2, <2>3, <2>4
    <3>2. live[d].epoch \in 1 .. epochs
      BY <1>1 DEF EpochsHold
    <3>3. live'[d] \in Attachment
      <4>1. AttachTtl \in Int /\ conn[c].lag \in Int
        BY <2>1, RendezvousConstants, Bounds DEF Lag
      <4> QED
        BY <2>1, <3>1, <4>1 DEF Attachment
    <3>4. live'[d] # None
      BY <3>3, NoAttachment
    <3> QED
      BY <2>1, <3>1, <3>2, <3>4 DEF Stands
  <2>5. CASE d # conn[c].device
    <3>1. live'[d] = SweepLive(conn[c].lag)[d]
      BY <2>2, <2>3, <2>5
    <3> QED
      BY <1>1, <2>1, <3>1, SweptIs DEF Stands
  <2> QED
    BY <2>4, <2>5
<1>4. ASSUME NEW c \in Conn, AttachRefused(c)
      PROVE  Stands(d)
  <2>1. conn[c].lag \in Lag /\ live' = SweepLive(conn[c].lag)
    BY <1>1, <1>4, TaskIs DEF AttachRefused
  <2> QED
    BY <2>1, SweepStands
<1>5. ASSUME NEW c \in Conn, Detach(c)
      PROVE  Stands(d)
  <2> DEFINE e == conn[c].device
  <2>1. /\ conn[c].phase = "detaching"
        /\ live' = IF live[e] # None /\ live[e].epoch = conn[c].bound
                   THEN [live EXCEPT ![e] = None] ELSE live
    BY <1>5 DEF Detach
  <2>2. CASE d = e /\ live[e].epoch = conn[c].bound
    <3>1. live[d].conn = c
      BY <1>1, <2>2 DEF EpochsHold
    <3> QED
      BY <2>1, <3>1 DEF Stands
  <2>3. CASE ~(d = e /\ live[e].epoch = conn[c].bound)
    <3>1. live'[d] = live[d]
      BY <1>1, <2>1, <2>3 DEF Typed
    <3> QED
      BY <3>1 DEF Stands
  <2> QED
    BY <2>2, <2>3
<1>6. ASSUME NEW e \in Device, NEW lag \in Lag,
             CallLive(e, lag) \/ \E size \in Sizes : CallMailboxed(e, size, lag)
      PROVE  Stands(d)
  <2>1. live' = SweepLive(lag)
    BY <1>6 DEF CallLive, CallMailboxed
  <2> QED
    BY <2>1, SweepStands
<1>7. ASSUME NEW lag \in Lag, Sweeper(lag)
      PROVE  Stands(d)
  <2>1. live' = SweepLive(lag)
    BY <1>7 DEF Sweeper
  <2> QED
    BY <2>1, SweepStands
<1>8. CASE Tick
  <2>1. live'[d] = [live[d] EXCEPT !.left = Sooner(live[d].left)]
    BY <1>8 DEF Tick
  <2>2. live[d] \in Attachment
    BY <1>1 DEF Typed
  <2>3. live'[d] \in Attachment /\ live'[d].conn = live[d].conn /\ live'[d].epoch = live[d].epoch
    <3>1. live[d].left \in Int /\ MaxLag \in Int
      BY <2>2, Bounds DEF Attachment
    <3> DEFINE left == Sooner(live[d].left)
    <3>2. left \in Int
      BY <3>1 DEF Sooner
    <3> HIDE DEF left
    <3>3. live'[d] = [live[d] EXCEPT !.left = left]
      BY <2>1 DEF left
    <3> QED
      BY <2>2, <3>2, <3>3 DEF Attachment
  <2>4. live'[d] # None
    BY <2>3, NoAttachment
  <2> QED
    BY <2>3, <2>4 DEF Stands
<1>9. ASSUME NEW c \in Conn,
             \/ Connect(c) \/ Attach(c) \/ ReleaseOwn(c)
             \/ ClaimAgain(c) \/ ClaimFirst(c) \/ ClaimRefused(c)
             \/ DrainOne(c) \/ DrainFails(c) \/ Close(c) \/ Release(c)
      PROVE  UNCHANGED live
  BY <1>9 DEF Connect, Attach, ReleaseOwn, ClaimAgain, ClaimFirst, ClaimRefused,
              DrainOne, DrainFails, Close, Release
<1>10. ASSUME NEW k \in carried, SendLive(k) PROVE UNCHANGED live
  BY <1>10 DEF SendLive
<1>11. CASE UNCHANGED vars
  BY <1>2, <1>11 DEF vars
<1> QED
  BY <1>2, <1>3, <1>4, <1>5, <1>6, <1>7, <1>8, <1>9, <1>10, <1>11 DEF Next

(* An attachment ends by its TTL, by a newer attachment of its device, or by *)
(* its own connection's teardown, never by the late close of one it          *)
(* superseded (attach.rs detach, guarded by the epoch).                      *)
THEOREM AttachmentStandsAlways == Spec => AttachmentStands
<1>1. Inductive /\ [Next]_vars => \A d \in Attached : Stands(d)
  BY StepStands DEF Attached
<1>2. Inductive /\ [Next]_vars =>
        [\A d \in Attached : live'[d] = live[d] \/
          \/ live'[d] = None /\ live[d].left <= 0
          \/ live'[d] # None /\ live'[d].conn = live[d].conn /\ live'[d].epoch = live[d].epoch
          \/ live'[d] # None /\ live'[d].epoch > live[d].epoch
          \/ conn[live[d].conn].phase = "detaching"]_vars
  BY <1>1 DEF Stands
<1> QED
  BY <1>2, RouterHoldsAlways, PTL DEF Spec, AttachmentStands
=============================================================================
