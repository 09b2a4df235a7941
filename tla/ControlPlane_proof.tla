-------------------------- MODULE ControlPlane_proof --------------------------
(***************************************************************************)
(* Proofs about ControlPlane, for every set of devices, pairings and       *)
(* requests, every epoch an advertiser signs and any length of the log;    *)
(* and, in the second half, about EventStream, for every length of the     *)
(* log, every size of its events, every watermark and every batch.         *)
(***************************************************************************)
EXTENDS ControlPlane, EventStream, FiniteSetTheorems, TLAPS

(* The log as data: its entries, and where those of a kind about a subject are. *)
EventKind ==
    {"DeviceRegistered", "DeviceRevoked", "PeerRemoved", "IdentityRotated",
     "TunnelKeyRotated", "DeviceMetadataUpdated", "PairingRequested",
     "PairingApproved", "PairingRejected", "PairingRevoked", "PolicyBundleUpdated",
     "RouteAdvertised", "RouteWithdrawn", "ExitNodeAdvertised", "ExitNodeWithdrawn"}
Written == [kind : EventKind, about : Devices \union Pairings \union Digests, number : Nat,
            tkGeneration : Nat]
LogEntry == {e \in Written : e.kind = "DeviceRegistered" => e.about \in Devices}

PositionsIn(l, kind, about) == {i \in DOMAIN l : l[i].kind = kind /\ l[i].about = about}
Counted(l, kind, about) == Cardinality(PositionsIn(l, kind, about))
Revocations(l, i) == {j \in 1 .. i : l[j].kind = "DeviceRevoked"}

LEMMA LogGrows ==
    ASSUME NEW S, NEW l \in Seq(S), NEW e \in S
    PROVE  /\ Append(l, e) \in Seq(S) /\ Len(Append(l, e)) = Len(l) + 1 /\ Len(l) \in Nat
           /\ DOMAIN l = 1 .. Len(l) /\ DOMAIN Append(l, e) = 1 .. Len(l) + 1
           /\ \A i \in 1 .. Len(l) : Append(l, e)[i] = l[i]
           /\ Append(l, e)[Len(l) + 1] = e
  OBVIOUS

LEMMA PositionsFinite ==
    ASSUME NEW S, NEW l \in Seq(S), NEW kind, NEW about
    PROVE  /\ PositionsIn(l, kind, about) \subseteq 1 .. Len(l)
           /\ IsFiniteSet(PositionsIn(l, kind, about)) /\ Counted(l, kind, about) \in Nat
<1>1. PositionsIn(l, kind, about) \subseteq 1 .. Len(l) /\ Len(l) \in Nat
  BY DEF PositionsIn
<1>2. IsFiniteSet(1 .. Len(l))
  BY <1>1, FS_Interval
<1>3. IsFiniteSet(PositionsIn(l, kind, about))
  BY <1>1, <1>2, FS_Subset
<1> QED
  BY <1>1, <1>3, FS_CardinalityType DEF Counted

(* An entry joins the positions of its own kind and subject, and no other. *)
LEMMA PositionsGrow ==
    ASSUME NEW S, NEW l \in Seq(S), NEW e \in S, NEW kind, NEW about
    PROVE  LET m == Append(l, e)
               mine == e.kind = kind /\ e.about = about
           IN  /\ mine => /\ PositionsIn(m, kind, about)
                                 = PositionsIn(l, kind, about) \union {Len(l) + 1}
                          /\ Counted(m, kind, about) = Counted(l, kind, about) + 1
               /\ ~mine => /\ PositionsIn(m, kind, about) = PositionsIn(l, kind, about)
                           /\ Counted(m, kind, about) = Counted(l, kind, about)
<1> DEFINE m == Append(l, e)
           P == PositionsIn(l, kind, about)
           Q == PositionsIn(m, kind, about)
<1>1. /\ Len(l) \in Nat /\ DOMAIN l = 1 .. Len(l) /\ DOMAIN m = 1 .. Len(l) + 1
      /\ \A i \in 1 .. Len(l) : m[i] = l[i]
      /\ m[Len(l) + 1] = e
  BY LogGrows
<1>2. ASSUME e.kind = kind /\ e.about = about
      PROVE  Q = P \union {Len(l) + 1}
  BY <1>1, <1>2 DEF PositionsIn
<1>3. ASSUME ~(e.kind = kind /\ e.about = about)
      PROVE  Q = P
  BY <1>1, <1>3 DEF PositionsIn
<1>4. IsFiniteSet(P) /\ Len(l) + 1 \notin P
  BY <1>1, PositionsFinite
<1>5. Cardinality(P \union {Len(l) + 1}) = Cardinality(P) + 1
  BY <1>4, FS_AddElement
<1> HIDE DEF P, Q
<1> QED
  BY <1>2, <1>3, <1>5 DEF P, Q, Counted

(* What the log says about each table, as data. *)
Row == [version : Nat, generation : 0 .. MaxCounter, tkGeneration : 0 .. MaxCounter,
        revoked : BOOLEAN]
PairingState == {"None", "Pending", "Completed", "Cancelled", "Revoked"}
Pairing == [state : PairingState, version : Nat, initiator : Devices \union {"nobody"},
            overdue : BOOLEAN, outcome : Nat]

RevocationsAgree(l, rev, n) ==
    /\ rev = {l[i].about : i \in {j \in DOMAIN l : l[j].kind = "DeviceRevoked"}}
    /\ \A i \in DOMAIN l : l[i].kind = "DeviceRevoked" => l[i].number = Cardinality(Revocations(l, i))
    /\ n = Cardinality(Revocations(l, Len(l)))

LatestIn(l, kind, about) ==
    {i \in PositionsIn(l, kind, about) : \A j \in PositionsIn(l, kind, about) : j <= i}

GenerationsAgree(l, d, m) ==
    \A i \in LatestIn(l, "DeviceRegistered", d) :
        /\ m.generation = Stored(l[i].number + Counted(l, "IdentityRotated", d))
        /\ m.tkGeneration = Stored(l[i].tkGeneration + Counted(l, "TunnelKeyRotated", d))

(* A row that a registration may still replace was never rotated.           *)
MemberAgrees(l, d, m) ==
    /\ m # NoRow <=> PositionsIn(l, "DeviceRegistered", d) # {}
    /\ m # NoRow => m.version > 0
    /\ m.version <= 1 => /\ PositionsIn(l, "IdentityRotated", d) = {}
                         /\ PositionsIn(l, "TunnelKeyRotated", d) = {}
    /\ GenerationsAgree(l, d, m)
    /\ \A i \in PositionsIn(l, "IdentityRotated", d) :
          l[i].number <= MaxCounter => l[i].number <= m.generation
    /\ \A i, j \in PositionsIn(l, "DeviceRegistered", d) : l[i].number = 0 => i = j

OfferAgrees(l, d, set, epoch) ==
    \A i \in PositionsIn(l, Kind[set].put, d) \union PositionsIn(l, Kind[set].withdraw, d) :
        l[i].number <= epoch

PairingAgrees(l, p, r) ==
    /\ r.state = "None" <=> PositionsIn(l, "PairingRequested", p) = {}
    /\ r.state = "None" => r = NoPairing
    /\ PositionsIn(l, "PairingApproved", p) = IF r.state = "Completed" THEN {r.outcome} ELSE {}
    /\ r.state = "Cancelled" <=> PositionsIn(l, "PairingRejected", p) # {}
    /\ r.state = "Revoked" <=> PositionsIn(l, "PairingRevoked", p) # {}

Unique(l) ==
    \A i, j \in DOMAIN l :
        /\ l[i].kind = l[j].kind /\ l[i].about = l[j].about /\ l[i].number = l[j].number
        /\ Single(l[i])
        => i = j

(* What the requesters were told, and what a repeat of theirs would be told. *)
AnswersAgree(prs, records, answers) ==
    /\ records \in [Ceremonies -> [age : {"none", "fresh", "aged"}, outcome : Nat]]
    /\ answers \in [Pairings -> SUBSET Nat]
    /\ \A p \in Pairings : \A n \in answers[p] :
          prs[p].state = "Completed" /\ n = prs[p].outcome
    /\ \A c \in Ceremonies : c.command = "CompletePairing" /\ records[c].age # "none" =>
          prs[c.about].state = "Completed" /\ records[c].outcome = prs[c.about].outcome

Typed ==
    /\ log \in Seq(LogEntry) /\ Len(log) <= MaxPositions
    /\ members \in [Devices -> Row]
    /\ revoked \subseteq Devices /\ IsFiniteSet(revoked) /\ trustEpoch = Cardinality(revoked)
    /\ pairings \in [Pairings -> Pairing]
    /\ policy.version \in {0} \union Versions
    /\ offered \in [Devices \X Sets -> {0} \union Epochs]

Agrees(l, rows, rev, n, offers, prs) ==
    /\ RevocationsAgree(l, rev, n)
    /\ \A d \in Devices : MemberAgrees(l, d, rows[d])
    /\ \A d \in Devices, set \in Sets : OfferAgrees(l, d, set, offers[<<d, set>>])
    /\ \A p \in Pairings : PairingAgrees(l, p, prs[p])
    /\ Unique(l)

Inductive ==
    /\ Typed
    /\ Agrees(log, members, revoked, trustEpoch, offered, pairings)
    /\ AnswersAgree(pairings, dedup, told)

(***************************************************************************)
(* A log that grows by one entry.                                           *)
(***************************************************************************)

LEMMA RevocationsPrefix ==
    ASSUME NEW S, NEW l \in Seq(S), NEW e \in S
    PROVE  /\ \A i \in 1 .. Len(l) : Revocations(Append(l, e), i) = Revocations(l, i)
           /\ e.kind # "DeviceRevoked" =>
                 Revocations(Append(l, e), Len(l) + 1) = Revocations(l, Len(l))
           /\ e.kind = "DeviceRevoked" =>
                 /\ Revocations(Append(l, e), Len(l) + 1)
                       = Revocations(l, Len(l)) \union {Len(l) + 1}
                 /\ Cardinality(Revocations(Append(l, e), Len(l) + 1))
                       = Cardinality(Revocations(l, Len(l))) + 1
<1> DEFINE m == Append(l, e)
           R == Revocations(l, Len(l))
<1>1. /\ Len(l) \in Nat /\ \A i \in 1 .. Len(l) : m[i] = l[i]
      /\ m[Len(l) + 1] = e
  BY LogGrows
<1> HIDE DEF m
<1>2. \A i \in 1 .. Len(l) : Revocations(m, i) = Revocations(l, i)
  BY <1>1 DEF Revocations
<1>3. e.kind # "DeviceRevoked" => Revocations(m, Len(l) + 1) = R
  BY <1>1 DEF Revocations
<1>4. e.kind = "DeviceRevoked" => Revocations(m, Len(l) + 1) = R \union {Len(l) + 1}
  BY <1>1 DEF Revocations
<1>5. R \subseteq 1 .. Len(l) /\ IsFiniteSet(1 .. Len(l))
  BY <1>1, FS_Interval DEF Revocations
<1>6. IsFiniteSet(R) /\ Len(l) + 1 \notin R
  BY <1>1, <1>5, FS_Subset
<1>7. Cardinality(R \union {Len(l) + 1}) = Cardinality(R) + 1
  BY <1>6, FS_AddElement
<1>8. e.kind = "DeviceRevoked" => Cardinality(Revocations(m, Len(l) + 1)) = Cardinality(R) + 1
  <2> HIDE DEF R
  <2> QED
    BY <1>4, <1>7
<1> QED
  BY <1>2, <1>3, <1>4, <1>8 DEF m

(* Who was revoked, and under which epoch. *)
LEMMA RevocationsGrow ==
    ASSUME NEW S, NEW l \in Seq(S), NEW e \in S, NEW rev, NEW n, RevocationsAgree(l, rev, n)
    PROVE  /\ e.kind # "DeviceRevoked" => RevocationsAgree(Append(l, e), rev, n)
           /\ e.kind = "DeviceRevoked" /\ e.number = n + 1 =>
                 RevocationsAgree(Append(l, e), rev \union {e.about}, n + 1)
<1> DEFINE m == Append(l, e)
<1>1. /\ Len(m) = Len(l) + 1 /\ Len(l) \in Nat
      /\ DOMAIN l = 1 .. Len(l) /\ DOMAIN m = 1 .. Len(l) + 1
      /\ \A i \in 1 .. Len(l) : m[i] = l[i]
      /\ m[Len(l) + 1] = e
  BY LogGrows
<1>2. /\ \A i \in 1 .. Len(l) : Revocations(m, i) = Revocations(l, i)
      /\ e.kind # "DeviceRevoked" => Revocations(m, Len(l) + 1) = Revocations(l, Len(l))
      /\ e.kind = "DeviceRevoked" =>
            Cardinality(Revocations(m, Len(l) + 1)) = Cardinality(Revocations(l, Len(l))) + 1
  BY RevocationsPrefix
<1> HIDE DEF m
<1> DEFINE who(k) == {k[i].about : i \in {j \in DOMAIN k : k[j].kind = "DeviceRevoked"}}
<1>3. e.kind # "DeviceRevoked" => who(m) = who(l)
  BY <1>1
<1>4. e.kind = "DeviceRevoked" => who(m) = who(l) \union {e.about}
  BY <1>1
<1>5. rev = who(l) /\ n = Cardinality(Revocations(l, Len(l)))
  BY DEF RevocationsAgree
<1>6. \A i \in 1 .. Len(l) :
         m[i].kind = "DeviceRevoked" => m[i].number = Cardinality(Revocations(m, i))
  BY <1>1, <1>2 DEF RevocationsAgree
<1>7. ASSUME e.kind # "DeviceRevoked"
      PROVE  RevocationsAgree(m, rev, n)
  <2>1. rev = who(m)
    BY <1>3, <1>5, <1>7
  <2>2. n = Cardinality(Revocations(m, Len(m)))
    BY <1>1, <1>2, <1>5, <1>7
  <2>3. \A i \in DOMAIN m :
           m[i].kind = "DeviceRevoked" => m[i].number = Cardinality(Revocations(m, i))
    BY <1>1, <1>6, <1>7
  <2> QED
    BY <2>1, <2>2, <2>3 DEF RevocationsAgree
<1>8. ASSUME e.kind = "DeviceRevoked", e.number = n + 1
      PROVE  RevocationsAgree(m, rev \union {e.about}, n + 1)
  <2>1. rev \union {e.about} = who(m)
    BY <1>4, <1>5, <1>8
  <2>2. n + 1 = Cardinality(Revocations(m, Len(m)))
    BY <1>1, <1>2, <1>5, <1>8
  <2>3. \A i \in DOMAIN m :
           m[i].kind = "DeviceRevoked" => m[i].number = Cardinality(Revocations(m, i))
    BY <1>1, <1>6, <1>8, <2>2
  <2> QED
    BY <2>1, <2>2, <2>3 DEF RevocationsAgree
<1> QED
  BY <1>7, <1>8 DEF m

(* An entry is the only one of its kind, subject and number. *)
LEMMA UniqueGrows ==
    ASSUME NEW S, NEW l \in Seq(S), NEW e \in S, Unique(l),
           Single(e) => \A i \in PositionsIn(l, e.kind, e.about) : l[i].number # e.number
    PROVE  Unique(Append(l, e))
<1> DEFINE m == Append(l, e)
<1>1. /\ Len(l) \in Nat /\ DOMAIN l = 1 .. Len(l) /\ DOMAIN m = 1 .. Len(l) + 1
      /\ \A i \in 1 .. Len(l) : m[i] = l[i]
      /\ m[Len(l) + 1] = e
  BY LogGrows
<1> HIDE DEF m
<1>2. \A i \in 1 .. Len(l) :
         ~(/\ l[i].kind = e.kind /\ l[i].about = e.about /\ l[i].number = e.number
           /\ Single(l[i]) \/ Single(e))
  BY <1>1 DEF PositionsIn, Single
<1>3. \A i, j \in 1 .. Len(l) :
         /\ m[i].kind = m[j].kind /\ m[i].about = m[j].about /\ m[i].number = m[j].number
         /\ Single(m[i])
         => i = j
  BY <1>1 DEF Unique
<1>4. \A i \in DOMAIN m : i = Len(l) + 1 \/ i \in 1 .. Len(l)
  BY <1>1
<1>5. Unique(m)
  BY <1>1, <1>2, <1>3, <1>4 DEF Unique
<1> QED
  BY <1>5 DEF m

(* A member's row agrees with a log that says nothing new about it. *)
LEMMA MemberKeeps ==
    ASSUME NEW S, NEW l \in Seq(S), NEW e \in S, NEW d, NEW m, MemberAgrees(l, d, m),
           e.kind \in {"DeviceRegistered", "IdentityRotated", "TunnelKeyRotated"} => e.about # d
    PROVE  MemberAgrees(Append(l, e), d, m)
<1>1. \A k \in {"DeviceRegistered", "IdentityRotated", "TunnelKeyRotated"} :
         /\ PositionsIn(Append(l, e), k, d) = PositionsIn(l, k, d)
         /\ Counted(Append(l, e), k, d) = Counted(l, k, d)
  BY PositionsGrow
<1>2. \A k \in {"DeviceRegistered", "IdentityRotated"} :
         \A i \in PositionsIn(l, k, d) : Append(l, e)[i] = l[i]
  BY LogGrows, PositionsFinite
<1>3. LatestIn(Append(l, e), "DeviceRegistered", d) = LatestIn(l, "DeviceRegistered", d)
  BY <1>1 DEF LatestIn
<1>4. GenerationsAgree(Append(l, e), d, m)
  BY <1>1, <1>2, <1>3 DEF MemberAgrees, GenerationsAgree, LatestIn
<1> QED
  BY <1>1, <1>2, <1>4 DEF MemberAgrees

(* What an advertiser signed, under a log that says nothing new of that set. *)
LEMMA OfferKeeps ==
    ASSUME NEW S, NEW l \in Seq(S), NEW e \in S, NEW d, NEW set, NEW epoch,
           OfferAgrees(l, d, set, epoch),
           e.kind \in {Kind[set].put, Kind[set].withdraw} => e.about # d
    PROVE  OfferAgrees(Append(l, e), d, set, epoch)
<1>1. \A k \in {Kind[set].put, Kind[set].withdraw} :
         PositionsIn(Append(l, e), k, d) = PositionsIn(l, k, d)
  BY PositionsGrow
<1>2. \A k \in {Kind[set].put, Kind[set].withdraw} :
         \A i \in PositionsIn(l, k, d) : Append(l, e)[i] = l[i]
  BY LogGrows, PositionsFinite
<1> QED
  BY <1>1, <1>2 DEF OfferAgrees

(* A pairing agrees with a log that says nothing new about it. *)
LEMMA PairingKeeps ==
    ASSUME NEW S, NEW l \in Seq(S), NEW e \in S, NEW p, NEW r, PairingAgrees(l, p, r),
           e.kind \in {"PairingRequested", "PairingApproved", "PairingRejected",
                       "PairingRevoked"} => e.about # p
    PROVE  PairingAgrees(Append(l, e), p, r)
<1>1. \A k \in {"PairingRequested", "PairingApproved", "PairingRejected", "PairingRevoked"} :
         PositionsIn(Append(l, e), k, p) = PositionsIn(l, k, p)
  BY PositionsGrow
<1> QED
  BY <1>1 DEF PairingAgrees

(* The positions of the entry's own kind and subject. *)
LEMMA PositionsJoined ==
    ASSUME NEW S, NEW l \in Seq(S), NEW e \in S, NEW kind, NEW about,
           e.kind = kind, e.about = about
    PROVE  /\ PositionsIn(Append(l, e), kind, about)
                 = PositionsIn(l, kind, about) \union {Len(l) + 1}
           /\ PositionsIn(Append(l, e), kind, about) # {}
           /\ Counted(Append(l, e), kind, about) = Counted(l, kind, about) + 1
<1>1. /\ PositionsIn(Append(l, e), kind, about)
            = PositionsIn(l, kind, about) \union {Len(l) + 1}
      /\ Counted(Append(l, e), kind, about) = Counted(l, kind, about) + 1
  BY PositionsGrow
<1> QED
  BY <1>1

(* Every table the entry does not speak of still agrees with the log. *)
MemberKind == {"DeviceRegistered", "IdentityRotated", "TunnelKeyRotated"}
PairingKind == {"PairingRequested", "PairingApproved", "PairingRejected", "PairingRevoked"}
OfferKind == {"RouteAdvertised", "RouteWithdrawn", "ExitNodeAdvertised", "ExitNodeWithdrawn"}

LEMMA OfferKinds ==
    \A set \in Sets :
        /\ \A change \in {"put", "withdraw"} : Kind[set][change] \in OfferKind
        /\ Kind[set].put = Kind[set]["put"] /\ Kind[set].withdraw = Kind[set]["withdraw"]
        /\ \A other \in Sets, change \in {"put", "withdraw"} :
              Kind[other][change] \in {Kind[set].put, Kind[set].withdraw} => other = set
  BY DEF Sets, Kind, OfferKind

LEMMA EntryKeeps ==
    ASSUME NEW l \in Seq(LogEntry), NEW e \in LogEntry,
           NEW rows, NEW rev, NEW n, NEW offers, NEW prs,
           Agrees(l, rows, rev, n, offers, prs)
    PROVE  LET k == Append(l, e)
           IN  /\ k \in Seq(LogEntry) /\ Len(k) = Len(l) + 1
               /\ e.kind # "DeviceRevoked" => RevocationsAgree(k, rev, n)
               /\ e.kind = "DeviceRevoked" /\ e.number = n + 1 =>
                     RevocationsAgree(k, rev \union {e.about}, n + 1)
               /\ \A d \in Devices : (e.kind \in MemberKind => e.about # d) =>
                     MemberAgrees(k, d, rows[d])
               /\ \A d \in Devices, set \in Sets :
                     (e.kind \in {Kind[set].put, Kind[set].withdraw} => e.about # d) =>
                         OfferAgrees(k, d, set, offers[<<d, set>>])
               /\ \A p \in Pairings : (e.kind \in PairingKind => e.about # p) =>
                     PairingAgrees(k, p, prs[p])
               /\ (Single(e) =>
                     \A i \in PositionsIn(l, e.kind, e.about) : l[i].number # e.number)
                  => Unique(k)
<1> DEFINE k == Append(l, e)
<1> SUFFICES /\ k \in Seq(LogEntry) /\ Len(k) = Len(l) + 1
             /\ e.kind # "DeviceRevoked" => RevocationsAgree(k, rev, n)
             /\ e.kind = "DeviceRevoked" /\ e.number = n + 1 =>
                   RevocationsAgree(k, rev \union {e.about}, n + 1)
             /\ \A d \in Devices : (e.kind \in MemberKind => e.about # d) =>
                   MemberAgrees(k, d, rows[d])
             /\ \A d \in Devices, set \in Sets :
                   (e.kind \in {Kind[set].put, Kind[set].withdraw} => e.about # d) =>
                       OfferAgrees(k, d, set, offers[<<d, set>>])
             /\ \A p \in Pairings : (e.kind \in PairingKind => e.about # p) =>
                   PairingAgrees(k, p, prs[p])
             /\ (Single(e) =>
                   \A i \in PositionsIn(l, e.kind, e.about) : l[i].number # e.number)
                => Unique(k)
  OBVIOUS
<1>1. k \in Seq(LogEntry) /\ Len(k) = Len(l) + 1
  BY LogGrows
<1>2. /\ e.kind # "DeviceRevoked" => RevocationsAgree(k, rev, n)
      /\ e.kind = "DeviceRevoked" /\ e.number = n + 1 =>
            RevocationsAgree(k, rev \union {e.about}, n + 1)
  BY RevocationsGrow DEF Agrees
<1>3. ASSUME NEW d \in Devices, e.kind \in MemberKind => e.about # d
      PROVE  MemberAgrees(k, d, rows[d])
  BY <1>3, MemberKeeps DEF Agrees, MemberKind
<1>4. ASSUME NEW d \in Devices, NEW set \in Sets,
             e.kind \in {Kind[set].put, Kind[set].withdraw} => e.about # d
      PROVE  OfferAgrees(k, d, set, offers[<<d, set>>])
  <2>1. OfferAgrees(l, d, set, offers[<<d, set>>])
    BY DEF Agrees
  <2> QED
    BY <1>4, <2>1, OfferKeeps
<1>5. ASSUME NEW p \in Pairings, e.kind \in PairingKind => e.about # p
      PROVE  PairingAgrees(k, p, prs[p])
  BY <1>5, PairingKeeps DEF Agrees, PairingKind
<1>6. ASSUME Single(e) =>
                \A i \in PositionsIn(l, e.kind, e.about) : l[i].number # e.number
      PROVE  Unique(k)
  BY <1>6, UniqueGrows DEF Agrees
<1> HIDE DEF k
<1> QED
  BY <1>1, <1>2, <1>3, <1>4, <1>5, <1>6

(***************************************************************************)
(* The answers.                                                             *)
(***************************************************************************)

(* A pairing that is completed stays so, with its outcome, whatever is done. *)
StaysCompleted(prs, later) ==
    \A p \in Pairings : prs[p].state = "Completed" =>
        later[p].state = "Completed" /\ later[p].outcome = prs[p].outcome

LEMMA AnswersKept ==
    ASSUME NEW prs, NEW later, NEW records, NEW answers, AnswersAgree(prs, records, answers),
           StaysCompleted(prs, later)
    PROVE  AnswersAgree(later, records, answers)
<1>1. \A c \in Ceremonies : c.command = "CompletePairing" => c.about \in Pairings
  BY ControlPlaneAssumption DEF PairingCommand
<1> QED
  BY <1>1 DEF AnswersAgree, StaysCompleted

(* An answer is recorded and given; that of CompletePairing is the outcome. *)
LEMMA AnswerAgrees ==
    ASSUME Inductive, NEW c \in Ceremonies, NEW outcome \in Nat, Answer(c, outcome),
           StaysCompleted(pairings, pairings'),
           c.command = "CompletePairing" =>
               pairings[c.about]'.state = "Completed" /\ outcome = pairings[c.about]'.outcome
    PROVE  AnswersAgree(pairings', dedup', told')
<1>1. AnswersAgree(pairings', dedup, told)
  BY AnswersKept DEF Inductive
<1>2. /\ dedup \in [Ceremonies -> [age : {"none", "fresh", "aged"}, outcome : Nat]]
      /\ told \in [Pairings -> SUBSET Nat]
  BY DEF Inductive, AnswersAgree
<1>3. c.command = "CompletePairing" => c.about \in Pairings
  BY ControlPlaneAssumption DEF PairingCommand
<1> DEFINE r == [age |-> "fresh", outcome |-> outcome]
<1>4. /\ r \in [age : {"none", "fresh", "aged"}, outcome : Nat]
      /\ r.outcome = outcome
  OBVIOUS
<1>5. dedup' = dedup \/ dedup' = [dedup EXCEPT ![c] = r]
  BY DEF Answer
<1>6. /\ dedup' \in [Ceremonies -> [age : {"none", "fresh", "aged"}, outcome : Nat]]
      /\ \A o \in Ceremonies : dedup'[o] = dedup[o] \/ (o = c /\ dedup'[o] = r)
  <2> HIDE DEF r
  <2> QED
    BY <1>2, <1>4, <1>5
<1>7. \/ told' = told
      \/ /\ c.command = "CompletePairing"
         /\ told' = [told EXCEPT ![c.about] = @ \union {outcome}]
  BY DEF Answer
<1>8. /\ told' \in [Pairings -> SUBSET Nat]
      /\ \A p \in Pairings : \A n \in told'[p] :
            n \in told[p] \/ (c.command = "CompletePairing" /\ p = c.about /\ n = outcome)
  BY <1>2, <1>3, <1>7
<1>9. \A p \in Pairings : \A n \in told'[p] :
         pairings'[p].state = "Completed" /\ n = pairings'[p].outcome
  BY <1>1, <1>8 DEF AnswersAgree
<1>10. \A o \in Ceremonies : o.command = "CompletePairing" /\ dedup'[o].age # "none" =>
          pairings'[o.about].state = "Completed" /\ dedup'[o].outcome = pairings'[o.about].outcome
  <2>1. TAKE o \in Ceremonies
  <2>2. HAVE o.command = "CompletePairing" /\ dedup'[o].age # "none"
  <2>3. CASE dedup'[o] = dedup[o]
    BY <1>1, <2>2, <2>3 DEF AnswersAgree
  <2>4. CASE o = c /\ dedup'[o] = r
    <3> HIDE DEF r
    <3> QED
      BY <1>4, <2>2, <2>4
  <2> QED
    BY <1>6, <2>3, <2>4
<1> QED
  BY <1>6, <1>8, <1>9, <1>10 DEF AnswersAgree

(***************************************************************************)
(* The steps.                                                               *)
(***************************************************************************)

(* What a request is about. *)
LEMMA Requests ==
    ASSUME NEW c \in Ceremonies
    PROVE  /\ c.command \in DeviceCommand => c.about \in Devices
           /\ c.command \in PairingCommand => c.about \in Pairings /\ c.caller \in Devices
           /\ c.command = "PutPolicy" => c.about \in Digests /\ c.version \in Versions
  BY ControlPlaneAssumption

(* A step that leaves the log alone, and one that adds an entry to it. *)
LEMMA SilentStep ==
    ASSUME Inductive, log' = log
    PROVE  /\ log' \in Seq(LogEntry) /\ Len(log') <= MaxPositions
           /\ RevocationsAgree(log', revoked, trustEpoch)
           /\ \A d \in Devices : MemberAgrees(log', d, members[d])
           /\ \A d \in Devices, set \in Sets : OfferAgrees(log', d, set, offered[<<d, set>>])
           /\ \A p \in Pairings : PairingAgrees(log', p, pairings[p])
           /\ Unique(log')
  BY DEF Inductive, Typed, Agrees

LEMMA LoggedStep ==
    ASSUME Inductive, NEW e \in LogEntry, log' = Append(log, e), Len(log) < MaxPositions
    PROVE  /\ log' \in Seq(LogEntry) /\ Len(log') <= MaxPositions
           /\ e.kind # "DeviceRevoked" => RevocationsAgree(log', revoked, trustEpoch)
           /\ \A d \in Devices : (e.kind \in MemberKind => e.about # d) =>
                 MemberAgrees(log', d, members[d])
           /\ \A d \in Devices, set \in Sets :
                 (e.kind \in {Kind[set].put, Kind[set].withdraw} => e.about # d) =>
                     OfferAgrees(log', d, set, offered[<<d, set>>])
           /\ \A p \in Pairings : (e.kind \in PairingKind => e.about # p) =>
                 PairingAgrees(log', p, pairings[p])
           /\ (Single(e) =>
                 \A i \in PositionsIn(log, e.kind, e.about) : log[i].number # e.number)
              => Unique(log')
<1>1. /\ log \in Seq(LogEntry) /\ Len(log) \in Nat /\ MaxPositions \in Nat
      /\ Agrees(log, members, revoked, trustEpoch, offered, pairings)
  BY ControlPlaneAssumption DEF Inductive, Typed
<1>2. Len(log') <= MaxPositions
  BY <1>1, LogGrows
<1> QED
  BY <1>1, <1>2, EntryKeeps

(* An entry as Append1 writes it. *)
LEMMA EntryMade ==
    ASSUME NEW kind \in EventKind, kind # "DeviceRegistered",
           NEW about \in Devices \union Pairings \union Digests,
           NEW number \in Nat, Append1(kind, about, number)
    PROVE  \E e \in LogEntry : /\ e.kind = kind /\ e.about = about /\ e.number = number
                               /\ log' = Append(log, e) /\ Len(log) < MaxPositions
<1> DEFINE e == Entry(kind, about, number)
<1>1. e \in LogEntry /\ e.kind = kind /\ e.about = about /\ e.number = number
  BY DEF LogEntry, Written, Entry
<1>2. log' = Append(log, e) /\ Len(log) < MaxPositions
  BY DEF Append1, AppendEntry
<1> QED
  BY <1>1, <1>2

LEMMA RowsMade ==
    /\ NoRow \in Row /\ NoRow.version = 0 /\ NoRow.generation = 0 /\ NoRow.tkGeneration = 0
  BY ControlPlaneAssumption DEF NoRow, Row

LEMMA StoredIs ==
    ASSUME NEW n \in Nat
    PROVE  /\ Stored(n) \in 0 .. MaxCounter /\ Stored(0) = 0
           /\ n > 0 /\ MaxCounter > 0 => Stored(n) > 0
           /\ Stored(n) <= Stored(n + 1) /\ Stored(Stored(n) + 1) = Stored(n + 1)
           /\ n <= MaxCounter => Stored(n) = n
  BY ControlPlaneAssumption DEF Stored

(* What a registration writes and what it tells. *)
LEMMA RegistrationMade ==
    ASSUME NEW c \in Ceremonies, c.command = "RegisterDevice"
    PROVE  /\ c.generation \in Nat /\ c.tkGeneration \in Nat
           /\ NewRow(c) \in Row /\ NewRow(c).version = 1 /\ NewRow(c) # NoRow
           /\ NewRow(c).generation = Stored(c.generation)
           /\ NewRow(c).tkGeneration = Stored(c.tkGeneration)
           /\ Registration(c) \in LogEntry /\ Registration(c).kind = "DeviceRegistered"
           /\ Registration(c).about = c.about /\ Registration(c).number = c.generation
           /\ Registration(c).tkGeneration = c.tkGeneration
<1>1. /\ c.about \in Devices /\ c.generation \in Nat /\ c.tkGeneration \in Nat
  BY ControlPlaneAssumption DEF DeviceCommand
<1>2. Stored(c.generation) \in 0 .. MaxCounter /\ Stored(c.tkGeneration) \in 0 .. MaxCounter
  BY <1>1, StoredIs
<1>3. /\ NewRow(c) \in Row /\ NewRow(c).version = 1
      /\ NewRow(c).generation = Stored(c.generation)
      /\ NewRow(c).tkGeneration = Stored(c.tkGeneration)
  BY <1>2, RowsMade DEF NewRow, Row, NoRow
<1>4. NewRow(c) # NoRow
  BY <1>3, RowsMade
<1>5. /\ Registration(c) \in LogEntry /\ Registration(c).kind = "DeviceRegistered"
      /\ Registration(c).about = c.about /\ Registration(c).number = c.generation
      /\ Registration(c).tkGeneration = c.tkGeneration
  BY <1>1 DEF Registration, Entry, LogEntry, Written, EventKind
<1> QED
  BY <1>1, <1>3, <1>4, <1>5

LEMMA ReplayStep ==
    ASSUME Inductive, NEW c \in Ceremonies, Replay(c)
    PROVE  Inductive'
<1>1. UNCHANGED <<log, members, revoked, trustEpoch, pairings, policy, offered>>
  BY DEF Replay
<1>2. dedup[c].outcome \in Nat /\ dedup[c].age # "none"
  BY DEF Inductive, AnswersAgree, Replay, Fresh
<1>3. c.command = "CompletePairing" =>
         pairings[c.about]'.state = "Completed" /\ dedup[c].outcome = pairings[c.about]'.outcome
  BY <1>1, <1>2 DEF Inductive, AnswersAgree
<1>4. StaysCompleted(pairings, pairings')
  BY <1>1 DEF StaysCompleted
<1>5. Answer(c, dedup[c].outcome)
  BY DEF Replay
<1>6. AnswersAgree(pairings', dedup', told')
  BY <1>2, <1>3, <1>4, <1>5, AnswerAgrees
<1>7. Typed'
  BY <1>1 DEF Inductive, Typed
<1>8. Agrees(log, members, revoked, trustEpoch, offered, pairings)'
  BY <1>1 DEF Inductive
<1> QED
  BY <1>6, <1>7, <1>8 DEF Inductive

(* A step that writes the row of one member and the entry that tells of it. *)
LEMMA MemberStep ==
    ASSUME Inductive, NEW d \in Devices, NEW row \in Row, NEW e \in LogEntry,
           e.kind \in {"DeviceRegistered", "IdentityRotated", "TunnelKeyRotated",
                      "DeviceMetadataUpdated"},
           e.about = d, log' = Append(log, e), Len(log) < MaxPositions,
           members' = [members EXCEPT ![d] = row], MemberAgrees(log', d, row),
           Single(e) => \A i \in PositionsIn(log, e.kind, d) : log[i].number # e.number,
           UNCHANGED <<revoked, trustEpoch, pairings, policy, offered>>,
           AnswersAgree(pairings', dedup', told')
    PROVE  Inductive'
<1>1. members \in [Devices -> Row] /\ log \in Seq(LogEntry)
  BY DEF Inductive, Typed
<1>2. members' \in [Devices -> Row] /\ \A o \in Devices : MemberAgrees(log', o, members'[o])
  BY <1>1, LoggedStep
<1>3. /\ log' \in Seq(LogEntry) /\ Len(log') <= MaxPositions
      /\ RevocationsAgree(log', revoked, trustEpoch)
      /\ \A o \in Devices, set \in Sets : OfferAgrees(log', o, set, offered[<<o, set>>])
      /\ \A p \in Pairings : PairingAgrees(log', p, pairings[p])
      /\ Unique(log')
  BY LoggedStep, OfferKinds DEF OfferKind, PairingKind
<1>4. Agrees(log, members, revoked, trustEpoch, offered, pairings)'
  BY <1>2, <1>3 DEF Agrees
<1>5. Typed'
  BY <1>2, <1>3 DEF Inductive, Typed
<1> QED
  BY <1>4, <1>5 DEF Inductive

(* A step that answers and writes no table. *)
LEMMA TablesKept ==
    ASSUME Inductive, UNCHANGED <<log, members, revoked, trustEpoch, pairings, policy, offered>>,
           AnswersAgree(pairings', dedup', told')
    PROVE  Inductive'
<1>1. Typed'
  BY DEF Inductive, Typed
<1>2. Agrees(log, members, revoked, trustEpoch, offered, pairings)'
  BY DEF Inductive
<1> QED
  BY <1>1, <1>2 DEF Inductive

(* An answer to any other request than CompletePairing. *)
LEMMA PlainAnswer ==
    ASSUME Inductive, NEW c \in Ceremonies, c.command # "CompletePairing",
           NEW outcome \in Nat, Answer(c, outcome), StaysCompleted(pairings, pairings')
    PROVE  AnswersAgree(pairings', dedup', told')
  BY AnswerAgrees

LEMMA RegisterStep ==
    ASSUME Inductive, NEW c \in Asks("RegisterDevice"), NEW key \in {"first", "successor"},
           RegisterDevice(c, key)
    PROVE  Inductive'
<1> DEFINE d == c.about
<1>1. c \in Ceremonies /\ c.command = "RegisterDevice" /\ d \in Devices
  BY Requests DEF Asks, DeviceCommand
<1>2. UNCHANGED <<revoked, trustEpoch, pairings, policy, offered>>
  BY DEF RegisterDevice
<1>3. StaysCompleted(pairings, pairings')
  BY <1>2 DEF StaysCompleted
<1>4. Position \in Nat /\ 0 \in Nat
  BY DEF Inductive, Typed, Position
<1>5. CASE Answer(c, 0) /\ UNCHANGED <<log, members>>
  BY <1>1, <1>2, <1>3, <1>4, <1>5, PlainAnswer, TablesKept
<1>6. CASE /\ ~KnownBy(d, key) /\ AppendEntry(Registration(c))
           /\ PutDevice(d, NewRow(c)) /\ Answer(c, Position)
  <2> DEFINE e == Registration(c)
             row == NewRow(c)
             m == members[d]
  <2>1. /\ m \in Row /\ log \in Seq(LogEntry) /\ MemberAgrees(log, d, m)
        /\ m.version \in Nat /\ m.generation \in Nat
    BY <1>1, ControlPlaneAssumption DEF Inductive, Typed, Agrees, Row
  <2>2. /\ c.generation \in Nat /\ row \in Row /\ row.version = 1 /\ row # NoRow
        /\ row.generation = Stored(c.generation) /\ row.tkGeneration = Stored(c.tkGeneration)
        /\ e \in LogEntry /\ e.kind = "DeviceRegistered" /\ e.about = d
        /\ e.number = c.generation /\ e.tkGeneration = c.tkGeneration
        /\ c.tkGeneration \in Nat /\ row.generation \in Nat
    BY <1>1, RegistrationMade, StoredIs
  <2>3. /\ log' = Append(log, e) /\ Len(log) < MaxPositions
        /\ members' = [members EXCEPT ![d] = row]
        /\ m # NoRow => DeviceAdmits(m, row) /\ m.generation > 0
    BY <1>6 DEF AppendEntry, PutDevice, KnownBy, RegisterDevice
  <2> HIDE DEF e, row, m
  <2>4. m # NoRow => m.version = 1 /\ row.generation > 0
    <3>1. m # NoRow => row.version >= m.version /\ row.generation >= m.generation
      BY <2>3 DEF DeviceAdmits
    <3>2. m # NoRow => m.version > 0
      BY <2>1 DEF MemberAgrees
    <3> QED
      BY <2>1, <2>2, <2>3, <3>1, <3>2
  <2>5. /\ PositionsIn(log, "IdentityRotated", d) = {}
        /\ PositionsIn(log, "TunnelKeyRotated", d) = {}
    BY <2>1, <2>4, RowsMade DEF MemberAgrees
  <2>6. ASSUME NEW i \in PositionsIn(log, "DeviceRegistered", d), log[i].number = 0
        PROVE  FALSE
    <3>1. m # NoRow /\ \A j \in PositionsIn(log, "DeviceRegistered", d) : i = j
      BY <2>1, <2>6 DEF MemberAgrees
    <3>2. i \in LatestIn(log, "DeviceRegistered", d)
      <4>1. i \in 1 .. Len(log)
        BY <2>1, PositionsFinite
      <4> QED
        BY <3>1, <4>1 DEF LatestIn
    <3>3. Counted(log, "IdentityRotated", d) = 0
      BY <2>5, FS_EmptySet DEF Counted
    <3>4. m.generation = Stored(0)
      BY <2>1, <2>6, <3>2, <3>3 DEF MemberAgrees, GenerationsAgree
    <3> QED
      BY <2>1, <2>3, <3>1, <3>4, StoredIs
  <2>7. MemberAgrees(log', d, row)
    <3>1. /\ PositionsIn(log', "DeviceRegistered", d)
                = PositionsIn(log, "DeviceRegistered", d) \union {Len(log) + 1}
          /\ PositionsIn(log', "DeviceRegistered", d) # {}
      <4>1. /\ log \in Seq(LogEntry) /\ e \in LogEntry /\ log' = Append(log, e)
            /\ e.kind = "DeviceRegistered" /\ e.about = d
        BY <2>1, <2>2, <2>3
      <4> QED
        BY <4>1, PositionsJoined
    <3>2. /\ PositionsIn(log', "IdentityRotated", d) = {}
          /\ PositionsIn(log', "TunnelKeyRotated", d) = {}
      BY <2>1, <2>2, <2>3, <2>5, PositionsGrow
    <3>3. /\ Counted(log', "IdentityRotated", d) = 0
          /\ Counted(log', "TunnelKeyRotated", d) = 0
      BY <3>2, FS_EmptySet DEF Counted
    <3>4. /\ \A i \in PositionsIn(log, "DeviceRegistered", d) : log'[i] = log[i] /\ i \in 1 .. Len(log)
          /\ log'[Len(log) + 1] = e /\ Len(log) \in Nat
      BY <2>1, <2>2, <2>3, LogGrows, PositionsFinite
    <3>5. LatestIn(log', "DeviceRegistered", d) \subseteq {Len(log) + 1}
      BY <3>1, <3>4 DEF LatestIn
    <3>6. GenerationsAgree(log', d, row)
      <4>1. c.generation + 0 = c.generation /\ c.tkGeneration + 0 = c.tkGeneration
        BY <2>2
      <4> QED
        BY <2>2, <3>3, <3>4, <3>5, <4>1 DEF GenerationsAgree
    <3>7. \A i, j \in PositionsIn(log', "DeviceRegistered", d) : log'[i].number = 0 => i = j
      <4>1. \A i \in PositionsIn(log, "DeviceRegistered", d) : log'[i].number # 0
        BY <2>6, <3>4
      <4>2. CASE PositionsIn(log, "DeviceRegistered", d) = {}
        BY <3>1, <4>2
      <4>3. CASE PositionsIn(log, "DeviceRegistered", d) # {}
        <5>1. m # NoRow
          BY <2>1, <4>3 DEF MemberAgrees
        <5>2. log'[Len(log) + 1].number # 0
          <6>1. row.generation > 0 /\ row.generation = Stored(c.generation)
            BY <2>2, <2>4, <5>1
          <6>2. Stored(0) = 0
            BY StoredIs
          <6>3. log'[Len(log) + 1].number = c.generation
            BY <2>2, <3>4
          <6> QED
            BY <6>1, <6>2, <6>3
        <5> QED
          BY <3>1, <4>1, <5>2
      <4> QED
        BY <4>2, <4>3
    <3>8. row.version > 0
      BY <2>2
    <3> QED
      BY <2>2, <3>1, <3>2, <3>6, <3>7, <3>8 DEF MemberAgrees
  <2>8. ~Single(e)
    BY <2>2 DEF Single
  <2>9. AnswersAgree(pairings', dedup', told')
    BY <1>1, <1>3, <1>4, <1>6, PlainAnswer
  <2> QED
    BY <1>1, <1>2, <2>2, <2>3, <2>7, <2>8, <2>9, MemberStep
<1> QED
  BY <1>5, <1>6 DEF RegisterDevice

(* A row that keeps its generations agrees with the same log. *)
LEMMA RowRewritten ==
    ASSUME NEW l, NEW d, NEW m \in Row, NEW row \in Row, MemberAgrees(l, d, m), m # NoRow,
           row.version > 1, row.generation = m.generation, row.tkGeneration = m.tkGeneration
    PROVE  MemberAgrees(l, d, row)
<1>1. row # NoRow /\ row.version \in Nat
  BY RowsMade DEF Row
<1>2. GenerationsAgree(l, d, row)
  BY DEF MemberAgrees, GenerationsAgree
<1> QED
  BY <1>1, <1>2 DEF MemberAgrees

LEMMA NumbersAreNat ==
    ASSUME NEW l \in Seq(LogEntry), NEW kind, NEW about
    PROVE  \A i \in PositionsIn(l, kind, about) :
              l[i] \in LogEntry /\ l[i].number \in Nat /\ l[i].tkGeneration \in Nat
<1>1. \A i \in PositionsIn(l, kind, about) : l[i] \in LogEntry
  BY DEF PositionsIn
<1> QED
  BY <1>1 DEF LogEntry, Written

LEMMA RotateIdentityStep ==
    ASSUME Inductive, NEW c \in Asks("RotateIdentity"), RotateIdentity(c)
    PROVE  Inductive'
<1> DEFINE d == c.about
           m == members[d]
           row == [m EXCEPT !.generation = Stored(c.generation), !.version = @ + 1]
<1>1. c \in Ceremonies /\ c.command = "RotateIdentity" /\ d \in Devices
  BY Requests DEF Asks, DeviceCommand
<1>2. /\ m \in Row /\ log \in Seq(LogEntry) /\ MemberAgrees(log, d, m)
      /\ Position \in Nat
  BY <1>1 DEF Inductive, Typed, Agrees, Position
<1>3. /\ m # NoRow /\ c.generation = m.generation + 1
      /\ Append1("IdentityRotated", d, c.generation)
      /\ members' = [members EXCEPT ![d] = row]
      /\ Answer(c, Position)
      /\ UNCHANGED <<revoked, trustEpoch, pairings, policy, offered>>
  BY DEF RotateIdentity, Succeeds, PutDevice
<1>4. /\ m.generation \in Nat /\ m.generation <= MaxCounter /\ MaxCounter \in Nat
      /\ m.version \in Nat /\ m.version > 0 /\ m.version + 1 \in Nat
      /\ c.generation \in Nat /\ Stored(c.generation) \in 0 .. MaxCounter
      /\ m.generation <= Stored(c.generation)
      /\ c.generation <= MaxCounter => Stored(c.generation) = c.generation
  <2>1. /\ m.generation \in Nat /\ m.generation <= MaxCounter /\ MaxCounter \in Nat
        /\ m.version \in Nat /\ m.version + 1 \in Nat
    BY <1>2, ControlPlaneAssumption DEF Row
  <2>2. m.version > 0
    BY <1>2, <1>3 DEF MemberAgrees
  <2>3. /\ c.generation = m.generation + 1 /\ c.generation \in Nat
        /\ Stored(m.generation) <= Stored(m.generation + 1)
        /\ Stored(m.generation) = m.generation
    BY <1>3, <2>1, StoredIs
  <2>4. /\ Stored(c.generation) \in 0 .. MaxCounter
        /\ c.generation <= MaxCounter => Stored(c.generation) = c.generation
    BY <2>3, StoredIs
  <2>5. m.generation <= Stored(c.generation)
    BY <2>3
  <2> HIDE DEF m
  <2> QED
    BY <2>1, <2>2, <2>3, <2>4, <2>5
<1>5. /\ row \in Row /\ row.generation = Stored(c.generation) /\ row.version = m.version + 1
      /\ row.tkGeneration = m.tkGeneration
  <2> HIDE DEF m
  <2> QED
    BY <1>2, <1>4 DEF Row
<1>6. AnswersAgree(pairings', dedup', told')
  BY <1>1, <1>2, <1>3, PlainAnswer DEF StaysCompleted
<1>7. PICK e \in LogEntry : /\ e.kind = "IdentityRotated" /\ e.about = d
                            /\ e.number = c.generation
                            /\ log' = Append(log, e) /\ Len(log) < MaxPositions
  BY <1>1, <1>3, <1>4, EntryMade DEF EventKind
<1> HIDE DEF row, m
<1>8. MemberAgrees(log', d, row)
  <2>1. /\ PositionsIn(log', "DeviceRegistered", d) = PositionsIn(log, "DeviceRegistered", d)
        /\ Counted(log', "TunnelKeyRotated", d) = Counted(log, "TunnelKeyRotated", d)
        /\ LatestIn(log', "DeviceRegistered", d) = LatestIn(log, "DeviceRegistered", d)
    BY <1>2, <1>7, PositionsGrow DEF LatestIn
  <2>2. /\ PositionsIn(log', "IdentityRotated", d)
              = PositionsIn(log, "IdentityRotated", d) \union {Len(log) + 1}
        /\ Counted(log', "IdentityRotated", d) = Counted(log, "IdentityRotated", d) + 1
    BY <1>2, <1>7, PositionsJoined
  <2>3. /\ \A k \in {"IdentityRotated", "DeviceRegistered"} :
              \A i \in PositionsIn(log, k, d) : log'[i] = log[i]
        /\ log'[Len(log) + 1] = e
    BY <1>2, <1>7, LogGrows, PositionsFinite
  <2>4. /\ \A i \in PositionsIn(log, "IdentityRotated", d) :
              log[i].number <= MaxCounter => log[i].number <= m.generation
        /\ \A i \in PositionsIn(log, "IdentityRotated", d) : log[i].number \in Nat
    BY <1>2, NumbersAreNat DEF MemberAgrees
  <2>5. \A i \in PositionsIn(log', "IdentityRotated", d) :
           log'[i].number <= MaxCounter => log'[i].number <= row.generation
    <3>1. TAKE i \in PositionsIn(log', "IdentityRotated", d)
    <3>2. CASE i \in PositionsIn(log, "IdentityRotated", d)
      <4>1. log'[i].number = log[i].number
        BY <2>3, <3>2
      <4>2. log[i].number \in Nat /\ (log[i].number <= MaxCounter => log[i].number <= m.generation)
        BY <2>4, <3>2
      <4> QED
        BY <1>4, <1>5, <4>1, <4>2
    <3>3. CASE i = Len(log) + 1
      <4>1. log'[i].number = c.generation
        BY <1>7, <2>3, <3>3
      <4> QED
        BY <1>4, <1>5, <4>1
    <3> QED
      BY <2>2, <3>2, <3>3
  <2>6. GenerationsAgree(log', d, row)
    <3>1. SUFFICES ASSUME NEW i \in LatestIn(log, "DeviceRegistered", d)
                   PROVE  /\ row.generation
                                = Stored(log[i].number + Counted(log', "IdentityRotated", d))
                          /\ row.tkGeneration
                                = Stored(log[i].tkGeneration + Counted(log, "TunnelKeyRotated", d))
      BY <2>1, <2>3 DEF GenerationsAgree, LatestIn
    <3>2. /\ m.generation = Stored(log[i].number + Counted(log, "IdentityRotated", d))
          /\ m.tkGeneration = Stored(log[i].tkGeneration + Counted(log, "TunnelKeyRotated", d))
      BY <1>2 DEF MemberAgrees, GenerationsAgree
    <3>3. log[i].number \in Nat /\ Counted(log, "IdentityRotated", d) \in Nat
      BY <1>2, NumbersAreNat, PositionsFinite DEF LatestIn
    <3>4. row.generation = Stored(log[i].number + (Counted(log, "IdentityRotated", d) + 1))
      <4> DEFINE x == log[i].number
                 y == Counted(log, "IdentityRotated", d)
      <4>1. x \in Nat /\ y \in Nat /\ x + y \in Nat /\ x + (y + 1) = (x + y) + 1
        BY <3>3
      <4>2. row.generation = Stored(Stored(x + y) + 1)
        BY <1>3, <1>5, <3>2
      <4> HIDE DEF x, y
      <4> QED
        BY <4>1, <4>2, StoredIs DEF x, y
    <3> QED
      BY <1>5, <2>2, <3>2, <3>4
  <2>7. row.version > 1 /\ row # NoRow /\ PositionsIn(log, "DeviceRegistered", d) # {}
    <3>1. row.version > 1
      BY <1>4, <1>5
    <3> QED
      BY <1>2, <1>3, <1>4, <1>5, <3>1, RowsMade DEF MemberAgrees
  <2>8. \A i, j \in PositionsIn(log', "DeviceRegistered", d) : log'[i].number = 0 => i = j
    BY <1>2, <2>1, <2>3 DEF MemberAgrees
  <2>9. row.version \in Nat
    BY <1>4, <1>5
  <2> QED
    BY <2>1, <2>5, <2>6, <2>7, <2>8, <2>9 DEF MemberAgrees
<1>9. Single(e) => \A i \in PositionsIn(log, "IdentityRotated", d) : log[i].number # e.number
  <2>1. Single(e) => c.generation <= MaxCounter
    BY <1>7 DEF Single
  <2>2. /\ \A i \in PositionsIn(log, "IdentityRotated", d) :
              log[i].number <= MaxCounter => log[i].number <= m.generation
        /\ \A i \in PositionsIn(log, "IdentityRotated", d) : log[i].number \in Nat
    BY <1>2, NumbersAreNat DEF MemberAgrees
  <2> QED
    BY <1>3, <1>4, <1>7, <2>1, <2>2
<1> QED
  BY <1>1, <1>3, <1>5, <1>6, <1>7, <1>8, <1>9, MemberStep

LEMMA RotateTunnelKeyStep ==
    ASSUME Inductive, NEW c \in Asks("RotateTunnelKey"), RotateTunnelKey(c)
    PROVE  Inductive'
<1> DEFINE d == c.about
           m == members[d]
           row == [m EXCEPT !.tkGeneration = Stored(@ + 1), !.version = @ + 1]
<1>1. c \in Ceremonies /\ c.command = "RotateTunnelKey" /\ d \in Devices
  BY Requests DEF Asks, DeviceCommand
<1>2. /\ m \in Row /\ log \in Seq(LogEntry) /\ MemberAgrees(log, d, m)
      /\ Position \in Nat
  BY <1>1 DEF Inductive, Typed, Agrees, Position
<1>3. /\ m # NoRow
      /\ Append1("TunnelKeyRotated", d, m.tkGeneration + 1)
      /\ members' = [members EXCEPT ![d] = row]
      /\ Answer(c, Position)
      /\ UNCHANGED <<revoked, trustEpoch, pairings, policy, offered>>
  BY DEF RotateTunnelKey, PutDevice
<1>4. /\ m.tkGeneration \in Nat /\ m.version \in Nat /\ m.tkGeneration + 1 \in Nat
      /\ m.version > 0 /\ m.version + 1 \in Nat
      /\ Stored(m.tkGeneration + 1) \in 0 .. MaxCounter
  <2>1. /\ m.tkGeneration \in Nat /\ m.version \in Nat /\ m.tkGeneration + 1 \in Nat
        /\ m.version + 1 \in Nat
    BY <1>2, ControlPlaneAssumption DEF Row
  <2>2. m.version > 0
    BY <1>2, <1>3 DEF MemberAgrees
  <2> QED
    BY <2>1, <2>2, StoredIs
<1>5. /\ row \in Row /\ row.tkGeneration = Stored(m.tkGeneration + 1)
      /\ row.version = m.version + 1
      /\ row.generation = m.generation
  <2> HIDE DEF m
  <2> QED
    BY <1>2, <1>4 DEF Row
<1>6. AnswersAgree(pairings', dedup', told')
  BY <1>1, <1>2, <1>3, PlainAnswer DEF StaysCompleted
<1>7. PICK e \in LogEntry : /\ e.kind = "TunnelKeyRotated" /\ e.about = d
                            /\ log' = Append(log, e) /\ Len(log) < MaxPositions
  BY <1>1, <1>3, <1>4, EntryMade DEF EventKind
<1> HIDE DEF row, m
<1>8. MemberAgrees(log', d, row)
  <2>1. /\ PositionsIn(log', "DeviceRegistered", d) = PositionsIn(log, "DeviceRegistered", d)
        /\ PositionsIn(log', "IdentityRotated", d) = PositionsIn(log, "IdentityRotated", d)
        /\ Counted(log', "IdentityRotated", d) = Counted(log, "IdentityRotated", d)
        /\ LatestIn(log', "DeviceRegistered", d) = LatestIn(log, "DeviceRegistered", d)
    BY <1>2, <1>7, PositionsGrow DEF LatestIn
  <2>2. Counted(log', "TunnelKeyRotated", d) = Counted(log, "TunnelKeyRotated", d) + 1
    BY <1>2, <1>7, PositionsJoined
  <2>3. \A k \in {"IdentityRotated", "DeviceRegistered"} :
           \A i \in PositionsIn(log, k, d) : log'[i] = log[i]
    BY <1>2, <1>7, LogGrows, PositionsFinite
  <2>4. GenerationsAgree(log', d, row)
    <3>1. SUFFICES ASSUME NEW i \in LatestIn(log, "DeviceRegistered", d)
                   PROVE  /\ row.generation
                                = Stored(log[i].number + Counted(log, "IdentityRotated", d))
                          /\ row.tkGeneration
                                = Stored(log[i].tkGeneration + Counted(log', "TunnelKeyRotated", d))
      BY <2>1, <2>3 DEF GenerationsAgree, LatestIn
    <3>2. /\ m.generation = Stored(log[i].number + Counted(log, "IdentityRotated", d))
          /\ m.tkGeneration = Stored(log[i].tkGeneration + Counted(log, "TunnelKeyRotated", d))
      BY <1>2 DEF MemberAgrees, GenerationsAgree
    <3>3. log[i].tkGeneration \in Nat /\ Counted(log, "TunnelKeyRotated", d) \in Nat
      BY <1>2, NumbersAreNat, PositionsFinite DEF LatestIn
    <3>4. row.tkGeneration = Stored(log[i].tkGeneration + (Counted(log, "TunnelKeyRotated", d) + 1))
      <4> DEFINE x == log[i].tkGeneration
                 y == Counted(log, "TunnelKeyRotated", d)
      <4>1. x \in Nat /\ y \in Nat /\ x + y \in Nat /\ x + (y + 1) = (x + y) + 1
        BY <3>3
      <4>2. row.tkGeneration = Stored(Stored(x + y) + 1)
        BY <1>5, <3>2
      <4> HIDE DEF x, y
      <4> QED
        BY <4>1, <4>2, StoredIs DEF x, y
    <3> QED
      BY <1>5, <2>2, <3>2, <3>4
  <2>5. row.version > 1 /\ row # NoRow /\ PositionsIn(log, "DeviceRegistered", d) # {}
    <3>1. row.version > 1
      BY <1>4, <1>5
    <3> QED
      BY <1>2, <1>3, <1>4, <1>5, <3>1, RowsMade DEF MemberAgrees
  <2>6. \A i \in PositionsIn(log', "IdentityRotated", d) :
           log'[i].number <= MaxCounter => log'[i].number <= row.generation
    BY <1>2, <1>5, <2>1, <2>3 DEF MemberAgrees
  <2>7. \A i, j \in PositionsIn(log', "DeviceRegistered", d) : log'[i].number = 0 => i = j
    BY <1>2, <2>1, <2>3 DEF MemberAgrees
  <2>8. row.version \in Nat
    BY <1>4, <1>5
  <2> QED
    BY <2>1, <2>4, <2>5, <2>6, <2>7, <2>8 DEF MemberAgrees
<1> QED
  BY <1>1, <1>3, <1>5, <1>6, <1>7, <1>8, MemberStep DEF Single

LEMMA UpdateMetadataStep ==
    ASSUME Inductive, NEW d \in Devices, NEW v \in 1 .. MaxPositions, UpdateMetadata(d, v)
    PROVE  Inductive'
<1> DEFINE m == members[d]
           row == [m EXCEPT !.version = v + 1]
<1>1. m \in Row /\ log \in Seq(LogEntry) /\ MemberAgrees(log, d, m) /\ MaxPositions \in Nat
  BY ControlPlaneAssumption DEF Inductive, Typed, Agrees
<1>2. /\ m # NoRow /\ v = m.version
      /\ Append1("DeviceMetadataUpdated", d, v + 1)
      /\ members' = [members EXCEPT ![d] = row]
      /\ UNCHANGED <<revoked, trustEpoch, pairings, policy, offered, dedup, told>>
  BY DEF UpdateMetadata, PutDevice
<1>3. v \in Nat /\ v + 1 \in Nat /\ v + 1 > 1
  BY <1>1
<1>4. /\ row \in Row /\ row.version = v + 1
      /\ row.generation = m.generation /\ row.tkGeneration = m.tkGeneration
  <2> HIDE DEF m
  <2> QED
    BY <1>1, <1>3 DEF Row
<1>5. PICK e \in LogEntry : /\ e.kind = "DeviceMetadataUpdated" /\ e.about = d
                            /\ log' = Append(log, e) /\ Len(log) < MaxPositions
  BY <1>2, <1>3, EntryMade DEF EventKind
<1> HIDE DEF row, m
<1>6. MemberAgrees(log', d, m)
  BY <1>1, <1>5, MemberKeeps
<1>7. MemberAgrees(log', d, row)
  BY <1>1, <1>2, <1>3, <1>4, <1>6, RowRewritten
<1>8. AnswersAgree(pairings', dedup', told')
  BY <1>2 DEF Inductive
<1> QED
  BY <1>2, <1>4, <1>5, <1>7, <1>8, MemberStep DEF Single

(* Two entries at once: the second tells of no table. *)
LEMMA RevokeStep ==
    ASSUME Inductive, NEW c \in Asks("RevokeDevice"), RevokeDevice(c)
    PROVE  Inductive'
<1> DEFINE d == c.about
           m == members[d]
<1>1. c \in Ceremonies /\ c.command = "RevokeDevice" /\ d \in Devices
  BY Requests DEF Asks, DeviceCommand
<1>2. UNCHANGED <<pairings, policy, offered>>
  BY DEF RevokeDevice
<1>3. log \in Seq(LogEntry) /\ Len(log) \in Nat /\ MaxPositions \in Nat /\ Position \in Nat
  BY ControlPlaneAssumption DEF Inductive, Typed, Position
<1>4. ASSUME NEW outcome \in Nat, Answer(c, outcome)
      PROVE  AnswersAgree(pairings', dedup', told')
  BY <1>1, <1>2, <1>4, PlainAnswer DEF StaysCompleted
<1>5. CASE Answer(c, 0) /\ UNCHANGED <<log, members, revoked, trustEpoch>>
  BY <1>2, <1>4, <1>5, TablesKept
<1>6. CASE /\ d \notin revoked
           /\ Len(log) + 2 <= MaxPositions
           /\ trustEpoch' = trustEpoch + 1
           /\ revoked' = revoked \union {d}
           /\ members' = IF m = NoRow THEN members
                         ELSE [members EXCEPT ![d].revoked = TRUE, ![d].version = @ + 1]
           /\ log' = log \o << Entry("DeviceRevoked", d, trustEpoch + 1),
                               Entry("PeerRemoved", d, 0) >>
           /\ Answer(c, Position)
  <2> DEFINE e1 == Entry("DeviceRevoked", d, trustEpoch + 1)
             e2 == Entry("PeerRemoved", d, 0)
             k == Append(log, e1)
  <2>1. /\ revoked \subseteq Devices /\ IsFiniteSet(revoked)
        /\ trustEpoch = Cardinality(revoked) /\ trustEpoch \in Nat
    BY FS_CardinalityType DEF Inductive, Typed
  <2>2. /\ revoked' \subseteq Devices /\ IsFiniteSet(revoked')
        /\ trustEpoch' = Cardinality(revoked')
    <3>1. IsFiniteSet(revoked \union {d}) /\ Cardinality(revoked \union {d}) = Cardinality(revoked) + 1
      BY <1>6, <2>1, FS_AddElement
    <3> QED
      BY <1>1, <1>6, <2>1, <3>1
  <2>3. /\ e1 \in LogEntry /\ e1.kind = "DeviceRevoked" /\ e1.about = d
        /\ e1.number = trustEpoch + 1
        /\ e2 \in LogEntry /\ e2.kind = "PeerRemoved"
    BY <1>1, <2>1 DEF LogEntry, Written, EventKind, Entry
  <2>4. log' = log \o <<e1, e2>>
    BY <1>6
  <2> HIDE DEF e1, e2
  <2>5. log' = Append(k, e2) /\ k \in Seq(LogEntry) /\ Len(k) = Len(log) + 1
    BY <1>3, <2>3, <2>4
  <2> HIDE DEF k
  <2>6. Agrees(log, members, revoked, trustEpoch, offered, pairings)
    BY DEF Inductive
  <2>7. \A i \in PositionsIn(log, "DeviceRevoked", d) : log[i].number # e1.number
    <3>1. PositionsIn(log, "DeviceRevoked", d) = {}
      BY <1>6, <2>6 DEF Agrees, RevocationsAgree, PositionsIn
    <3> QED
      BY <3>1
  <2>8. Agrees(k, members, revoked', trustEpoch', offered, pairings)
    <3>1. RevocationsAgree(k, revoked', trustEpoch')
      BY <1>3, <1>6, <2>3, <2>6, EntryKeeps DEF k
    <3>2. /\ \A o \in Devices : MemberAgrees(k, o, members[o])
          /\ \A o \in Devices, set \in Sets : OfferAgrees(k, o, set, offered[<<o, set>>])
          /\ \A p \in Pairings : PairingAgrees(k, p, pairings[p])
          /\ Unique(k)
      BY <1>3, <2>3, <2>6, <2>7, EntryKeeps, OfferKinds DEF k, MemberKind, OfferKind, PairingKind
    <3> QED
      BY <3>1, <3>2 DEF Agrees
  <2>9. /\ log' \in Seq(LogEntry) /\ Len(log') = Len(log) + 2
        /\ RevocationsAgree(log', revoked', trustEpoch')
        /\ \A o \in Devices : MemberAgrees(log', o, members[o])
        /\ \A o \in Devices, set \in Sets : OfferAgrees(log', o, set, offered[<<o, set>>])
        /\ \A p \in Pairings : PairingAgrees(log', p, pairings[p])
        /\ Unique(log')
    <3>1. log' \in Seq(LogEntry) /\ Len(log') = Len(log) + 2
      BY <1>3, <2>3, <2>5, LogGrows
    <3>2. RevocationsAgree(log', revoked', trustEpoch')
      BY <2>3, <2>5, <2>8, EntryKeeps
    <3>3. /\ \A o \in Devices : MemberAgrees(log', o, members[o])
          /\ \A o \in Devices, set \in Sets : OfferAgrees(log', o, set, offered[<<o, set>>])
          /\ \A p \in Pairings : PairingAgrees(log', p, pairings[p])
          /\ Unique(log')
      BY <2>3, <2>5, <2>8, EntryKeeps, OfferKinds DEF MemberKind, OfferKind, PairingKind, Single
    <3> QED
      BY <3>1, <3>2, <3>3
  <2>10. members' \in [Devices -> Row] /\ \A o \in Devices : MemberAgrees(log', o, members'[o])
    <3>1. members \in [Devices -> Row] /\ m \in Row
      BY <1>1 DEF Inductive, Typed
    <3>2. CASE m = NoRow
      BY <1>6, <2>9, <3>1, <3>2
    <3>3. CASE m # NoRow
      <4> DEFINE row == [m EXCEPT !.revoked = TRUE, !.version = @ + 1]
      <4>1. m.version \in Nat /\ m.version + 1 \in Nat /\ m.version + 1 > 1
        <5>1. m.version > 0
          BY <1>1, <2>6, <3>3 DEF Agrees, MemberAgrees
        <5> QED
          BY <3>1, <5>1 DEF Row
      <4>2. /\ row \in Row /\ row.version = m.version + 1
            /\ row.generation = m.generation /\ row.tkGeneration = m.tkGeneration
        <5> HIDE DEF m
        <5> QED
          BY <3>1, <4>1 DEF Row
      <4>3. members' = [members EXCEPT ![d] = row]
        BY <1>1, <1>6, <3>1, <3>3
      <4> HIDE DEF row
      <4>4. MemberAgrees(log', d, row)
        BY <1>1, <2>9, <3>1, <3>3, <4>1, <4>2, RowRewritten
      <4> QED
        BY <1>1, <2>9, <3>1, <4>2, <4>3, <4>4
    <3> QED
      BY <3>2, <3>3
  <2>11. Agrees(log, members, revoked, trustEpoch, offered, pairings)'
    BY <1>2, <2>9, <2>10 DEF Agrees
  <2>12. Typed'
    <3>1. Len(log') <= MaxPositions
      BY <1>6, <2>9
    <3> QED
      BY <1>2, <2>2, <2>9, <2>10, <3>1 DEF Inductive, Typed
  <2> QED
    BY <1>3, <1>4, <1>6, <2>11, <2>12 DEF Inductive
<1> QED
  BY <1>5, <1>6 DEF RevokeDevice

(* A step that writes one pairing and the entry that tells of it. *)
LEMMA PairingStep ==
    ASSUME Inductive, NEW p \in Pairings, NEW row \in Pairing, NEW e \in LogEntry,
           e.kind \in PairingKind, e.about = p,
           log' = Append(log, e), Len(log) < MaxPositions,
           pairings' = [pairings EXCEPT ![p] = row], PairingAgrees(log', p, row),
           Single(e) => PositionsIn(log, e.kind, p) = {},
           UNCHANGED <<members, revoked, trustEpoch, policy, offered>>,
           AnswersAgree(pairings', dedup', told')
    PROVE  Inductive'
<1>1. pairings \in [Pairings -> Pairing] /\ log \in Seq(LogEntry)
  BY DEF Inductive, Typed
<1>2. /\ pairings' \in [Pairings -> Pairing]
      /\ \A o \in Pairings : PairingAgrees(log', o, pairings'[o])
  BY <1>1, LoggedStep
<1>3. /\ log' \in Seq(LogEntry) /\ Len(log') <= MaxPositions
      /\ RevocationsAgree(log', revoked, trustEpoch)
      /\ \A d \in Devices : MemberAgrees(log', d, members[d])
      /\ \A d \in Devices, set \in Sets : OfferAgrees(log', d, set, offered[<<d, set>>])
      /\ Unique(log')
  BY LoggedStep, OfferKinds DEF MemberKind, OfferKind, PairingKind
<1>4. Agrees(log, members, revoked, trustEpoch, offered, pairings)'
  BY <1>2, <1>3 DEF Agrees
<1>5. Typed'
  BY <1>2, <1>3 DEF Inductive, Typed
<1> QED
  BY <1>4, <1>5 DEF Inductive

(* What the log says of a pairing after one more entry about it. *)
LEMMA PairingTold ==
    ASSUME NEW S, NEW l \in Seq(S), NEW e \in S, NEW p,
           NEW mine \in PairingKind, e.kind = mine, e.about = p
    PROVE  /\ \A kind \in PairingKind \ {mine} :
                 PositionsIn(Append(l, e), kind, p) = PositionsIn(l, kind, p)
           /\ PositionsIn(Append(l, e), mine, p) = PositionsIn(l, mine, p) \union {Len(l) + 1}
           /\ PositionsIn(Append(l, e), mine, p) # {}
<1>1. \A kind \in PairingKind \ {mine} :
         PositionsIn(Append(l, e), kind, p) = PositionsIn(l, kind, p)
  BY PositionsGrow
<1>2. /\ PositionsIn(Append(l, e), mine, p) = PositionsIn(l, mine, p) \union {Len(l) + 1}
      /\ PositionsIn(Append(l, e), mine, p) # {}
  BY PositionsJoined
<1> QED
  BY <1>1, <1>2

LEMMA BeginPairingStep ==
    ASSUME Inductive, NEW c \in Asks("BeginPairing"), BeginPairing(c)
    PROVE  Inductive'
<1> DEFINE p == c.about
           row == [NoPairing EXCEPT !.state = "Pending", !.version = 1, !.initiator = c.caller]
<1>1. c \in Ceremonies /\ c.command = "BeginPairing" /\ p \in Pairings /\ c.caller \in Devices
  BY Requests DEF Asks, PairingCommand
<1>2. UNCHANGED <<members, revoked, trustEpoch, policy, offered>>
  BY DEF BeginPairing
<1>3. /\ log \in Seq(LogEntry) /\ Len(log) \in Nat /\ Position \in Nat
      /\ pairings \in [Pairings -> Pairing]
      /\ PairingAgrees(log, p, pairings[p])
  BY <1>1 DEF Inductive, Typed, Position, Agrees
<1>4. CASE Answer(c, 0) /\ UNCHANGED <<log, pairings>>
  <2>1. AnswersAgree(pairings', dedup', told')
    BY <1>1, <1>4, PlainAnswer DEF StaysCompleted
  <2> QED
    BY <1>2, <1>4, <2>1, TablesKept
<1>5. CASE /\ pairings[p] = NoPairing /\ Append1("PairingRequested", p, 0)
           /\ PutPairing(p, row) /\ Answer(c, Position)
  <2>1. NoPairing \in Pairing /\ NoPairing.state = "None"
    BY DEF NoPairing, Pairing, PairingState
  <2>2. row \in Pairing /\ row.state = "Pending"
    BY <1>1, <2>1 DEF Pairing, PairingState
  <2>3. pairings' = [pairings EXCEPT ![p] = row]
    BY <1>5 DEF PutPairing
  <2> HIDE DEF row
  <2>4. PICK e \in LogEntry : /\ e.kind = "PairingRequested" /\ e.about = p
                              /\ log' = Append(log, e) /\ Len(log) < MaxPositions
    BY <1>1, <1>5, EntryMade DEF EventKind
  <2>5. StaysCompleted(pairings, pairings')
    BY <1>3, <1>5, <2>1, <2>3 DEF StaysCompleted
  <2>6. AnswersAgree(pairings', dedup', told')
    BY <1>1, <1>3, <1>5, <2>5, PlainAnswer
  <2>7. /\ PositionsIn(log', "PairingRequested", p) # {}
        /\ \A kind \in PairingKind \ {"PairingRequested"} :
              PositionsIn(log', kind, p) = PositionsIn(log, kind, p)
    BY <1>3, <2>4, PairingTold DEF PairingKind
  <2>8. PairingAgrees(log', p, row)
    BY <1>3, <1>5, <2>1, <2>2, <2>7 DEF PairingAgrees, PairingKind
  <2>9. PositionsIn(log, "PairingRequested", p) = {}
    BY <1>3, <1>5, <2>1 DEF PairingAgrees
  <2> QED
    BY <1>1, <1>2, <2>2, <2>3, <2>4, <2>6, <2>8, <2>9, PairingStep DEF PairingKind, Single
<1> QED
  BY <1>4, <1>5 DEF BeginPairing

LEMMA CompletePairingStep ==
    ASSUME Inductive, NEW c \in Asks("CompletePairing"), CompletePairing(c)
    PROVE  Inductive'
<1> DEFINE p == c.about
           r == pairings[p]
           row == [r EXCEPT !.state = "Completed", !.version = @ + 1, !.outcome = Position]
<1>1. c \in Ceremonies /\ c.command = "CompletePairing" /\ p \in Pairings
  BY Requests DEF Asks, PairingCommand
<1>2. UNCHANGED <<members, revoked, trustEpoch, policy, offered>>
  BY DEF CompletePairing
<1>3. /\ log \in Seq(LogEntry) /\ Position \in Nat
      /\ pairings \in [Pairings -> Pairing] /\ r \in Pairing
      /\ PairingAgrees(log, p, r)
  BY <1>1 DEF Inductive, Typed, Position, Agrees
<1>4. CASE r.state = "Completed" /\ Answer(c, r.outcome) /\ UNCHANGED <<log, pairings>>
  <2>1. r.outcome \in Nat
    BY <1>3 DEF Pairing
  <2>2. AnswersAgree(pairings', dedup', told')
    BY <1>1, <1>4, <2>1, AnswerAgrees DEF StaysCompleted
  <2> QED
    BY <1>2, <1>4, <2>2, TablesKept
<1>5. CASE /\ r.state = "Pending" /\ Append1("PairingApproved", p, 0)
           /\ PutPairing(p, row) /\ Answer(c, Position)
  <2>1. r.version \in Nat /\ r.version + 1 \in Nat
    BY <1>3 DEF Pairing
  <2>2. row \in Pairing /\ row.state = "Completed" /\ row.outcome = Position
    <3> HIDE DEF r
    <3> QED
      BY <1>3, <2>1 DEF Pairing, PairingState
  <2>3. pairings' = [pairings EXCEPT ![p] = row]
    BY <1>5 DEF PutPairing
  <2> HIDE DEF row
  <2>4. PICK e \in LogEntry : /\ e.kind = "PairingApproved" /\ e.about = p
                              /\ log' = Append(log, e) /\ Len(log) < MaxPositions
    BY <1>1, <1>5, EntryMade DEF EventKind
  <2>5. StaysCompleted(pairings, pairings')
    BY <1>3, <1>5, <2>3 DEF StaysCompleted
  <2>6. AnswersAgree(pairings', dedup', told')
    BY <1>1, <1>3, <1>5, <2>2, <2>3, <2>5, AnswerAgrees
  <2>7. /\ PositionsIn(log', "PairingApproved", p)
              = PositionsIn(log, "PairingApproved", p) \union {Position}
        /\ \A kind \in PairingKind \ {"PairingApproved"} :
              PositionsIn(log', kind, p) = PositionsIn(log, kind, p)
    BY SMTT(40), <1>3, <2>4, PairingTold DEF PairingKind, Position
  <2>8. PositionsIn(log, "PairingApproved", p) = {}
    BY <1>3, <1>5 DEF PairingAgrees
  <2>9. PairingAgrees(log', p, row)
    BY <1>3, <1>5, <2>2, <2>7, <2>8 DEF PairingAgrees, PairingKind
  <2> QED
    BY <1>1, <1>2, <2>2, <2>3, <2>4, <2>6, <2>8, <2>9, PairingStep DEF PairingKind, Single
<1> QED
  BY <1>4, <1>5 DEF CompletePairing

LEMMA CancelPairingStep ==
    ASSUME Inductive, NEW c \in Asks("CancelPairing"), CancelPairing(c)
    PROVE  Inductive'
<1> DEFINE p == c.about
           r == pairings[p]
           row == [r EXCEPT !.state = "Cancelled", !.version = @ + 1]
<1>1. c \in Ceremonies /\ c.command = "CancelPairing" /\ p \in Pairings
  BY Requests DEF Asks, PairingCommand
<1>2. /\ r.state = "Pending" /\ Append1("PairingRejected", p, 0)
      /\ PutPairing(p, row) /\ Answer(c, Position)
      /\ UNCHANGED <<members, revoked, trustEpoch, policy, offered>>
  BY DEF CancelPairing
<1>3. /\ log \in Seq(LogEntry) /\ Position \in Nat
      /\ pairings \in [Pairings -> Pairing] /\ r \in Pairing
      /\ PairingAgrees(log, p, r)
  BY <1>1 DEF Inductive, Typed, Position, Agrees
<1>4. r.version \in Nat /\ r.version + 1 \in Nat
  BY <1>3 DEF Pairing
<1>5. row \in Pairing /\ row.state = "Cancelled"
  <2> HIDE DEF r
  <2> QED
    BY <1>3, <1>4 DEF Pairing, PairingState
<1>6. pairings' = [pairings EXCEPT ![p] = row]
  BY <1>2 DEF PutPairing
<1> HIDE DEF row
<1>7. PICK e \in LogEntry : /\ e.kind = "PairingRejected" /\ e.about = p
                            /\ log' = Append(log, e) /\ Len(log) < MaxPositions
  BY <1>1, <1>2, EntryMade DEF EventKind
<1>8. StaysCompleted(pairings, pairings')
  BY <1>2, <1>3, <1>6 DEF StaysCompleted
<1>9. AnswersAgree(pairings', dedup', told')
  BY <1>1, <1>2, <1>3, <1>8, PlainAnswer
<1>10. /\ PositionsIn(log', "PairingRejected", p) # {}
       /\ \A kind \in PairingKind \ {"PairingRejected"} :
             PositionsIn(log', kind, p) = PositionsIn(log, kind, p)
  BY <1>3, <1>7, PairingTold DEF PairingKind
<1>11. PairingAgrees(log', p, row)
  BY <1>2, <1>3, <1>5, <1>10 DEF PairingAgrees, PairingKind
<1>12. PositionsIn(log, "PairingRejected", p) = {}
  BY <1>2, <1>3 DEF PairingAgrees
<1> QED
  BY <1>1, <1>2, <1>5, <1>6, <1>7, <1>9, <1>11, <1>12, PairingStep DEF PairingKind, Single

(* The trigger refuses the row unless it was pending, or revoked already. *)
LEMMA RevokePairingStep ==
    ASSUME Inductive, NEW c \in Asks("RevokePairing"), RevokePairing(c)
    PROVE  Inductive'
<1> DEFINE p == c.about
           r == pairings[p]
           row == [r EXCEPT !.state = "Revoked", !.version = @ + 1]
<1>1. c \in Ceremonies /\ c.command = "RevokePairing" /\ p \in Pairings
  BY Requests DEF Asks, PairingCommand
<1>2. /\ r # NoPairing /\ Append1("PairingRevoked", p, 0)
      /\ PutPairing(p, row) /\ Answer(c, Position)
      /\ UNCHANGED <<members, revoked, trustEpoch, policy, offered>>
  BY DEF RevokePairing
<1>3. /\ log \in Seq(LogEntry) /\ Position \in Nat
      /\ pairings \in [Pairings -> Pairing] /\ r \in Pairing
      /\ PairingAgrees(log, p, r)
  BY <1>1 DEF Inductive, Typed, Position, Agrees
<1>4. r.version \in Nat /\ r.version + 1 \in Nat
  BY <1>3 DEF Pairing
<1>5. row \in Pairing /\ row.state = "Revoked"
  <2> HIDE DEF r
  <2> QED
    BY <1>3, <1>4 DEF Pairing, PairingState
<1>6. /\ pairings' = [pairings EXCEPT ![p] = row]
      /\ r.state \notin {"None", "Pending"} => row.state = r.state
  BY <1>2 DEF PutPairing, PairingAdmits
<1> HIDE DEF row
<1>7. r.state \in {"Pending", "Revoked"}
  BY <1>2, <1>3, <1>5, <1>6 DEF PairingAgrees
<1>8. PICK e \in LogEntry : /\ e.kind = "PairingRevoked" /\ e.about = p
                            /\ log' = Append(log, e) /\ Len(log) < MaxPositions
  BY <1>1, <1>2, EntryMade DEF EventKind
<1>9. StaysCompleted(pairings, pairings')
  BY <1>3, <1>6, <1>7 DEF StaysCompleted
<1>10. AnswersAgree(pairings', dedup', told')
  BY <1>1, <1>2, <1>3, <1>9, PlainAnswer
<1>11. /\ PositionsIn(log', "PairingRevoked", p) # {}
       /\ \A kind \in PairingKind \ {"PairingRevoked"} :
             PositionsIn(log', kind, p) = PositionsIn(log, kind, p)
  BY SMTT(40), <1>3, <1>8, PairingTold DEF PairingKind
<1>12. PairingAgrees(log', p, row)
  BY <1>3, <1>5, <1>7, <1>11 DEF PairingAgrees, PairingKind
<1> QED
  BY <1>1, <1>2, <1>5, <1>6, <1>8, <1>10, <1>12, PairingStep DEF PairingKind, Single

LEMMA PutPolicyStep ==
    ASSUME Inductive, NEW c \in Asks("PutPolicy"), PutPolicy(c)
    PROVE  Inductive'
<1>1. c \in Ceremonies /\ c.command = "PutPolicy" /\ c.about \in Digests /\ c.version \in Versions
  BY Requests DEF Asks
<1>2. /\ policy' = [version |-> c.version, digest |-> c.about]
      /\ Append1("PolicyBundleUpdated", c.about, c.version)
      /\ Answer(c, Position)
      /\ UNCHANGED <<members, revoked, trustEpoch, pairings, offered>>
  BY DEF PutPolicy
<1>3. c.version \in Nat /\ Position \in Nat
  <2>1. Versions \subseteq Nat
    BY ControlPlaneAssumption
  <2>2. Position \in Nat
    BY DEF Inductive, Typed, Position
  <2> QED
    BY <1>1, <2>1, <2>2
<1>4. PICK e \in LogEntry : /\ e.kind = "PolicyBundleUpdated"
                            /\ log' = Append(log, e) /\ Len(log) < MaxPositions
  BY <1>1, <1>2, <1>3, EntryMade DEF EventKind
<1>5. AnswersAgree(pairings', dedup', told')
  BY <1>1, <1>2, <1>3, PlainAnswer DEF StaysCompleted
<1>6. /\ log' \in Seq(LogEntry) /\ Len(log') <= MaxPositions
      /\ RevocationsAgree(log', revoked, trustEpoch)
      /\ \A d \in Devices : MemberAgrees(log', d, members[d])
      /\ \A d \in Devices, set \in Sets : OfferAgrees(log', d, set, offered[<<d, set>>])
      /\ \A p \in Pairings : PairingAgrees(log', p, pairings[p])
      /\ Unique(log')
  BY <1>4, LoggedStep, OfferKinds DEF MemberKind, OfferKind, PairingKind, Single
<1>7. Agrees(log, members, revoked, trustEpoch, offered, pairings)'
  BY <1>2, <1>6 DEF Agrees
<1>8. Typed'
  BY <1>1, <1>2, <1>6 DEF Inductive, Typed
<1> QED
  BY <1>5, <1>7, <1>8 DEF Inductive

LEMMA AdvertiseStep ==
    ASSUME Inductive, NEW d \in Devices, NEW set \in Sets, NEW change \in {"put", "withdraw"},
           NEW epoch \in Epochs, Advertise(d, set, change, epoch)
    PROVE  Inductive'
<1> DEFINE kind == Kind[set][change]
<1>1. /\ epoch > offered[<<d, set>>]
      /\ offered' = [offered EXCEPT ![<<d, set>>] = epoch]
      /\ Append1(kind, d, epoch)
      /\ UNCHANGED <<members, revoked, trustEpoch, pairings, policy, dedup, told>>
  BY DEF Advertise
<1>2. /\ kind \in OfferKind
      /\ \A other \in Sets : kind \in {Kind[other].put, Kind[other].withdraw} => other = set
  BY OfferKinds
<1> HIDE DEF kind
<1>3. /\ log \in Seq(LogEntry) /\ epoch \in Nat
      /\ offered \in [Devices \X Sets -> {0} \union Epochs] /\ <<d, set>> \in Devices \X Sets
      /\ offered[<<d, set>>] \in Nat
  <2>1. log \in Seq(LogEntry) /\ offered \in [Devices \X Sets -> {0} \union Epochs]
    BY DEF Inductive, Typed
  <2>2. Epochs \subseteq Nat /\ {0} \union Epochs \subseteq Nat
    BY ControlPlaneAssumption
  <2>3. epoch \in Nat /\ <<d, set>> \in Devices \X Sets
    BY <2>2
  <2>4. offered[<<d, set>>] \in {0} \union Epochs
    BY <2>1, <2>3
  <2>5. offered[<<d, set>>] \in Nat
    BY Zenon, <2>2, <2>4
  <2> QED
    BY <2>1, <2>3, <2>5
<1>4. /\ kind \in EventKind /\ kind # "DeviceRegistered"
      /\ d \in Devices \union Pairings \union Digests
  BY <1>2 DEF OfferKind, EventKind
<1>5. PICK e \in LogEntry : /\ e.kind = kind /\ e.about = d /\ e.number = epoch
                            /\ log' = Append(log, e) /\ Len(log) < MaxPositions
  BY <1>1, <1>3, <1>4, EntryMade
<1>6. /\ log' \in Seq(LogEntry) /\ Len(log') <= MaxPositions
      /\ RevocationsAgree(log', revoked, trustEpoch)
      /\ \A o \in Devices : MemberAgrees(log', o, members[o])
      /\ \A p \in Pairings : PairingAgrees(log', p, pairings[p])
      /\ Unique(log')
  BY <1>2, <1>5, LoggedStep DEF MemberKind, OfferKind, PairingKind, Single
<1>7. \A o \in Devices, other \in Sets : <<o, other>> # <<d, set>> =>
         OfferAgrees(log', o, other, offered[<<o, other>>])
  BY <1>2, <1>5, LoggedStep
<1>8. OfferAgrees(log', d, set, epoch)
  <2>1. OfferAgrees(log, d, set, offered[<<d, set>>])
    BY DEF Inductive, Agrees
  <2>2. SUFFICES ASSUME NEW k \in {Kind[set].put, Kind[set].withdraw},
                        NEW i \in PositionsIn(log', k, d)
                 PROVE  log'[i].number <= epoch
    BY DEF OfferAgrees
  <2>3. i \in PositionsIn(log, k, d) \/ i = Len(log) + 1
    BY <1>3, <1>5, PositionsGrow
  <2>4. CASE i \in PositionsIn(log, k, d)
    <3>1. log'[i] = log[i] /\ log[i].number \in Nat
      BY <1>3, <1>5, <2>4, LogGrows, PositionsFinite, NumbersAreNat
    <3>2. log[i].number <= offered[<<d, set>>]
      BY <2>1, <2>2, <2>4 DEF OfferAgrees
    <3> QED
      BY <1>1, <1>3, <3>1, <3>2
  <2>5. CASE i = Len(log) + 1
    BY <1>3, <1>5, <2>5, LogGrows
  <2> QED
    BY <2>3, <2>4, <2>5
<1>9. /\ offered' \in [Devices \X Sets -> {0} \union Epochs]
      /\ offered'[<<d, set>>] = epoch
      /\ \A o \in Devices, other \in Sets : <<o, other>> # <<d, set>> =>
            offered'[<<o, other>>] = offered[<<o, other>>]
  BY <1>1, <1>3
<1>10. \A o \in Devices, other \in Sets : OfferAgrees(log', o, other, offered'[<<o, other>>])
  BY <1>7, <1>8, <1>9
<1>11. Agrees(log, members, revoked, trustEpoch, offered, pairings)'
  BY <1>1, <1>6, <1>10 DEF Agrees
<1>12. Typed'
  BY <1>1, <1>6, <1>9 DEF Inductive, Typed
<1>13. AnswersAgree(pairings', dedup', told')
  BY <1>1 DEF Inductive
<1> QED
  BY <1>11, <1>12, <1>13 DEF Inductive

LEMMA WindowEndsStep ==
    ASSUME Inductive, NEW c \in Ceremonies, WindowEnds(c)
    PROVE  Inductive'
<1>1. /\ dedup[c].age = "fresh" /\ dedup' = [dedup EXCEPT ![c].age = "aged"]
      /\ UNCHANGED <<log, members, revoked, trustEpoch, pairings, policy, offered, told>>
  BY DEF WindowEnds
<1>2. AnswersAgree(pairings, dedup, told)
  BY DEF Inductive
<1>3. dedup \in [Ceremonies -> [age : {"none", "fresh", "aged"}, outcome : Nat]]
  BY <1>2 DEF AnswersAgree
<1>4. /\ dedup' \in [Ceremonies -> [age : {"none", "fresh", "aged"}, outcome : Nat]]
      /\ \A o \in Ceremonies : /\ dedup'[o].age # "none" => dedup[o].age # "none"
                               /\ dedup'[o].outcome = dedup[o].outcome
  BY <1>1, <1>3
<1>5. AnswersAgree(pairings', dedup', told')
  BY <1>1, <1>2, <1>4 DEF AnswersAgree
<1> QED
  BY <1>1, <1>5, TablesKept

LEMMA PairingOverdueStep ==
    ASSUME Inductive, NEW p \in Pairings, PairingOverdue(p)
    PROVE  Inductive'
<1> DEFINE r == pairings[p]
           row == [r EXCEPT !.overdue = TRUE]
<1>1. /\ r.state = "Pending"
      /\ pairings' = [pairings EXCEPT ![p] = row]
      /\ UNCHANGED <<log, members, revoked, trustEpoch, policy, offered, dedup, told>>
  BY DEF PairingOverdue
<1>2. pairings \in [Pairings -> Pairing] /\ r \in Pairing
  BY DEF Inductive, Typed
<1>3. row \in Pairing /\ row.state = "Pending" /\ row.outcome = r.outcome
  <2> HIDE DEF r
  <2> QED
    BY <1>1, <1>2 DEF Pairing
<1> HIDE DEF row
<1>4. pairings' \in [Pairings -> Pairing]
  BY <1>1, <1>2, <1>3
<1>5. \A o \in Pairings : PairingAgrees(log, o, pairings'[o])
  <2>1. \A o \in Pairings : PairingAgrees(log, o, pairings[o])
    BY DEF Inductive, Agrees
  <2>2. PairingAgrees(log, p, row)
    BY <1>1, <1>3, <2>1 DEF PairingAgrees
  <2> QED
    BY <1>1, <1>2, <2>1, <2>2
<1>6. StaysCompleted(pairings, pairings')
  BY <1>1, <1>2 DEF StaysCompleted
<1>7. AnswersAgree(pairings', dedup', told')
  BY <1>1, <1>6, AnswersKept DEF Inductive
<1>8. Agrees(log, members, revoked, trustEpoch, offered, pairings)'
  BY <1>1, <1>5 DEF Inductive, Agrees
<1>9. Typed'
  BY <1>1, <1>4 DEF Inductive, Typed
<1> QED
  BY <1>7, <1>8, <1>9 DEF Inductive

LEMMA InitInductive == Init => Inductive
<1> SUFFICES ASSUME Init
             PROVE  Inductive
  OBVIOUS
<1>1. \A kind, about : PositionsIn(log, kind, about) = {} /\ Counted(log, kind, about) = 0
  BY FS_EmptySet DEF Init, PositionsIn, Counted
<1>2. NoPairing \in Pairing /\ NoPairing.state = "None"
  BY DEF NoPairing, Pairing, PairingState
<1>3. Typed
  <2>1. log \in Seq(LogEntry) /\ Len(log) <= MaxPositions
    BY ControlPlaneAssumption DEF Init
  <2>2. members \in [Devices -> Row] /\ pairings \in [Pairings -> Pairing]
    BY <1>2, RowsMade DEF Init
  <2>3. revoked \subseteq Devices /\ IsFiniteSet(revoked) /\ trustEpoch = Cardinality(revoked)
    BY FS_EmptySet DEF Init
  <2>4. policy.version \in {0} \union Versions
    BY DEF Init, NoPolicy
  <2>5. offered \in [Devices \X Sets -> {0} \union Epochs]
    BY DEF Init
  <2> QED
    BY <2>1, <2>2, <2>3, <2>4, <2>5 DEF Typed
<1>4. Agrees(log, members, revoked, trustEpoch, offered, pairings)
  <2>1. RevocationsAgree(log, revoked, trustEpoch)
    <3>1. log = <<>> /\ Len(log) = 0 /\ DOMAIN log = {} /\ revoked = {} /\ trustEpoch = 0
      BY DEF Init
    <3>2. Revocations(log, Len(log)) = {}
      BY <3>1 DEF Revocations
    <3> QED
      BY <3>1, <3>2, FS_EmptySet DEF RevocationsAgree
  <2>2. \A d \in Devices : MemberAgrees(log, d, members[d])
    BY <1>1, RowsMade DEF Init, MemberAgrees, GenerationsAgree, LatestIn
  <2>3. \A d \in Devices, set \in Sets : OfferAgrees(log, d, set, offered[<<d, set>>])
    BY <1>1 DEF OfferAgrees
  <2>4. \A p \in Pairings : PairingAgrees(log, p, pairings[p])
    BY <1>1, <1>2 DEF Init, PairingAgrees
  <2>5. Unique(log)
    BY DEF Init, Unique
  <2> QED
    BY <2>1, <2>2, <2>3, <2>4, <2>5 DEF Agrees
<1>5. AnswersAgree(pairings, dedup, told)
  <2>1. /\ \A c \in Ceremonies : dedup[c].age = "none"
        /\ dedup \in [Ceremonies -> [age : {"none", "fresh", "aged"}, outcome : Nat]]
    BY DEF Init, NoRecord
  <2>2. \A p \in Pairings : told[p] = {}
    BY DEF Init
  <2>3. told \in [Pairings -> SUBSET Nat]
    BY DEF Init
  <2> QED
    BY <2>1, <2>2, <2>3 DEF AnswersAgree
<1> QED
  BY <1>3, <1>4, <1>5 DEF Inductive

LEMMA NextInductive == Inductive /\ [Next]_vars => Inductive'
<1> SUFFICES ASSUME Inductive, [Next]_vars
             PROVE  Inductive'
  OBVIOUS
<1>1. CASE UNCHANGED vars
  <2>1. AnswersAgree(pairings', dedup', told')
    BY <1>1 DEF vars, Inductive
  <2> QED
    BY <1>1, <2>1, TablesKept DEF vars
<1>2. CASE Ceremony
  BY <1>2, ReplayStep, RegisterStep, RevokeStep, RotateIdentityStep, RotateTunnelKeyStep,
     BeginPairingStep, CompletePairingStep, CancelPairingStep, RevokePairingStep, PutPolicyStep
     DEF Ceremony
<1>3. CASE \E d \in Devices, v \in 1 .. MaxPositions : UpdateMetadata(d, v)
  BY <1>3, UpdateMetadataStep
<1>4. CASE \E d \in Devices, set \in Sets, change \in {"put", "withdraw"}, e \in Epochs :
              Advertise(d, set, change, e)
  BY <1>4, AdvertiseStep
<1>5. CASE \E c \in Ceremonies : WindowEnds(c)
  BY <1>5, WindowEndsStep
<1>6. CASE \E p \in Pairings : PairingOverdue(p)
  BY <1>6, PairingOverdueStep
<1> QED
  BY <1>1, <1>2, <1>3, <1>4, <1>5, <1>6 DEF Next

LEMMA InductiveHolds == Spec => []Inductive
  BY InitInductive, NextInductive, PTL DEF Spec

(* Types: the tables of one TwinNet hold what their columns may, the epoch  *)
(* of trust counts the revoked devices, and an outcome given is a position  *)
(* of the log.                                                              *)
THEOREM ControlPlaneTypeCorrect == Spec => []TypeOK
<1>1. Inductive => TypeOK
  <2> SUFFICES ASSUME Inductive
               PROVE  TypeOK
    OBVIOUS
  <2>1. log \in Seq(LogEntry) /\ \A i \in DOMAIN log : log[i].about \in Devices \union Pairings \union Digests
    <3>1. log \in Seq(LogEntry)
      BY DEF Inductive, Typed
    <3>2. \A i \in DOMAIN log : log[i] \in LogEntry
      BY <3>1
    <3> QED
      BY <3>1, <3>2 DEF LogEntry, Written
  <2>2. \A d \in Devices : members[d] \in [version : Nat, generation : 0 .. MaxCounter,
                                           tkGeneration : 0 .. MaxCounter, revoked : BOOLEAN]
    BY DEF Inductive, Typed, Row
  <2>3. \A p \in Pairings : pairings[p].state \in
           {"None", "Pending", "Completed", "Cancelled", "Revoked"}
    BY DEF Inductive, Typed, Pairing, PairingState
  <2>4. \A c \in Ceremonies : dedup[c].age \in {"none", "fresh", "aged"}
    BY DEF Inductive, AnswersAgree
  <2>5. told \in [Pairings -> SUBSET (1 .. MaxPositions)]
    <3>1. told \in [Pairings -> SUBSET Nat]
      BY DEF Inductive, AnswersAgree
    <3>2. ASSUME NEW p \in Pairings, NEW n \in told[p]
          PROVE  n \in 1 .. MaxPositions
      <4>1. PositionsIn(log, "PairingApproved", p) = {n}
        BY <3>2 DEF Inductive, Agrees, AnswersAgree, PairingAgrees
      <4>2. n \in 1 .. Len(log) /\ Len(log) \in Nat /\ Len(log) <= MaxPositions
        BY SMTT(40), <2>1, <4>1, PositionsFinite DEF Inductive, Typed
      <4> QED
        BY <4>2, ControlPlaneAssumption
    <3> QED
      BY <3>1, <3>2
  <2>6. /\ Len(log) <= MaxPositions /\ revoked \subseteq Devices
        /\ trustEpoch = Cardinality(revoked)
        /\ policy.version \in {0} \union Versions
        /\ offered \in [Devices \X Sets -> {0} \union Epochs]
    BY DEF Inductive, Typed
  <2> QED
    BY <2>1, <2>2, <2>3, <2>4, <2>5, <2>6 DEF TypeOK
<1> QED
  BY <1>1, InductiveHolds, PTL

(* Everyone a CompletePairing answered was given the one outcome that is in *)
(* the log, however the request was repeated, inside its window or after.   *)
THEOREM OneOutcomeAlways == Spec => []OneOutcome
<1>1. Inductive => OneOutcome
  <2> SUFFICES ASSUME Inductive, NEW p \in Pairings
               PROVE  /\ Cardinality(told[p]) <= 1
                      /\ \A n \in told[p] : /\ Positions("PairingApproved", p) = {n}
                                            /\ Positions("PairingRejected", p) = {}
    BY DEF OneOutcome
  <2>1. \A n \in told[p] : pairings[p].state = "Completed" /\ n = pairings[p].outcome
    BY DEF Inductive, AnswersAgree
  <2>2. /\ pairings[p].state = "Completed" =>
              PositionsIn(log, "PairingApproved", p) = {pairings[p].outcome}
        /\ pairings[p].state = "Completed" => PositionsIn(log, "PairingRejected", p) = {}
    BY DEF Inductive, Agrees, PairingAgrees
  <2>3. told[p] = {} \/ told[p] = {pairings[p].outcome}
    BY <2>1
  <2>4. Cardinality({}) = 0 /\ Cardinality({pairings[p].outcome}) = 1
    BY FS_EmptySet, FS_Singleton
  <2>5. Cardinality(told[p]) = 0 \/ Cardinality(told[p]) = 1
    BY <2>3, <2>4
  <2> QED
    BY <2>1, <2>2, <2>5 DEF Positions, PositionsIn
<1> QED
  BY <1>1, InductiveHolds, PTL

(* An effect is logged once, however often its request is repeated.         *)
THEOREM LoggedOnceAlways == Spec => []LoggedOnce
<1>1. Inductive => LoggedOnce
  <2> SUFFICES ASSUME Inductive, NEW i \in DOMAIN log, NEW j \in DOMAIN log,
                      log[i].kind = log[j].kind, log[i].about = log[j].about,
                      \/ Single(log[i]) /\ log[i].number = log[j].number
                      \/ log[i].kind = "DeviceRegistered" /\ log[i].number = 0
               PROVE  i = j
    BY DEF LoggedOnce
  <2>1. CASE Single(log[i]) /\ log[i].number = log[j].number
    BY <2>1 DEF Inductive, Agrees, Unique
  <2>2. CASE log[i].kind = "DeviceRegistered" /\ log[i].number = 0
    <3>1. log \in Seq(LogEntry) /\ log[i] \in LogEntry
      BY DEF Inductive, Typed
    <3>2. log[i].about \in Devices
      BY <2>2, <3>1 DEF LogEntry
    <3>3. MemberAgrees(log, log[i].about, members[log[i].about])
      BY <3>2 DEF Inductive, Agrees
    <3> QED
      BY <2>2, <3>3 DEF MemberAgrees, PositionsIn
  <2> QED
    BY <2>1, <2>2
<1> QED
  BY <1>1, InductiveHolds, PTL

(* A device that read the whole log would compute the tables: who is revoked *)
(* and at which epoch, the generations, the pairings and the advertisements. *)
THEOREM LogTellsStateAlways == Spec => []LogTellsState
<1>1. Inductive => LogTellsState
  <2> SUFFICES ASSUME Inductive
               PROVE  LogTellsState
    OBVIOUS
  <2>1. Agrees(log, members, revoked, trustEpoch, offered, pairings)
    BY DEF Inductive
  <2>2. \A kind, about : /\ Positions(kind, about) = PositionsIn(log, kind, about)
                         /\ about \in Logged(kind) <=> PositionsIn(log, kind, about) # {}
    BY DEF Positions, PositionsIn, Logged
  <2>3. /\ revoked = Logged("DeviceRevoked")
        /\ \A i \in DOMAIN log : log[i].kind = "DeviceRevoked" =>
              log[i].number = Cardinality({j \in 1..i : log[j].kind = "DeviceRevoked"})
    BY <2>1 DEF Agrees, RevocationsAgree, Revocations, Logged
  <2>4. ASSUME NEW d \in Devices
        PROVE  /\ members[d] # NoRow <=> d \in Logged("DeviceRegistered")
               /\ \A i \in Latest("DeviceRegistered", d) :
                     /\ members[d].generation
                           = Stored(log[i].number + Cardinality(Positions("IdentityRotated", d)))
                     /\ members[d].tkGeneration
                           = Stored(log[i].tkGeneration
                                       + Cardinality(Positions("TunnelKeyRotated", d)))
    <3>1. MemberAgrees(log, d, members[d])
      BY <2>1 DEF Agrees
    <3>2. Latest("DeviceRegistered", d) = LatestIn(log, "DeviceRegistered", d)
      BY <2>2 DEF Latest, LatestIn
    <3> QED
      BY <2>2, <3>1, <3>2 DEF MemberAgrees, GenerationsAgree, Counted
  <2>5. ASSUME NEW d \in Devices, NEW set \in Sets
        PROVE  \A i \in Positions(Kind[set].put, d) \union Positions(Kind[set].withdraw, d) :
                  log[i].number <= offered[<<d, set>>]
    BY <2>1, <2>2 DEF Agrees, OfferAgrees
  <2>6. ASSUME NEW p \in Pairings
        PROVE  /\ pairings[p].state = "Completed" <=>
                     /\ p \in Logged("PairingApproved")
                     /\ p \notin Logged("PairingRevoked")
               /\ pairings[p].state = "Cancelled" => p \in Logged("PairingRejected")
               /\ pairings[p].state = "Revoked" => p \in Logged("PairingRevoked")
    <3>1. PairingAgrees(log, p, pairings[p])
      BY <2>1 DEF Agrees
    <3> QED
      BY <2>2, <3>1 DEF PairingAgrees
  <2> QED
    BY <2>3, <2>4, <2>5, <2>6 DEF LogTellsState
<1> QED
  BY <1>1, InductiveHolds, PTL

----------------------------------------------------------------------------
(***************************************************************************)
(* The event stream.                                                       *)
(***************************************************************************)

(***************************************************************************)
(* Induction over the naturals, on sets: a set that has 0 and with n has   *)
(* n + 1 has them all.  Were t missing, the successor would map the part   *)
(* of 0..t that is there into itself without 0.                            *)
(***************************************************************************)
LEMMA Induct ==
    ASSUME NEW S, 0 \in S, \A n \in Nat : n \in S => n + 1 \in S
    PROVE  Nat \subseteq S
<1> SUFFICES ASSUME NEW t \in Nat, t \notin S PROVE FALSE
  OBVIOUS
<1> DEFINE U == {k \in 0 .. t : k \in S}
           f == [k \in U |-> k + 1]
<1>1. IsFiniteSet(0 .. t) /\ U \in SUBSET (0 .. t)
  BY FS_Interval
<1>2. IsFiniteSet(U)
  BY <1>1, FS_Subset
<1>3. 0 \in U
  OBVIOUS
<1>4. \A k \in U : k + 1 \in U \ {0}
  OBVIOUS
<1>5. f \in [U -> U \ {0}]
  BY <1>4
<1>6. \A a, b \in U : f[a] = f[b] => a = b
  OBVIOUS
<1>7. f \in Injection(U, U \ {0})
  BY <1>5, <1>6 DEF Injection, IsInjective
<1>8. IsFiniteSet(U \ {0}) /\ Cardinality(U \ {0}) = Cardinality(U) - 1
  BY <1>2, <1>3, FS_RemoveElement
<1>9. Cardinality(U) \in Nat
  BY <1>2, FS_CardinalityType
<1> HIDE DEF f, U
<1>10. Cardinality(U) <= Cardinality(U \ {0})
  BY <1>7, <1>8, FS_Injection
<1> QED
  BY <1>8, <1>9, <1>10

-----------------------------------------------------------------------------
(***************************************************************************)
(* The inductive invariant.                                                *)
(***************************************************************************)

(* The positions whose effect a record brings. *)
Covers(r) == IF r.compacted THEN 1 .. r.seq ELSE {r.seq}
ToldBefore(s, i) == UNION {Covers(s[j]) : j \in 1 .. (i - 1)}
Told(s) == ToldBefore(s, Len(s) + 1)

(* Every event of s finds the positions below its own in what is held and   *)
(* in the records before it.                                               *)
InOrder(s, held) ==
    \A i \in 1 .. Len(s) : s[i].compacted \/ 1 .. (s[i].seq - 1) \subseteq held \cup ToldBefore(s, i)

(* The same of positions that are queued. *)
QueuedBefore(q, i) == {q[j] : j \in 1 .. (i - 1)}
QueueInOrder(q, held) ==
    \A i \in 1 .. Len(q) : 1 .. (q[i] - 1) \subseteq held \cup QueuedBefore(q, i)

Stream == wire \o task.out
InHand == IF hand = Idle THEN {} ELSE Covers(hand)
Held == known \cup InHand
Reaches == Held \cup Told(Stream)

Record == [seq : 1 .. head, compacted : BOOLEAN]
Backlog ==
    [queue : Seq(1 .. head), bytes : 0 .. MaxBytes, highest : 0 .. head,
     compacted : {None} \cup (1 .. head)]

StreamTyped ==
    /\ size \in [1 .. MaxLog -> Sizes] /\ head \in 0 .. MaxLog /\ retained \in 1 .. (head + 1)
    /\ cursor \in 0 .. head /\ known \subseteq 1 .. head /\ faults \in 0 .. MaxFaults
    /\ task \in [on : BOOLEAN, cursor : 0 .. head, backlog : Backlog, out : Seq(Record)]
    /\ Len(task.backlog.queue) <= MaxEvents
    /\ wire \in Seq(Record)
    /\ attached \in {None} \cup (0 .. head)
    /\ hand \in {Idle} \cup [seq : 1 .. head, compacted : BOOLEAN, applied : BOOLEAN]

(* What the client has: behind its cursor, and below the record in its hand. *)
ClientHolds ==
    /\ 1 .. cursor \subseteq known
    /\ hand # Idle =>
          /\ hand.compacted \/ 1 .. (hand.seq - 1) \subseteq known
          /\ hand.applied => Covers(hand) \subseteq known

(* What is on its way leaves no hole; the floor skips, for a subscription    *)
(* that begins cold, only what its snapshot read.                           *)
StreamHolds ==
    /\ InOrder(Stream, Held)
    /\ QueueInOrder(task.backlog.queue, Reaches)
    /\ task.on => 1 .. task.cursor \subseteq Reaches
    /\ attached # None => retained <= attached + 1
    /\ task.on /\ task.cursor = 0 => attached # None /\ 1 .. attached \subseteq known

StreamInductive == StreamTyped /\ ClientHolds /\ StreamHolds

-----------------------------------------------------------------------------
(***************************************************************************)
(* Records in order: what is put behind, what is taken off the front.       *)
(***************************************************************************)

LEMMA ToldOfConcat ==
    ASSUME NEW R, NEW s \in Seq(R), NEW t \in Seq(R)
    PROVE  /\ \A i \in 1 .. (Len(s) + 1) : ToldBefore(s \o t, i) = ToldBefore(s, i)
           /\ \A i \in 1 .. (Len(t) + 1) :
                 ToldBefore(s \o t, Len(s) + i) = Told(s) \cup ToldBefore(t, i)
           /\ Told(s \o t) = Told(s) \cup Told(t)
<1> DEFINE u == s \o t
<1>1. /\ Len(s) \in Nat /\ Len(t) \in Nat /\ Len(u) = Len(s) + Len(t)
      /\ \A j \in 1 .. Len(s) : u[j] = s[j]
      /\ \A j \in 1 .. Len(t) : u[Len(s) + j] = t[j]
  OBVIOUS
<1> HIDE DEF u
<1>2. ASSUME NEW i \in 1 .. (Len(s) + 1)
      PROVE  ToldBefore(u, i) = ToldBefore(s, i)
  <2>1. \A j \in 1 .. (i - 1) : u[j] = s[j]
    BY <1>1
  <2> QED
    BY <2>1 DEF ToldBefore
<1>3. ASSUME NEW i \in 1 .. (Len(t) + 1)
      PROVE  ToldBefore(u, Len(s) + i) = Told(s) \cup ToldBefore(t, i)
  <2>1. ASSUME NEW p
        PROVE  p \in ToldBefore(u, Len(s) + i) <=> p \in Told(s) \cup ToldBefore(t, i)
    <3>1. ASSUME p \in ToldBefore(u, Len(s) + i)
          PROVE  p \in Told(s) \cup ToldBefore(t, i)
      <4>1. PICK j \in 1 .. (Len(s) + i - 1) : p \in Covers(u[j])
        BY <1>1, <3>1 DEF ToldBefore
      <4>2. CASE j <= Len(s)
        <5>1. j \in 1 .. (Len(s) + 1 - 1) /\ u[j] = s[j]
          BY <1>1, <4>2
        <5> QED
          BY <4>1, <5>1 DEF Told, ToldBefore
      <4>3. CASE ~(j <= Len(s))
        <5>1. j - Len(s) \in 1 .. (i - 1) /\ u[j] = t[j - Len(s)]
          BY <1>1, <4>3
        <5> QED
          BY <4>1, <5>1 DEF ToldBefore
      <4> QED
        BY <4>2, <4>3
    <3>2. ASSUME p \in Told(s)
          PROVE  p \in ToldBefore(u, Len(s) + i)
      <4>1. PICK j \in 1 .. Len(s) : p \in Covers(s[j])
        BY <1>1, <3>2 DEF Told, ToldBefore
      <4>2. j \in 1 .. (Len(s) + i - 1) /\ u[j] = s[j]
        BY <1>1
      <4> QED
        BY <4>1, <4>2 DEF ToldBefore
    <3>3. ASSUME p \in ToldBefore(t, i)
          PROVE  p \in ToldBefore(u, Len(s) + i)
      <4>1. PICK j \in 1 .. (i - 1) : p \in Covers(t[j])
        BY <3>3 DEF ToldBefore
      <4>2. Len(s) + j \in 1 .. (Len(s) + i - 1) /\ u[Len(s) + j] = t[j]
        BY <1>1
      <4> QED
        BY <4>1, <4>2 DEF ToldBefore
    <3> QED
      BY <3>1, <3>2, <3>3
  <2> QED
    BY <2>1
<1>4. Told(u) = Told(s) \cup Told(t)
  <2>1. Len(t) + 1 \in 1 .. (Len(t) + 1) /\ Len(s) + (Len(t) + 1) = Len(u) + 1
    BY <1>1
  <2>2. ToldBefore(u, Len(s) + (Len(t) + 1)) = Told(s) \cup ToldBefore(t, Len(t) + 1)
    BY <1>3, <2>1
  <2> QED
    BY <2>1, <2>2 DEF Told
<1> QED
  BY <1>2, <1>3, <1>4 DEF u

LEMMA InOrderConcat ==
    ASSUME NEW R, NEW s \in Seq(R), NEW t \in Seq(R), NEW held,
           InOrder(s, held), InOrder(t, held \cup Told(s))
    PROVE  InOrder(s \o t, held)
<1> DEFINE u == s \o t
<1>1. /\ Len(s) \in Nat /\ Len(t) \in Nat /\ Len(u) = Len(s) + Len(t)
      /\ \A j \in 1 .. Len(s) : u[j] = s[j]
      /\ \A j \in 1 .. Len(t) : u[Len(s) + j] = t[j]
  OBVIOUS
<1>2. /\ \A i \in 1 .. (Len(s) + 1) : ToldBefore(u, i) = ToldBefore(s, i)
      /\ \A i \in 1 .. (Len(t) + 1) : ToldBefore(u, Len(s) + i) = Told(s) \cup ToldBefore(t, i)
  BY ToldOfConcat
<1> HIDE DEF u
<1>3. ASSUME NEW i \in 1 .. Len(u)
      PROVE  u[i].compacted \/ 1 .. (u[i].seq - 1) \subseteq held \cup ToldBefore(u, i)
  <2>1. CASE i <= Len(s)
    <3>1. i \in 1 .. Len(s) /\ i \in 1 .. (Len(s) + 1)
      BY <1>1, <2>1
    <3> QED
      BY <1>1, <1>2, <3>1 DEF InOrder
  <2>2. CASE ~(i <= Len(s))
    <3> DEFINE k == i - Len(s)
    <3>1. k \in 1 .. Len(t) /\ k \in 1 .. (Len(t) + 1) /\ i = Len(s) + k
      BY <1>1, <2>2
    <3> HIDE DEF k
    <3>2. u[i] = t[k] /\ ToldBefore(u, i) = Told(s) \cup ToldBefore(t, k)
      BY <1>1, <1>2, <3>1
    <3>3. t[k].compacted \/ 1 .. (t[k].seq - 1) \subseteq (held \cup Told(s)) \cup ToldBefore(t, k)
      BY <3>1 DEF InOrder
    <3> QED
      BY <3>2, <3>3
  <2> QED
    BY <2>1, <2>2
<1> QED
  BY <1>3 DEF InOrder, u

LEMMA InOrderTail ==
    ASSUME NEW R, NEW s \in Seq(R), s # <<>>, NEW held, InOrder(s, held)
    PROVE  /\ InOrder(Tail(s), held \cup Covers(Head(s)))
           /\ Told(s) = Covers(Head(s)) \cup Told(Tail(s))
           /\ Head(s).compacted \/ 1 .. (Head(s).seq - 1) \subseteq held
<1> DEFINE t == Tail(s)
<1>1. /\ Len(s) \in Nat \ {0} /\ Len(t) = Len(s) - 1 /\ Head(s) = s[1]
      /\ \A j \in 1 .. Len(t) : t[j] = s[j + 1]
  OBVIOUS
<1> HIDE DEF t
<1>2. ASSUME NEW i \in 1 .. (Len(t) + 1)
      PROVE  ToldBefore(s, i + 1) = Covers(s[1]) \cup ToldBefore(t, i)
  <2>1. ASSUME NEW p
        PROVE  p \in ToldBefore(s, i + 1) <=> p \in Covers(s[1]) \cup ToldBefore(t, i)
    <3>1. ASSUME p \in ToldBefore(s, i + 1)
          PROVE  p \in Covers(s[1]) \cup ToldBefore(t, i)
      <4>1. PICK j \in 1 .. i : p \in Covers(s[j])
        BY <1>1, <3>1 DEF ToldBefore
      <4>2. CASE j = 1
        BY <4>1, <4>2
      <4>3. CASE j # 1
        <5>1. j - 1 \in 1 .. (i - 1) /\ t[j - 1] = s[j]
          BY <1>1, <4>3
        <5> QED
          BY <4>1, <5>1 DEF ToldBefore
      <4> QED
        BY <4>2, <4>3
    <3>2. ASSUME p \in Covers(s[1])
          PROVE  p \in ToldBefore(s, i + 1)
      <4>1. 1 \in 1 .. (i + 1 - 1)
        BY <1>1
      <4> QED
        BY <3>2, <4>1 DEF ToldBefore
    <3>3. ASSUME p \in ToldBefore(t, i)
          PROVE  p \in ToldBefore(s, i + 1)
      <4>1. PICK j \in 1 .. (i - 1) : p \in Covers(t[j])
        BY <3>3 DEF ToldBefore
      <4>2. j + 1 \in 1 .. (i + 1 - 1) /\ t[j] = s[j + 1]
        BY <1>1
      <4> QED
        BY <4>1, <4>2 DEF ToldBefore
    <3> QED
      BY <3>1, <3>2, <3>3
  <2> QED
    BY <2>1
<1>3. ASSUME NEW i \in 1 .. Len(t)
      PROVE  t[i].compacted
                \/ 1 .. (t[i].seq - 1) \subseteq (held \cup Covers(s[1])) \cup ToldBefore(t, i)
  <2>1. i + 1 \in 1 .. Len(s) /\ i \in 1 .. (Len(t) + 1) /\ t[i] = s[i + 1]
    BY <1>1
  <2>2. s[i + 1].compacted \/ 1 .. (s[i + 1].seq - 1) \subseteq held \cup ToldBefore(s, i + 1)
    BY <2>1 DEF InOrder
  <2> QED
    BY <1>2, <2>1, <2>2
<1>4. Told(s) = Covers(s[1]) \cup Told(t)
  <2>1. Len(t) + 1 \in 1 .. (Len(t) + 1) /\ Len(s) + 1 = (Len(t) + 1) + 1
    BY <1>1
  <2> QED
    BY <1>2, <2>1 DEF Told
<1>5. s[1].compacted \/ 1 .. (s[1].seq - 1) \subseteq held
  <2>1. ToldBefore(s, 1) = {}
    BY DEF ToldBefore
  <2>2. 1 \in 1 .. Len(s)
    BY <1>1
  <2> QED
    BY <2>1, <2>2 DEF InOrder
<1> QED
  BY <1>1, <1>3, <1>4, <1>5 DEF InOrder, t

LEMMA InOrderMore ==
    ASSUME NEW s, NEW held, NEW more, held \subseteq more, InOrder(s, held)
    PROVE  InOrder(s, more)
  BY DEF InOrder

LEMMA QueueInOrderMore ==
    ASSUME NEW q, NEW held, NEW more, held \subseteq more, QueueInOrder(q, held)
    PROVE  QueueInOrder(q, more)
  BY DEF QueueInOrder

-----------------------------------------------------------------------------
(***************************************************************************)
(* A batch pushed upon the backlog, position by position.                   *)
(***************************************************************************)

Before == [task.backlog EXCEPT !.compacted = None]

(* The backlogs on the way, from the one before the batch.                  *)
Backlogs(g, batch, n) ==
    /\ g[0] = Before
    /\ \A k \in 1 .. n : g[k] = Push(g[k - 1], batch[k])

LEMMA PushOnce ==
    ASSUME NEW p, NEW n
    PROVE  (CHOOSE q \in {Push(r, n) : r \in {p}} : TRUE) = Push(p, n)
<1> DEFINE x == Push(p, n)
<1>1. {Push(r, n) : r \in {p}} = {x}
  OBVIOUS
<1> HIDE DEF x
<1>2. (CHOOSE q \in {x} : TRUE) = x
  OBVIOUS
<1> QED
  BY <1>1, <1>2 DEF x

(* The function Pushed is defined by exists, for batches of any length. *)
LEMMA PushesExist ==
    ASSUME NEW batch, NEW m \in Nat
    PROVE  \E g : g = [k \in 0 .. m |->
                          IF k = 0 THEN Before
                          ELSE CHOOSE q \in {Push(p, batch[k]) : p \in {g[k - 1]}} : TRUE]
<1> DEFINE Rec(g, n) == [k \in 0 .. n |->
                            IF k = 0 THEN Before
                            ELSE CHOOSE q \in {Push(p, batch[k]) : p \in {g[k - 1]}} : TRUE]
           S == {n \in Nat : \E g : g = Rec(g, n)}
<1>1. 0 \in S
  <2> DEFINE g == [k \in 0 .. 0 |-> Before]
  <2>1. g = Rec(g, 0)
    OBVIOUS
  <2> QED
    BY <2>1
<1>2. ASSUME NEW n \in Nat, n \in S
      PROVE  n + 1 \in S
  <2>1. PICK g : g = Rec(g, n)
    BY <1>2
  <2> DEFINE h == [k \in 0 .. (n + 1) |-> IF k <= n THEN g[k] ELSE Push(g[n], batch[n + 1])]
  <2>2. \A k \in 0 .. n : g[k] = IF k = 0 THEN Before ELSE Push(g[k - 1], batch[k])
    <3> DEFINE r == Rec(g, n)
    <3>1. \A k \in 0 .. n : r[k] = IF k = 0 THEN Before
                                   ELSE CHOOSE q \in {Push(p, batch[k]) : p \in {g[k - 1]}} : TRUE
      OBVIOUS
    <3>2. g = r
      BY <2>1
    <3> HIDE DEF r
    <3>3. \A k \in 0 .. n : g[k] = IF k = 0 THEN Before
                                   ELSE CHOOSE q \in {Push(p, batch[k]) : p \in {g[k - 1]}} : TRUE
      BY <3>1, <3>2
    <3> QED
      BY <3>3, PushOnce
  <2>3. \A k \in 0 .. (n + 1) : h[k] = IF k = 0 THEN Before ELSE Push(h[k - 1], batch[k])
    <3> SUFFICES ASSUME NEW k \in 0 .. (n + 1)
                 PROVE  h[k] = IF k = 0 THEN Before ELSE Push(h[k - 1], batch[k])
      OBVIOUS
    <3>1. CASE k = 0
      <4>1. h[k] = g[k] /\ k \in 0 .. n
        BY <3>1
      <4> QED
        BY <2>2, <3>1, <4>1
    <3>2. CASE k # 0 /\ k <= n
      <4>1. h[k] = g[k] /\ h[k - 1] = g[k - 1] /\ k \in 0 .. n
        BY <3>2
      <4> HIDE DEF h
      <4> QED
        BY <2>2, <3>2, <4>1
    <3>3. CASE k = n + 1
      <4>1. h[k] = Push(g[n], batch[n + 1]) /\ h[k - 1] = g[n] /\ k # 0
        BY <3>3
      <4> HIDE DEF h
      <4> QED
        BY <3>3, <4>1
    <3> QED
      BY <3>1, <3>2, <3>3
  <2>4. h = [k \in 0 .. (n + 1) |-> IF k = 0 THEN Before ELSE Push(h[k - 1], batch[k])]
    <3>1. h = [k \in 0 .. (n + 1) |-> h[k]]
      OBVIOUS
    <3> HIDE DEF h
    <3> QED
      BY <2>3, <3>1
  <2> HIDE DEF h
  <2>5. h = Rec(h, n + 1)
    BY <2>4, PushOnce
  <2> HIDE DEF Rec
  <2> QED
    BY <2>5
<1> HIDE DEF S
<1>3. Nat \subseteq S
  BY <1>1, <1>2, Induct
<1>4. m \in S
  BY <1>3
<1> QED
  BY <1>4 DEF S

LEMMA PushedSteps ==
    ASSUME NEW batch, Len(batch) \in Nat
    PROVE  \E g : Backlogs(g, batch, Len(batch)) /\ Pushed(batch) = g[Len(batch)]
<1> DEFINE m == Len(batch)
           Rec(g) == [k \in 0 .. m |->
                         IF k = 0 THEN Before
                         ELSE CHOOSE q \in {Push(p, batch[k]) : p \in {g[k - 1]}} : TRUE]
           after == CHOOSE g : g = Rec(g)
<1>1. m \in Nat
  OBVIOUS
<1>2. \E g : g = Rec(g)
  BY <1>1, PushesExist
<1>3. after = Rec(after)
  BY <1>2
<1>4. Pushed(batch) = after[m]
  BY DEF Pushed, Before
<1> HIDE DEF after, m
<1>5. \A k \in 0 .. m : after[k] = IF k = 0 THEN Before
                                   ELSE CHOOSE q \in {Push(p, batch[k]) : p \in {after[k - 1]}} : TRUE
  <2> DEFINE r == Rec(after)
  <2>1. \A k \in 0 .. m : r[k] = IF k = 0 THEN Before
                                 ELSE CHOOSE q \in {Push(p, batch[k]) : p \in {after[k - 1]}} : TRUE
    OBVIOUS
  <2>2. after = r
    BY <1>3
  <2> HIDE DEF r
  <2> QED
    BY <2>1, <2>2
<1>6. \A k \in 1 .. m : after[k] = Push(after[k - 1], batch[k])
  BY <1>1, <1>5, PushOnce
<1>7. after[0] = Before
  BY <1>1, <1>5
<1> QED
  BY <1>4, <1>6, <1>7 DEF Backlogs, m

(* What a compaction announces, and what a backlog accounts for: every       *)
(* position up to n is held, announced or queued.                           *)
Shed(q) == IF q.compacted = None THEN {} ELSE 1 .. q.compacted
Queued(q) == QueuedBefore(q, Len(q) + 1)

Accounts(q, n, held) ==
    /\ q \in Backlog /\ Len(q.queue) <= MaxEvents
    /\ QueueInOrder(q.queue, held \cup Shed(q))
    /\ 1 .. n \subseteq held \cup Shed(q) \cup Queued(q.queue)

LEMMA Numbers ==
    /\ MaxLog \in Nat /\ Batch \in Nat \ {0} /\ MaxBytes \in Nat /\ MaxEvents \in Nat
    /\ Sizes \subseteq Nat /\ None = -1
  BY StreamAssumption DEF None

LEMMA QueueAppended ==
    ASSUME NEW q \in Seq(1 .. head), NEW n \in 1 .. head, NEW held,
           QueueInOrder(q, held), 1 .. (n - 1) \subseteq held \cup Queued(q)
    PROVE  /\ QueueInOrder(Append(q, n), held) /\ Queued(Append(q, n)) = Queued(q) \cup {n}
           /\ Append(q, n) \in Seq(1 .. head) /\ Len(Append(q, n)) = Len(q) + 1
           /\ Append(q, n)[Len(Append(q, n))] = n
<1> DEFINE a == Append(q, n)
<1>1. /\ Len(q) \in Nat /\ Len(a) = Len(q) + 1 /\ a \in Seq(1 .. head)
      /\ \A i \in 1 .. Len(q) : a[i] = q[i]
      /\ a[Len(q) + 1] = n
  OBVIOUS
<1> HIDE DEF a
<1>2. ASSUME NEW i \in 1 .. (Len(q) + 1)
      PROVE  QueuedBefore(a, i) = QueuedBefore(q, i)
  BY <1>1 DEF QueuedBefore
<1>3. QueueInOrder(a, held)
  <2> SUFFICES ASSUME NEW i \in 1 .. Len(a)
               PROVE  1 .. (a[i] - 1) \subseteq held \cup QueuedBefore(a, i)
    BY DEF QueueInOrder
  <2>1. i \in 1 .. (Len(q) + 1)
    BY <1>1
  <2>2. CASE i \in 1 .. Len(q)
    BY <1>1, <1>2, <2>1, <2>2 DEF QueueInOrder
  <2>3. CASE i = Len(q) + 1
    BY <1>1, <1>2, <2>1, <2>3 DEF Queued
  <2> QED
    BY <1>1, <2>1, <2>2, <2>3
<1>4. Queued(a) = Queued(q) \cup {n}
  <2>1. Queued(a) = {a[j] : j \in 1 .. (Len(q) + 1)} /\ Queued(q) = {q[j] : j \in 1 .. Len(q)}
    BY <1>1 DEF Queued, QueuedBefore
  <2> QED
    BY <1>1, <2>1
<1> QED
  BY <1>1, <1>3, <1>4 DEF a

LEMMA EmptyQueue ==
    ASSUME NEW held
    PROVE  /\ QueueInOrder(<<>>, held) /\ Queued(<<>>) = {} /\ Len(<<>>) = 0
           /\ \A S : <<>> \in Seq(S)
  BY DEF QueueInOrder, Queued, QueuedBefore

LEMMA PushAccounts ==
    ASSUME StreamTyped, NEW p, NEW n \in 1 .. head, NEW held, Accounts(p, n - 1, held)
    PROVE  /\ Accounts(Push(p, n), n, held)
           /\ Push(p, n).compacted = None =>
                 Len(Push(p, n).queue) > 0 /\ Push(p, n).queue[Len(Push(p, n).queue)] = n
<1> DEFINE r == Push(p, n)
           high == Highest(p, n)
           s == p.bytes + size[n]
<1>1. /\ p \in Backlog /\ Len(p.queue) <= MaxEvents
      /\ QueueInOrder(p.queue, held \cup Shed(p))
      /\ 1 .. (n - 1) \subseteq held \cup Shed(p) \cup Queued(p.queue)
  BY DEF Accounts
<1>2. /\ p.queue \in Seq(1 .. head) /\ p.bytes \in 0 .. MaxBytes /\ p.highest \in 0 .. head
      /\ p.compacted \in {None} \cup (1 .. head) /\ Len(p.queue) \in Nat
  BY <1>1 DEF Backlog
<1>3. head \in Nat /\ head <= MaxLog /\ size \in [1 .. MaxLog -> Sizes]
  BY Numbers DEF StreamTyped
<1>4. size[n] \in Nat
  <2>1. n \in 1 .. MaxLog
    BY <1>3, Numbers
  <2>2. size[n] \in Sizes
    BY <1>3, <2>1
  <2> QED
    BY <2>2, Numbers
<1>5. high \in 1 .. head /\ high >= n
  BY <1>2, <1>3 DEF Highest
<1>6. s \in Nat
  BY <1>2, <1>4, Numbers
<1>7. CASE s > MaxBytes \/ Len(p.queue) + 1 > MaxEvents
  <2>1. r = [queue |-> <<>>, bytes |-> 0, highest |-> high, compacted |-> high]
    BY <1>7 DEF Push, UpTo
  <2> HIDE DEF r, high
  <2>2. r \in Backlog
    BY <1>2, <1>3, <1>5, <2>1, EmptyQueue, Numbers DEF Backlog
  <2>3. r.compacted = high /\ r.compacted # None /\ r.queue = <<>> /\ Shed(r) = 1 .. high
    BY <1>5, <2>1, Numbers DEF Shed
  <2>4. 1 .. n \subseteq 1 .. high
    BY <1>5
  <2>5. Accounts(r, n, held)
    BY <2>2, <2>3, <2>4, EmptyQueue, Numbers DEF Accounts
  <2> QED
    BY <2>3, <2>5 DEF r
<1>8. CASE ~(s > MaxBytes \/ Len(p.queue) + 1 > MaxEvents)
  <2>1. r = [queue |-> Append(p.queue, n), bytes |-> s, highest |-> high, compacted |-> p.compacted]
    BY <1>8 DEF Push
  <2>2. /\ QueueInOrder(Append(p.queue, n), held \cup Shed(p))
        /\ Queued(Append(p.queue, n)) = Queued(p.queue) \cup {n}
        /\ Append(p.queue, n) \in Seq(1 .. head) /\ Len(Append(p.queue, n)) = Len(p.queue) + 1
        /\ Append(p.queue, n)[Len(Append(p.queue, n))] = n
    BY <1>1, <1>2, QueueAppended
  <2> DEFINE a == Append(p.queue, n)
  <2> HIDE DEF r, high, a, s
  <2>3. /\ QueueInOrder(a, held \cup Shed(p)) /\ Queued(a) = Queued(p.queue) \cup {n}
        /\ a \in Seq(1 .. head) /\ Len(a) = Len(p.queue) + 1 /\ a[Len(a)] = n
    BY <2>2 DEF a
  <2>4. r = [queue |-> a, bytes |-> s, highest |-> high, compacted |-> p.compacted]
    BY <2>1 DEF a
  <2>5. s \in 0 .. MaxBytes /\ Len(p.queue) + 1 <= MaxEvents
    BY <1>2, <1>6, <1>8, Numbers
  <2>6. r \in Backlog
    BY <1>2, <1>3, <1>5, <2>3, <2>4, <2>5 DEF Backlog
  <2>7. r.queue = a /\ r.compacted = p.compacted /\ Shed(r) = Shed(p)
    BY <2>4 DEF Shed
  <2>8. 1 .. n \subseteq held \cup Shed(r) \cup Queued(a)
    BY <1>1, <2>3, <2>7
  <2>9. Accounts(r, n, held)
    BY <2>3, <2>5, <2>6, <2>7, <2>8 DEF Accounts
  <2>10. Len(r.queue) > 0 /\ r.queue[Len(r.queue)] = n
    BY <1>2, <2>3, <2>7
  <2> QED
    BY <2>9, <2>10 DEF r
<1> QED
  BY <1>7, <1>8

(* A batch that begins where what is held ends.                             *)
LEMMA BatchAccounts ==
    ASSUME StreamTyped, NEW g, NEW m \in Nat, NEW first \in 1 .. (head + 1), NEW batch, NEW held,
           first + m - 1 <= head, \A k \in 1 .. m : batch[k] = first + k - 1,
           Backlogs(g, batch, m), Accounts(Before, first - 1, held)
    PROVE  /\ Accounts(g[m], first + m - 1, held)
           /\ m > 0 /\ g[m].compacted = None =>
                 Len(g[m].queue) > 0 /\ g[m].queue[Len(g[m].queue)] = first + m - 1
<1> DEFINE Good(k) ==
              /\ Accounts(g[k], first + k - 1, held)
              /\ k > 0 /\ g[k].compacted = None =>
                    Len(g[k].queue) > 0 /\ g[k].queue[Len(g[k].queue)] = first + k - 1
           S == {k \in Nat : k <= m => Good(k)}
<1>1. head \in Nat /\ first \in Nat
  BY Numbers DEF StreamTyped
<1>2. 0 \in S
  <2>1. g[0] = Before /\ first + 0 - 1 = first - 1
    BY <1>1 DEF Backlogs
  <2> QED
    BY <2>1
<1>3. ASSUME NEW k \in Nat, k \in S
      PROVE  k + 1 \in S
  <2> SUFFICES ASSUME k + 1 <= m PROVE Good(k + 1)
    OBVIOUS
  <2> DEFINE n == first + (k + 1) - 1
  <2>1. Accounts(g[k], n - 1, held)
    <3>1. k <= m /\ n - 1 = first + k - 1
      BY <1>1
    <3> QED
      BY <1>3, <3>1
  <2>2. n \in 1 .. head
    BY <1>1
  <2>3. g[k + 1] = Push(g[k], n)
    <3>1. k + 1 \in 1 .. m /\ (k + 1) - 1 = k
      OBVIOUS
    <3>2. batch[k + 1] = n
      BY <3>1
    <3> HIDE DEF n
    <3> QED
      BY <3>1, <3>2 DEF Backlogs
  <2> HIDE DEF n
  <2>4. /\ Accounts(g[k + 1], n, held)
        /\ g[k + 1].compacted = None =>
              Len(g[k + 1].queue) > 0 /\ g[k + 1].queue[Len(g[k + 1].queue)] = n
    BY <2>1, <2>2, <2>3, PushAccounts
  <2> QED
    BY <2>4 DEF n
<1> HIDE DEF S
<1>4. Nat \subseteq S
  BY <1>2, <1>3, Induct
<1>5. m \in S
  BY <1>4
<1> QED
  BY <1>5 DEF S

-----------------------------------------------------------------------------
(***************************************************************************)
(* Every step keeps the invariant.                                          *)
(***************************************************************************)

(* The next positions are a run of the log that begins where the            *)
(* subscription, or the floor, does.                                        *)
LEMMA EventsFromIs ==
    ASSUME StreamTyped, NEW from \in 0 .. head
    PROVE  LET first == FirstAfter(from)  batch == EventsFrom(from)
           IN  /\ first \in 1 .. (head + 1)
               /\ Len(batch) \in Nat
               /\ first + Len(batch) - 1 <= head
               /\ \A k \in 1 .. Len(batch) : batch[k] = first + k - 1
               /\ batch # <<>> => Len(batch) > 0
<1> DEFINE first == FirstAfter(from)
           m == LastOf(first) - first + 1
           batch == EventsFrom(from)
<1>1. head \in Nat /\ retained \in 1 .. (head + 1) /\ from \in Nat /\ Batch \in Nat \ {0}
  BY Numbers DEF StreamTyped
<1>2. first \in 1 .. (head + 1)
  BY <1>1 DEF FirstAfter
<1>3. m \in Nat /\ first + m - 1 <= head
  BY <1>1, <1>2 DEF LastOf
<1>4. batch = [i \in 1 .. m |-> first + i - 1]
  BY DEF EventsFrom
<1> HIDE DEF first, m, batch
<1>5. batch \in Seq(Int) /\ Len(batch) = m
  <2>1. \A i \in 1 .. m : first + i - 1 \in Int
    BY <1>2, <1>3
  <2> QED
    BY <1>3, <1>4, <2>1
<1>6. \A k \in 1 .. m : batch[k] = first + k - 1
  BY <1>4
<1>7. batch # <<>> => m > 0
  BY <1>3, <1>5
<1> QED
  BY <1>2, <1>3, <1>5, <1>6, <1>7 DEF first, batch

LEMMA InitInv == StreamInit => StreamInductive
<1> SUFFICES ASSUME StreamInit PROVE StreamInductive
  OBVIOUS
<1>1. /\ size \in [1 .. MaxLog -> Sizes] /\ head = 0 /\ retained = 1 /\ wire = <<>>
      /\ attached = None /\ cursor = 0 /\ known = {} /\ hand = Idle /\ faults = 0
      /\ task = [on |-> FALSE, cursor |-> 0, out |-> <<>>,
                 backlog |-> [queue |-> <<>>, bytes |-> 0, highest |-> 0, compacted |-> None]]
  BY DEF StreamInit, NoTask, NewQueue
<1>2. task \in [on : BOOLEAN, cursor : 0 .. head, backlog : Backlog, out : Seq(Record)]
  <2>1. [queue |-> <<>>, bytes |-> 0, highest |-> 0, compacted |-> None] \in Backlog
    BY <1>1, EmptyQueue, Numbers DEF Backlog
  <2> QED
    BY <1>1, <2>1, EmptyQueue
<1>3. task.on = FALSE /\ task.backlog.queue = <<>> /\ task.out = <<>>
  BY <1>1
<1>4. StreamTyped
  <2>1. MaxFaults \in Nat
    BY StreamAssumption
  <2> QED
    BY <1>1, <1>2, <1>3, <2>1, EmptyQueue, Numbers DEF StreamTyped
<1>5. ClientHolds
  BY <1>1 DEF ClientHolds
<1>6. Stream = <<>>
  BY <1>1, <1>3 DEF Stream
<1>7. InOrder(<<>>, Held)
  BY EmptyQueue DEF InOrder
<1>8. StreamHolds
  BY <1>1, <1>3, <1>6, <1>7, EmptyQueue DEF StreamHolds
<1> QED
  BY <1>4, <1>5, <1>8 DEF StreamInductive

(* A subscription that is gone leaves nothing on its way.                   *)
LEMMA NothingUnderway ==
    ASSUME StreamTyped
    PROVE  /\ NoTask.backlog \in Backlog /\ NoTask.out \in Seq(Record)
           /\ NoTask.on = FALSE /\ NoTask.cursor = 0 /\ NoTask.out = <<>>
           /\ NoTask.backlog.queue = <<>>
           /\ NoTask = [on |-> FALSE, cursor |-> 0, backlog |-> NewQueue, out |-> <<>>]
<1>1. head \in Nat
  BY Numbers DEF StreamTyped
<1>2. NewQueue = [queue |-> <<>>, bytes |-> 0, highest |-> 0, compacted |-> None]
  BY DEF NewQueue
<1>3. NewQueue \in Backlog /\ NewQueue.queue = <<>>
  BY <1>1, <1>2, EmptyQueue, Numbers DEF Backlog
<1>4. NoTask = [on |-> FALSE, cursor |-> 0, backlog |-> NewQueue, out |-> <<>>]
  BY DEF NoTask
<1> QED
  BY <1>3, <1>4, EmptyQueue

(* The log grows: what was a position stays one.                            *)
LEMMA CommitKeeps == StreamInductive /\ Commit => StreamInductive'
<1> SUFFICES ASSUME StreamInductive, Commit PROVE StreamInductive'
  OBVIOUS
<1> USE DEF StreamInductive
<1>1. /\ head \in Nat /\ head' = head + 1 /\ head < MaxLog
      /\ UNCHANGED <<size, retained, task, wire, attached, cursor, known, hand, faults>>
  BY Numbers DEF Commit, StreamTyped
<1>2. 1 .. head \subseteq 1 .. head' /\ 0 .. head \subseteq 0 .. head' /\ head' \in 0 .. MaxLog
  BY <1>1, Numbers
<1>3. Seq(1 .. head) \subseteq Seq((1 .. head)')
  BY <1>1, <1>2
<1>4. Record \subseteq Record'
  BY <1>1, <1>2 DEF Record
<1>5. Backlog \subseteq Backlog'
  BY <1>1, <1>2, <1>3 DEF Backlog
<1>6. Seq(Record) \subseteq Seq(Record')
  BY <1>4
<1>7. task' \in [on : BOOLEAN, cursor : 0 .. head', backlog : Backlog', out : Seq(Record')]
  <2>1. task \in [on : BOOLEAN, cursor : 0 .. head, backlog : Backlog, out : Seq(Record)]
    BY DEF StreamTyped
  <2> QED
    BY <1>1, <1>2, <1>5, <1>6, <2>1
<1>8. wire' \in Seq(Record')
  BY <1>1, <1>6 DEF StreamTyped
<1>9. hand' \in {Idle} \cup [seq : 1 .. head', compacted : BOOLEAN, applied : BOOLEAN]
  BY <1>1, <1>2 DEF StreamTyped
<1>10. StreamTyped'
  <2>1. /\ size' \in [1 .. MaxLog -> Sizes] /\ retained' \in 1 .. (head' + 1)
        /\ cursor' \in 0 .. head' /\ known' \subseteq 1 .. head' /\ faults' \in 0 .. MaxFaults
        /\ Len(task'.backlog.queue) <= MaxEvents
        /\ attached' \in {None} \cup (0 .. head')
    BY <1>1, <1>2 DEF StreamTyped
  <2> QED
    BY <1>2, <1>7, <1>8, <1>9, <2>1 DEF StreamTyped
<1>11. ClientHolds'
  BY <1>1 DEF ClientHolds
<1>12. Held' = Held /\ Stream' = Stream /\ Reaches' = Reaches
  BY <1>1 DEF Held, InHand, Stream, Reaches
<1>13. StreamHolds'
  BY <1>1, <1>12 DEF StreamHolds
<1> QED
  BY <1>10, <1>11, <1>13

LEMMA RetentionKeeps == StreamInductive /\ RetentionMoves => StreamInductive'
<1> SUFFICES ASSUME StreamInductive, RetentionMoves PROVE StreamInductive'
  OBVIOUS
<1> USE DEF StreamInductive
<1>1. /\ retained \in 1 .. (head + 1) /\ head \in Nat /\ faults \in Nat
      /\ MaxFaults \in Nat
  BY Numbers, StreamAssumption DEF StreamTyped
<1>2. /\ UNCHANGED <<size, head, task, wire, attached, cursor, known, hand>>
      /\ retained' \in 1 .. (head + 1) /\ faults' \in 0 .. MaxFaults
      /\ attached # None => retained' <= attached + 1
  BY <1>1 DEF RetentionMoves
<1>3. Record' = Record /\ Backlog' = Backlog
  BY <1>2 DEF Record, Backlog
<1>4. StreamTyped'
  BY <1>2, <1>3 DEF StreamTyped
<1>5. ClientHolds'
  BY <1>2 DEF ClientHolds
<1>6. Held' = Held /\ Stream' = Stream /\ Reaches' = Reaches
  BY <1>2 DEF Held, InHand, Stream, Reaches
<1>7. StreamHolds'
  BY <1>2, <1>6 DEF StreamHolds
<1> QED
  BY <1>4, <1>5, <1>7

(* A record that is written moves from the task to the wire, and the stream  *)
(* of both is what it was.                                                  *)
LEMMA WriteKeeps == StreamInductive /\ Write => StreamInductive'
<1> SUFFICES ASSUME StreamInductive, Write PROVE StreamInductive'
  OBVIOUS
<1> USE DEF StreamInductive
<1>1. /\ task \in [on : BOOLEAN, cursor : 0 .. head, backlog : Backlog, out : Seq(Record)]
      /\ wire \in Seq(Record)
  BY DEF StreamTyped
<1>2. /\ UNCHANGED <<size, head, retained, attached, cursor, known, hand, faults>>
      /\ task.out # <<>> /\ wire' = Append(wire, Head(task.out))
      /\ task' = [task EXCEPT !.out = Tail(task.out)]
  BY DEF Write
<1>3. Head(task.out) \in Record /\ Tail(task.out) \in Seq(Record) /\ task.out \in Seq(Record)
  BY <1>1, <1>2
<1>4. /\ task'.on = task.on /\ task'.cursor = task.cursor /\ task'.backlog = task.backlog
      /\ task'.out = Tail(task.out)
      /\ task' \in [on : BOOLEAN, cursor : 0 .. head, backlog : Backlog, out : Seq(Record)]
  BY <1>1, <1>2, <1>3
<1>5. wire' \in Seq(Record)
  BY <1>1, <1>2, <1>3
<1>6. Record' = Record /\ Backlog' = Backlog
  BY <1>2 DEF Record, Backlog
<1>7. StreamTyped'
  BY <1>2, <1>4, <1>5, <1>6 DEF StreamTyped
<1>8. ClientHolds'
  BY <1>2 DEF ClientHolds
<1>9. Stream' = Stream
  <2> DEFINE out == task.out
             h == Head(out)
             rest == Tail(out)
  <2>1. out \in Seq(Record) /\ out # <<>> /\ h \in Record /\ rest \in Seq(Record)
    BY <1>2, <1>3
  <2>2. Append(wire, h) \o rest = wire \o out
    BY <1>1, <2>1
  <2> QED
    BY <1>2, <1>4, <2>2 DEF Stream
<1>10. Held' = Held /\ Reaches' = Reaches
  BY <1>2, <1>9 DEF Held, InHand, Reaches
<1>11. StreamHolds'
  BY <1>2, <1>4, <1>9, <1>10 DEF StreamHolds
<1> QED
  BY <1>7, <1>8, <1>11

LEMMA InOrderPrefix ==
    ASSUME NEW R, NEW s \in Seq(R), NEW t \in Seq(R), NEW held, InOrder(s \o t, held)
    PROVE  InOrder(s, held)
<1> DEFINE u == s \o t
<1>1. /\ Len(s) \in Nat /\ Len(t) \in Nat /\ Len(u) = Len(s) + Len(t)
      /\ \A j \in 1 .. Len(s) : u[j] = s[j]
  OBVIOUS
<1>2. \A i \in 1 .. (Len(s) + 1) : ToldBefore(u, i) = ToldBefore(s, i)
  BY ToldOfConcat
<1>3. InOrder(u, held)
  OBVIOUS
<1> HIDE DEF u
<1>4. ASSUME NEW i \in 1 .. Len(s)
      PROVE  s[i].compacted \/ 1 .. (s[i].seq - 1) \subseteq held \cup ToldBefore(s, i)
  <2>1. i \in 1 .. Len(u) /\ i \in 1 .. (Len(s) + 1) /\ u[i] = s[i]
    BY <1>1
  <2>2. u[i].compacted \/ 1 .. (u[i].seq - 1) \subseteq held \cup ToldBefore(u, i)
    BY <1>3, <2>1 DEF InOrder
  <2> QED
    BY <1>2, <2>1, <2>2
<1> QED
  BY <1>4 DEF InOrder

(* A subscription begins where the cursor is, or cold behind a snapshot.     *)
LEMMA ConnectKeeps == StreamInductive /\ Connect => StreamInductive'
<1> SUFFICES ASSUME StreamInductive, Connect PROVE StreamInductive'
  OBVIOUS
<1> USE DEF StreamInductive
<1>1. /\ UNCHANGED <<size, head, retained, wire, cursor, hand, faults>>
      /\ known' = (IF cursor = 0 THEN 1 .. head ELSE known) /\ attached' = head
      /\ task' = [NoTask EXCEPT !.on = TRUE, !.cursor = cursor]
  BY DEF Connect, ResumeFrom
<1>2. /\ head \in Nat /\ retained \in 1 .. (head + 1) /\ cursor \in 0 .. head
      /\ known \subseteq 1 .. head /\ wire \in Seq(Record) /\ MaxEvents \in Nat
      /\ task.out \in Seq(Record)
  BY Numbers DEF StreamTyped
<1>3. Record' = Record /\ Backlog' = Backlog
  BY <1>1 DEF Record, Backlog
<1>4. task' = [on |-> TRUE, cursor |-> cursor, backlog |-> NewQueue, out |-> <<>>]
  <2>1. task' = [[on |-> FALSE, cursor |-> 0, backlog |-> NewQueue, out |-> <<>>]
                    EXCEPT !.on = TRUE, !.cursor = cursor]
    BY <1>1 DEF NoTask
  <2> QED
    BY <2>1
<1>5. /\ NewQueue \in Backlog /\ NewQueue.queue = <<>> /\ <<>> \in Seq(Record)
  <2>1. NoTask.backlog = NewQueue
    BY NothingUnderway
  <2> QED
    BY <2>1, NothingUnderway
<1>6. known \subseteq known' /\ known' \subseteq 1 .. head
  BY <1>1, <1>2
<1>7. StreamTyped'
  <2>1. /\ task' \in [on : BOOLEAN, cursor : 0 .. head, backlog : Backlog, out : Seq(Record)]
        /\ task'.backlog.queue = <<>>
    BY <1>2, <1>4, <1>5
  <2> QED
    BY <1>1, <1>2, <1>3, <1>6, <2>1, EmptyQueue DEF StreamTyped
<1>8. ClientHolds'
  BY <1>1, <1>6 DEF ClientHolds
<1>9. Held \subseteq Held'
  BY <1>1, <1>6 DEF Held, InHand
<1>10. Stream' = wire
  <2>1. wire \o <<>> = wire
    BY <1>2
  <2>2. task'.out = <<>>
    BY <1>4
  <2>3. wire' = wire
    BY <1>1
  <2> QED
    BY <2>1, <2>2, <2>3 DEF Stream
<1>11. InOrder(Stream', Held')
  <2>1. InOrder(wire \o task.out, Held)
    BY DEF StreamHolds, Stream
  <2>2. InOrder(wire, Held)
    BY <1>2, <2>1, InOrderPrefix
  <2> QED
    BY <1>9, <1>10, <2>2, InOrderMore
<1>12. StreamHolds'
  <2>1. QueueInOrder(task'.backlog.queue, Reaches')
    BY <1>4, <1>5, EmptyQueue
  <2>2. 1 .. task'.cursor \subseteq Reaches'
    BY <1>1, <1>4, <1>8 DEF ClientHolds, Reaches, Held
  <2>3. attached' # None /\ retained' <= attached' + 1
    BY <1>1, <1>2, Numbers
  <2>4. task'.cursor = 0 => 1 .. attached' \subseteq known'
    BY <1>1, <1>4
  <2> QED
    BY <1>11, <2>1, <2>2, <2>3, <2>4 DEF StreamHolds
<1> QED
  BY <1>7, <1>8, <1>12

(* A step that holds more and leaves what is on its way.                    *)
LEMMA HoldingMore ==
    ASSUME StreamHolds, Held \subseteq Held', known \subseteq known',
           UNCHANGED <<retained, task, wire, attached>>
    PROVE  StreamHolds'
<1>1. Stream' = Stream
  BY DEF Stream
<1>2. Reaches \subseteq Reaches'
  BY <1>1 DEF Reaches
<1>3. InOrder(Stream', Held')
  BY <1>1, InOrderMore DEF StreamHolds
<1>4. QueueInOrder(task'.backlog.queue, Reaches')
  BY <1>2, QueueInOrderMore DEF StreamHolds
<1> QED
  BY <1>2, <1>3, <1>4 DEF StreamHolds

LEMMA ResnapshotKeeps == StreamInductive /\ Resnapshot => StreamInductive'
<1> SUFFICES ASSUME StreamInductive, Resnapshot PROVE StreamInductive'
  OBVIOUS
<1> USE DEF StreamInductive
<1>1. /\ UNCHANGED <<size, head, retained, task, wire, attached, hand, faults>>
      /\ known' = 1 .. head /\ cursor' = head
  BY DEF Resnapshot
<1>2. head \in Nat /\ known \subseteq known'
  BY <1>1, Numbers DEF StreamTyped
<1>3. Record' = Record /\ Backlog' = Backlog
  BY <1>1 DEF Record, Backlog
<1>4. StreamTyped'
  BY <1>1, <1>2, <1>3 DEF StreamTyped
<1>5. ClientHolds'
  BY <1>1, <1>2 DEF ClientHolds
<1>6. Held \subseteq Held'
  BY <1>1, <1>2 DEF Held, InHand
<1>7. StreamHolds'
  BY <1>1, <1>2, <1>6, HoldingMore
<1> QED
  BY <1>4, <1>5, <1>7

(* What the client admits it has in hand; what it refuses its cursor has     *)
(* passed.                                                                  *)
LEMMA ReceiveKeeps == StreamInductive /\ Receive => StreamInductive'
<1> SUFFICES ASSUME StreamInductive, Receive PROVE StreamInductive'
  OBVIOUS
<1> USE DEF StreamInductive
<1> DEFINE h == Head(wire)
<1>1. /\ UNCHANGED <<size, head, retained, task, attached, cursor, known, faults>>
      /\ hand = Idle /\ wire # <<>> /\ wire' = Tail(wire)
      /\ hand' = IF h.seq > cursor
                 THEN [seq |-> h.seq, compacted |-> h.compacted, applied |-> FALSE]
                 ELSE Idle
  BY DEF Receive, Admits
<1>2. /\ head \in Nat /\ cursor \in 0 .. head /\ wire \in Seq(Record) /\ task.out \in Seq(Record)
      /\ 1 .. cursor \subseteq known
  BY Numbers DEF StreamTyped, ClientHolds
<1>3. h \in Record /\ Tail(wire) \in Seq(Record)
  BY <1>1, <1>2
<1>4. Record' = Record /\ Backlog' = Backlog
  BY <1>1 DEF Record, Backlog
<1>5. Stream \in Seq(Record) /\ Stream # <<>> /\ Head(Stream) = h /\ Tail(Stream) = Stream'
  <2>1. \A out \in Seq(Record) : /\ wire \o out \in Seq(Record) /\ wire \o out # <<>>
                                 /\ Head(wire \o out) = h /\ Tail(wire \o out) = Tail(wire) \o out
    BY <1>1, <1>2
  <2> QED
    BY <1>1, <1>2, <2>1 DEF Stream
<1> HIDE DEF h
<1>6. /\ InOrder(Stream', Held \cup Covers(h))
      /\ Told(Stream) = Covers(h) \cup Told(Stream')
      /\ h.compacted \/ 1 .. (h.seq - 1) \subseteq Held
  <2>1. InOrder(Stream, Held)
    BY DEF StreamHolds
  <2> QED
    BY <1>5, <2>1, InOrderTail
<1>7. h.seq \in 1 .. head /\ h.compacted \in BOOLEAN
  BY <1>3 DEF Record
<1>8. Held = known
  BY <1>1 DEF Held, InHand
<1>9. /\ hand' \in {Idle} \cup [seq : 1 .. head, compacted : BOOLEAN, applied : BOOLEAN]
      /\ Held' = Held \cup Covers(h)
      /\ hand' # Idle => /\ hand'.seq = h.seq /\ hand'.compacted = h.compacted
                         /\ hand'.applied = FALSE
  <2>1. CASE h.seq > cursor
    <3>1. hand' = [seq |-> h.seq, compacted |-> h.compacted, applied |-> FALSE]
      BY <1>1, <2>1
    <3>2. hand'.seq = h.seq /\ hand'.compacted = h.compacted /\ hand'.applied = FALSE
      BY <3>1
    <3>3. hand' \in [seq : 1 .. head, compacted : BOOLEAN, applied : BOOLEAN]
      BY <1>7, <3>1
    <3>4. hand' # Idle
      BY <1>7, <3>2, Numbers DEF Idle
    <3>5. InHand' = Covers(h)
      BY <3>2, <3>4 DEF InHand, Covers
    <3> QED
      BY <1>1, <1>8, <3>2, <3>3, <3>5 DEF Held
  <2>2. CASE ~(h.seq > cursor)
    <3>1. hand' = Idle
      BY <1>1, <2>2
    <3>2. Covers(h) \subseteq 1 .. cursor
      BY <1>2, <1>7, <2>2 DEF Covers
    <3>3. Held' = known
      BY <1>1, <3>1 DEF Held, InHand
    <3> QED
      BY <1>2, <1>8, <3>1, <3>2, <3>3
  <2> QED
    BY <2>1, <2>2
<1>10. StreamTyped'
  BY <1>1, <1>3, <1>4, <1>9 DEF StreamTyped
<1>11. ClientHolds'
  <2>1. hand' # Idle => /\ hand'.compacted \/ 1 .. (hand'.seq - 1) \subseteq known
                        /\ ~hand'.applied
    BY <1>6, <1>8, <1>9
  <2> QED
    BY <1>1, <1>2, <2>1 DEF ClientHolds
<1>12. Reaches' = Reaches
  BY <1>6, <1>9 DEF Reaches
<1>13. StreamHolds'
  <2>1. InOrder(Stream', Held')
    BY <1>6, <1>9
  <2> QED
    BY <1>1, <1>12, <2>1 DEF StreamHolds
<1> QED
  BY <1>10, <1>11, <1>13

LEMMA ApplyKeeps == StreamInductive /\ Apply => StreamInductive'
<1> SUFFICES ASSUME StreamInductive, Apply PROVE StreamInductive'
  OBVIOUS
<1> USE DEF StreamInductive
<1>1. /\ UNCHANGED <<size, head, retained, task, wire, attached, cursor, faults>>
      /\ hand # Idle
      /\ known' = IF hand.compacted THEN known \cup 1 .. head ELSE known \cup {hand.seq}
      /\ hand' = [hand EXCEPT !.applied = TRUE]
  BY DEF Apply
<1>2. /\ head \in Nat /\ hand \in [seq : 1 .. head, compacted : BOOLEAN, applied : BOOLEAN]
      /\ known \subseteq 1 .. head /\ 1 .. cursor \subseteq known
      /\ hand.compacted \/ 1 .. (hand.seq - 1) \subseteq known
  BY <1>1, Numbers DEF StreamTyped, ClientHolds
<1>3. /\ hand' \in [seq : 1 .. head, compacted : BOOLEAN, applied : BOOLEAN]
      /\ hand'.seq = hand.seq /\ hand'.compacted = hand.compacted /\ hand'.applied = TRUE
  BY <1>1, <1>2
<1>4. hand' # Idle
  BY <1>3 DEF Idle
<1>5. known \subseteq known' /\ known' \subseteq 1 .. head /\ Covers(hand) \subseteq known'
  BY <1>1, <1>2 DEF Covers
<1>6. Covers(hand') = Covers(hand)
  BY <1>3 DEF Covers
<1>7. Record' = Record /\ Backlog' = Backlog
  BY <1>1 DEF Record, Backlog
<1>8. StreamTyped'
  BY <1>1, <1>3, <1>5, <1>7 DEF StreamTyped
<1>9. ClientHolds'
  <2>1. hand'.compacted \/ 1 .. (hand'.seq - 1) \subseteq known'
    BY <1>2, <1>3, <1>5
  <2>2. Covers(hand') \subseteq known'
    BY <1>5, <1>6
  <2>3. Covers(hand)' = Covers(hand')
    BY DEF Covers
  <2> QED
    BY <1>1, <1>2, <1>5, <2>1, <2>2, <2>3 DEF ClientHolds
<1>10. Held \subseteq Held'
  BY <1>1, <1>5 DEF Held, InHand
<1>11. StreamHolds'
  BY <1>1, <1>5, <1>10, HoldingMore
<1> QED
  BY <1>8, <1>9, <1>11

(* The cursor passes a record whose effect, and that of all before it, is    *)
(* held.                                                                    *)
LEMMA CommitCursorKeeps == StreamInductive /\ CommitCursor => StreamInductive'
<1> SUFFICES ASSUME StreamInductive, CommitCursor PROVE StreamInductive'
  OBVIOUS
<1> USE DEF StreamInductive
<1>1. /\ UNCHANGED <<size, head, retained, task, wire, attached, known, faults>>
      /\ hand # Idle /\ hand.applied
      /\ cursor' = (IF hand.seq > cursor THEN hand.seq ELSE cursor) /\ hand' = Idle
  BY DEF CommitCursor, MayCommit
<1>2. /\ head \in Nat /\ hand \in [seq : 1 .. head, compacted : BOOLEAN, applied : BOOLEAN]
      /\ cursor \in 0 .. head /\ 1 .. cursor \subseteq known
      /\ hand.compacted \/ 1 .. (hand.seq - 1) \subseteq known
      /\ Covers(hand) \subseteq known
  BY <1>1, Numbers DEF StreamTyped, ClientHolds
<1>3. 1 .. hand.seq \subseteq known
  <2>1. hand.seq \in 1 .. head
    BY <1>2
  <2>2. CASE hand.compacted
    BY <1>2, <2>2 DEF Covers
  <2>3. CASE ~hand.compacted
    <3>1. hand.seq \in known
      BY <1>2, <2>3 DEF Covers
    <3> QED
      BY <1>2, <2>1, <2>3, <3>1
  <2> QED
    BY <2>2, <2>3
<1>4. cursor' \in 0 .. head /\ 1 .. cursor' \subseteq known
  BY <1>1, <1>2, <1>3
<1>5. Record' = Record /\ Backlog' = Backlog
  BY <1>1 DEF Record, Backlog
<1>6. StreamTyped'
  BY <1>1, <1>4, <1>5 DEF StreamTyped
<1>7. ClientHolds'
  BY <1>1, <1>4 DEF ClientHolds
<1>8. Held \subseteq Held'
  BY <1>1, <1>2 DEF Held, InHand
<1>9. StreamHolds'
  BY <1>1, <1>8, HoldingMore
<1> QED
  BY <1>6, <1>7, <1>9

(* The connection goes with what was on it.                                 *)
LEMMA DropKeeps ==
    ASSUME StreamInductive, Drop, UNCHANGED <<size, head, retained, cursor, known>>,
           hand' \in {hand, Idle}, faults' \in 0 .. MaxFaults
    PROVE  StreamInductive'
<1> USE DEF StreamInductive
<1>1. attached' = None /\ task' = NoTask /\ wire' = <<>>
  BY DEF Drop
<1>2. head \in Nat /\ cursor \in 0 .. head /\ MaxEvents \in Nat
  BY Numbers DEF StreamTyped
<1>3. Record' = Record /\ Backlog' = Backlog
  BY DEF Record, Backlog
<1>4. /\ task' = [on |-> FALSE, cursor |-> 0, backlog |-> NewQueue, out |-> <<>>]
      /\ NewQueue \in Backlog /\ NewQueue.queue = <<>>
  <2>1. NoTask = [on |-> FALSE, cursor |-> 0, backlog |-> NewQueue, out |-> <<>>]
    BY DEF NoTask
  <2>2. NoTask.backlog \in Backlog /\ NoTask.backlog.queue = <<>>
    BY NothingUnderway
  <2> QED
    BY <1>1, <2>1, <2>2
<1>5. task' \in [on : BOOLEAN, cursor : 0 .. head, backlog : Backlog, out : Seq(Record)]
  BY <1>2, <1>4, EmptyQueue
<1>6. StreamTyped'
  BY <1>1, <1>2, <1>3, <1>4, <1>5, EmptyQueue DEF StreamTyped
<1>7. ClientHolds'
  BY DEF ClientHolds
<1>8. Stream' = <<>>
  <2>1. task'.out = <<>>
    BY <1>4
  <2> QED
    BY <1>1, <2>1 DEF Stream
<1>9. StreamHolds'
  <2>1. InOrder(<<>>, Held')
    BY EmptyQueue DEF InOrder
  <2>2. task'.on = FALSE /\ task'.backlog.queue = <<>>
    BY <1>4
  <2> QED
    BY <1>1, <1>8, <2>1, <2>2, EmptyQueue DEF StreamHolds
<1> QED
  BY <1>6, <1>7, <1>9

LEMMA BreakKeeps == StreamInductive /\ (Break \/ Crash \/ Hangup) => StreamInductive'
<1> SUFFICES ASSUME StreamInductive, Break \/ Crash \/ Hangup PROVE StreamInductive'
  OBVIOUS
<1>1. faults \in 0 .. MaxFaults /\ MaxFaults \in Nat
  BY StreamAssumption DEF StreamInductive, StreamTyped
<1>2. Drop /\ UNCHANGED <<size, head, retained, cursor, known>> /\ hand' \in {hand, Idle}
  BY DEF Break, Crash, Hangup
<1>3. faults' \in 0 .. MaxFaults
  BY <1>1 DEF Break, Crash, Hangup
<1> QED
  BY <1>2, <1>3, DropKeeps

LEMMA SequenceIs ==
    ASSUME NEW S, NEW q \in Seq(S)
    PROVE  Len(q) \in Nat /\ DOMAIN q = 1 .. Len(q) /\ \A i \in 1 .. Len(q) : q[i] \in S
  OBVIOUS

(* A turn writes what it drained, position by position, ...                 *)
LEMMA EventsTold ==
    ASSUME StreamTyped, NEW q \in Seq(1 .. head), NEW held, QueueInOrder(q, held)
    PROVE  LET out == [i \in DOMAIN q |-> Event(q[i])]
           IN  out \in Seq(Record) /\ InOrder(out, held) /\ Told(out) = Queued(q)
<1> DEFINE out == [i \in DOMAIN q |-> Event(q[i])]
<1>1. Len(q) \in Nat /\ DOMAIN q = 1 .. Len(q) /\ \A i \in 1 .. Len(q) : q[i] \in 1 .. head
  BY SequenceIs
<1>2. \A i \in 1 .. Len(q) : /\ Event(q[i]) \in Record
                             /\ Event(q[i]).seq = q[i] /\ Event(q[i]).compacted = FALSE
  BY <1>1 DEF Event, Record
<1>3. out = [i \in 1 .. Len(q) |-> Event(q[i])]
  BY <1>1
<1>4. out \in Seq(Record) /\ Len(out) = Len(q)
  BY <1>1, <1>2, <1>3
<1>5. \A i \in 1 .. Len(q) : out[i].seq = q[i] /\ out[i].compacted = FALSE
  BY <1>2, <1>3
<1> HIDE DEF out
<1>6. \A j \in 1 .. Len(q) : Covers(out[j]) = {q[j]}
  BY <1>5 DEF Covers
<1>7. ASSUME NEW i \in 1 .. (Len(q) + 1)
      PROVE  ToldBefore(out, i) = QueuedBefore(q, i)
  <2>1. \A j \in 1 .. (i - 1) : j \in 1 .. Len(q)
    BY <1>1
  <2>2. \A j \in 1 .. (i - 1) : Covers(out[j]) = {q[j]}
    BY <1>6, <2>1
  <2>3. ToldBefore(out, i) = UNION {{q[j]} : j \in 1 .. (i - 1)}
    <3>1. {Covers(out[j]) : j \in 1 .. (i - 1)} = {{q[j]} : j \in 1 .. (i - 1)}
      BY <2>2
    <3> QED
      BY <3>1 DEF ToldBefore
  <2>4. UNION {{q[j]} : j \in 1 .. (i - 1)} = {q[j] : j \in 1 .. (i - 1)}
    BY ZenonT(40)
  <2> QED
    BY <2>3, <2>4 DEF QueuedBefore
<1>8. InOrder(out, held)
  <2> SUFFICES ASSUME NEW i \in 1 .. Len(out)
               PROVE  1 .. (out[i].seq - 1) \subseteq held \cup ToldBefore(out, i)
    BY DEF InOrder
  <2>1. i \in 1 .. Len(q) /\ i \in 1 .. (Len(q) + 1)
    BY <1>1, <1>4
  <2>2. ToldBefore(out, i) = QueuedBefore(q, i) /\ out[i].seq = q[i]
    BY <1>5, <1>7, <2>1
  <2> QED
    BY <2>1, <2>2 DEF QueueInOrder
<1>9. Told(out) = Queued(q)
  <2>1. Len(q) + 1 \in 1 .. (Len(q) + 1)
    BY <1>1
  <2> QED
    BY <1>4, <1>7, <2>1 DEF Told, Queued
<1> QED
  BY <1>4, <1>8, <1>9 DEF out

(* ... or the one announcement that stands for all it shed.                 *)
LEMMA AnnouncementTold ==
    ASSUME StreamTyped, NEW c \in 1 .. head, NEW held
    PROVE  LET out == <<Announcement(c)>>
           IN  out \in Seq(Record) /\ InOrder(out, held) /\ Told(out) = 1 .. c
<1> DEFINE a == Announcement(c)
           out == <<a>>
<1>1. a \in Record /\ a.seq = c /\ a.compacted = TRUE
  BY DEF Announcement, Record
<1> HIDE DEF a
<1>2. out \in Seq(Record) /\ Len(out) = 1 /\ out[1] = a
  BY <1>1
<1> HIDE DEF out
<1>3. InOrder(out, held)
  BY <1>1, <1>2 DEF InOrder
<1>4. Told(out) = Covers(a)
  <2>1. 1 .. (Len(out) + 1 - 1) = {1}
    BY <1>2
  <2> QED
    BY <1>2, <2>1 DEF Told, ToldBefore
<1> QED
  BY <1>1, <1>2, <1>3, <1>4 DEF out, a, Covers

(* What the backlog holds when a turn reads the log: all below the first      *)
(* position it reads is held or queued.                                     *)
LEMMA BeforeAccounts ==
    ASSUME StreamInductive, task.on, ~TooOld(task.cursor)
    PROVE  Accounts(Before, FirstAfter(task.cursor) - 1, Reaches)
<1> USE DEF StreamInductive
<1> DEFINE from == task.cursor
           old == task.backlog
<1>1. /\ old \in Backlog /\ from \in 0 .. head /\ Len(old.queue) <= MaxEvents
      /\ head \in Nat /\ retained \in 1 .. (head + 1) /\ known \subseteq 1 .. head
      /\ attached \in {None} \cup (0 .. head)
  BY Numbers DEF StreamTyped
<1>2. /\ QueueInOrder(old.queue, Reaches) /\ 1 .. from \subseteq Reaches
      /\ attached # None => retained <= attached + 1
      /\ from = 0 => attached # None /\ 1 .. attached \subseteq known
  BY DEF StreamHolds
<1> HIDE DEF from, old
<1>3. Before = [old EXCEPT !.compacted = None]
  BY DEF Before, old
<1>4. /\ Before \in Backlog /\ Before.queue = old.queue /\ Before.compacted = None
  BY <1>1, <1>3 DEF Backlog
<1>5. Shed(Before) = {}
  BY <1>4 DEF Shed
<1>6. 1 .. (FirstAfter(from) - 1) \subseteq Reaches
  <2>1. CASE from + 1 < retained
    <3>1. from = 0
      BY <2>1 DEF TooOld, from
    <3>2. 1 .. attached \subseteq known /\ retained <= attached + 1 /\ attached \in Nat
      BY <1>1, <1>2, <3>1
    <3>3. 1 .. (retained - 1) \subseteq known
      BY <1>1, <3>2
    <3>4. known \subseteq Reaches
      BY DEF Reaches, Held
    <3> QED
      BY <2>1, <3>3, <3>4 DEF FirstAfter
  <2>2. CASE ~(from + 1 < retained)
    <3>1. FirstAfter(from) - 1 = from
      BY <1>1, <2>2 DEF FirstAfter
    <3> QED
      BY <1>2, <3>1
  <2> QED
    BY <2>1, <2>2
<1>7. Accounts(Before, FirstAfter(from) - 1, Reaches)
  BY <1>1, <1>2, <1>4, <1>5, <1>6 DEF Accounts
<1> QED
  BY <1>7 DEF from

LEMMA PumpedKeeps ==
    ASSUME StreamInductive, task.on, task.out = <<>>, NEW q, NEW n \in 1 .. head,
           Accounts(q, n, Reaches), task' = Pumped(q),
           q.compacted = None => Len(q.queue) > 0 /\ q.queue[Len(q.queue)] = n,
           UNCHANGED <<size, head, retained, wire, attached, cursor, known, hand, faults>>
    PROVE  StreamInductive'
<1> USE DEF StreamInductive
<1>1. /\ task \in [on : BOOLEAN, cursor : 0 .. head, backlog : Backlog, out : Seq(Record)]
      /\ wire \in Seq(Record) /\ head \in Nat /\ MaxEvents \in Nat /\ MaxBytes \in Nat
  BY Numbers DEF StreamTyped
<1>2. /\ q \in Backlog /\ Len(q.queue) <= MaxEvents
      /\ QueueInOrder(q.queue, Reaches \cup Shed(q))
      /\ 1 .. n \subseteq Reaches \cup Shed(q) \cup Queued(q.queue)
  BY DEF Accounts
<1>3. /\ q.queue \in Seq(1 .. head) /\ q.compacted \in {None} \cup (1 .. head)
  BY <1>2 DEF Backlog
<1>4. Record' = Record /\ Backlog' = Backlog /\ Held' = Held
  BY DEF Record, Backlog, Held, InHand
<1>5. Reaches = Held \cup Told(wire) /\ InOrder(wire, Held)
  <2>1. wire \o <<>> = wire
    BY <1>1
  <2>2. Stream = wire
    BY <2>1 DEF Stream
  <2> QED
    BY <2>2 DEF Reaches, StreamHolds
<1>6. ASSUME NEW out \in Seq(Record), InOrder(out, Reaches), NEW c \in 1 .. head, NEW b \in Backlog,
             task' = [task EXCEPT !.cursor = c, !.backlog = b, !.out = out],
             Len(b.queue) <= MaxEvents, QueueInOrder(b.queue, Reaches \cup Told(out)),
             1 .. c \subseteq Reaches \cup Told(out)
      PROVE  StreamInductive'
  <2>1. /\ task'.on = task.on /\ task'.cursor = c /\ task'.backlog = b /\ task'.out = out
        /\ task' \in [on : BOOLEAN, cursor : 0 .. head, backlog : Backlog, out : Seq(Record)]
    <3> DEFINE R == Seq(Record)
               H == 0 .. head
    <3>1. task \in [on : BOOLEAN, cursor : H, backlog : Backlog, out : R] /\ c \in H /\ out \in R
      BY <1>1, <1>6
    <3> HIDE DEF R, H
    <3>2. task' \in [on : BOOLEAN, cursor : H, backlog : Backlog, out : R]
      BY <1>6, <3>1
    <3>3. task'.on = task.on /\ task'.cursor = c /\ task'.backlog = b /\ task'.out = out
      BY <1>6, <3>1
    <3> QED
      BY <3>2, <3>3 DEF R, H
  <2>2. StreamTyped'
    BY <1>4, <1>6, <2>1 DEF StreamTyped
  <2>3. ClientHolds'
    BY DEF ClientHolds
  <2>4. Stream' = wire \o out
    BY <2>1 DEF Stream
  <2>5. InOrder(Stream', Held')
    BY <1>1, <1>4, <1>5, <1>6, <2>4, InOrderConcat
  <2>6. Told(Stream') = Told(wire) \cup Told(out)
    BY <1>1, <1>6, <2>4, ToldOfConcat
  <2>7. Reaches' = Reaches \cup Told(out)
    BY <1>4, <1>5, <2>6 DEF Reaches
  <2>8. /\ QueueInOrder(task'.backlog.queue, Reaches') /\ 1 .. task'.cursor \subseteq Reaches'
        /\ task'.cursor # 0
    BY <1>6, <2>1, <2>7
  <2>9. StreamHolds'
    BY <2>5, <2>8 DEF StreamHolds
  <2> QED
    BY <2>2, <2>3, <2>9
<1>7. CASE q.compacted # None
  <2> DEFINE c == q.compacted
             out == <<Announcement(c)>>
  <2>1. c \in 1 .. head /\ Shed(q) = 1 .. c
    BY <1>3, <1>7 DEF Shed
  <2>2. out \in Seq(Record) /\ InOrder(out, Reaches) /\ Told(out) = 1 .. c
    BY <2>1, AnnouncementTold
  <2>3. task' = [task EXCEPT !.cursor = c, !.backlog = q, !.out = out]
    BY <1>7 DEF Pumped
  <2> HIDE DEF c, out
  <2> QED
    BY <1>2, <1>6, <2>1, <2>2, <2>3
<1>8. CASE q.compacted = None
  <2> DEFINE b == [q EXCEPT !.queue = <<>>, !.bytes = 0]
             out == [i \in DOMAIN q.queue |-> Event(q.queue[i])]
  <2>1. Shed(q) = {}
    BY <1>8 DEF Shed
  <2>2. QueueInOrder(q.queue, Reaches)
    <3>1. Reaches \cup {} = Reaches
      OBVIOUS
    <3> QED
      BY <1>2, <2>1, <3>1
  <2>3. out \in Seq(Record) /\ InOrder(out, Reaches) /\ Told(out) = Queued(q.queue)
    BY <1>3, <2>2, EventsTold
  <2>4. b \in Backlog /\ b.queue = <<>>
    <3> DEFINE Q == Seq(1 .. head)
               B == 0 .. MaxBytes
               H == 0 .. head
               C == {None} \cup (1 .. head)
    <3>1. q \in [queue : Q, bytes : B, highest : H, compacted : C] /\ <<>> \in Q /\ 0 \in B
      BY <1>1, <1>2, EmptyQueue DEF Backlog
    <3> HIDE DEF Q, B, H, C
    <3>2. b \in [queue : Q, bytes : B, highest : H, compacted : C] /\ b.queue = <<>>
      BY <3>1
    <3> QED
      BY <3>2 DEF Q, B, H, C, Backlog
  <2>5. task' = [task EXCEPT !.cursor = n, !.backlog = b, !.out = out]
    BY <1>8 DEF Pumped
  <2> HIDE DEF b, out
  <2>6. /\ Len(b.queue) <= MaxEvents /\ QueueInOrder(b.queue, Reaches \cup Told(out))
        /\ 1 .. n \subseteq Reaches \cup Told(out)
    BY <1>1, <1>2, <2>1, <2>3, <2>4, EmptyQueue
  <2> QED
    BY <1>6, <2>3, <2>4, <2>5, <2>6
<1> QED
  BY <1>7, <1>8

LEMMA TurnKeeps == StreamInductive /\ Turn => StreamInductive'
<1> SUFFICES ASSUME StreamInductive, Turn PROVE StreamInductive'
  OBVIOUS
<1>1. /\ task.on /\ task.out = <<>>
      /\ UNCHANGED <<size, head, retained, wire, attached, cursor, known, hand, faults>>
  BY DEF Turn
<1>2. CASE TooOld(task.cursor)
  <2>1. /\ StreamTyped /\ ClientHolds /\ StreamHolds
        /\ task \in [on : BOOLEAN, cursor : 0 .. head, backlog : Backlog, out : Seq(Record)]
    BY DEF StreamInductive, StreamTyped
  <2>2. task' = [task EXCEPT !.on = FALSE]
    BY <1>2 DEF Turn
  <2>3. /\ task'.on = FALSE /\ task'.backlog = task.backlog /\ task'.out = task.out
        /\ task' \in [on : BOOLEAN, cursor : 0 .. head, backlog : Backlog, out : Seq(Record)]
    BY <2>1, <2>2
  <2>4. Record' = Record /\ Backlog' = Backlog
    BY <1>1 DEF Record, Backlog
  <2>5. StreamTyped'
    BY <1>1, <2>1, <2>3, <2>4 DEF StreamTyped
  <2>6. ClientHolds'
    BY <1>1, <2>1 DEF ClientHolds
  <2>7. Stream' = Stream /\ Held' = Held /\ Reaches' = Reaches
    BY <1>1, <2>3 DEF Stream, Held, InHand, Reaches
  <2>8. StreamHolds'
    BY <1>1, <2>1, <2>3, <2>7 DEF StreamHolds
  <2> QED
    BY <2>5, <2>6, <2>8 DEF StreamInductive
<1>3. CASE ~TooOld(task.cursor)
  <2> DEFINE from == task.cursor
             batch == EventsFrom(from)
             first == FirstAfter(from)
             q == Pushed(batch)
             n == first + Len(batch) - 1
  <2>1. batch # <<>> /\ task' = Pumped(q)
    BY <1>3 DEF Turn
  <2>2. StreamTyped /\ from \in 0 .. head /\ head \in Nat
    BY Numbers DEF StreamInductive, StreamTyped
  <2>3. Accounts(Before, first - 1, Reaches)
    BY <1>1, <1>3, BeforeAccounts
  <2>4. /\ first \in 1 .. (head + 1) /\ Len(batch) \in Nat /\ n <= head
        /\ \A k \in 1 .. Len(batch) : batch[k] = first + k - 1
        /\ Len(batch) > 0
    BY <2>1, <2>2, EventsFromIs
  <2>5. PICK g : Backlogs(g, batch, Len(batch)) /\ q = g[Len(batch)]
    BY <2>4, PushedSteps
  <2> HIDE DEF q, batch, first, from
  <2>6. /\ Accounts(q, n, Reaches)
        /\ q.compacted = None => Len(q.queue) > 0 /\ q.queue[Len(q.queue)] = n
    BY <2>2, <2>3, <2>4, <2>5, BatchAccounts
  <2>7. n \in 1 .. head
    BY <2>2, <2>4
  <2> HIDE DEF n
  <2> QED
    BY <1>1, <2>1, <2>6, <2>7, PumpedKeeps
<1> QED
  BY <1>2, <1>3

LEMMA NextKeeps == StreamInductive /\ [StreamNext]_streamVars => StreamInductive'
<1> SUFFICES ASSUME StreamInductive, [StreamNext]_streamVars PROVE StreamInductive'
  OBVIOUS
<1>1. CASE StreamNext
  BY <1>1, CommitKeeps, RetentionKeeps, TurnKeeps, WriteKeeps, ConnectKeeps, ResnapshotKeeps,
     ReceiveKeeps, ApplyKeeps, CommitCursorKeeps, BreakKeeps DEF StreamNext
<1>2. CASE UNCHANGED streamVars
  <2>1. UNCHANGED <<size, head, retained, task, wire, attached, cursor, known, hand, faults>>
    BY <1>2 DEF streamVars
  <2>2. Record' = Record /\ Backlog' = Backlog
    BY <2>1 DEF Record, Backlog
  <2>3. Stream' = Stream /\ Held' = Held /\ Reaches' = Reaches
    BY <2>1 DEF Stream, Held, InHand, Reaches
  <2>4. StreamTyped'
    BY <2>1, <2>2 DEF StreamInductive, StreamTyped
  <2>5. ClientHolds' /\ StreamHolds'
    BY <2>1, <2>3 DEF StreamInductive, ClientHolds, StreamHolds
  <2> QED
    BY <2>4, <2>5 DEF StreamInductive
<1> QED
  BY <1>1, <1>2

(* Every reachable state has the invariant: typed, nothing missing behind the *)
(* cursor or below the record in hand, and no hole in what is on its way.    *)
THEOREM StreamHoldsAlways == StreamSpec => []StreamInductive
<1>1. StreamInductive /\ [StreamNext]_streamVars => StreamInductive'
  BY NextKeeps
<1> QED
  BY <1>1, InitInv, PTL DEF StreamSpec

(* The types of the stream's state (twinvpn-service-common EventQueue, the   *)
(* C2 task and the client's cursor), for every log, size and watermark.      *)
THEOREM StreamTypeCorrect == StreamSpec => []StreamTypeOK
<1>1. StreamInductive => StreamTypeOK
  <2> SUFFICES ASSUME StreamInductive PROVE StreamTypeOK
    OBVIOUS
  <2>1. /\ task.backlog \in Backlog /\ task.cursor \in 0 .. head /\ head \in Nat
    BY Numbers DEF StreamInductive, StreamTyped
  <2>2. task.backlog.bytes \in 0 .. MaxBytes
    BY <2>1 DEF Backlog
  <2>3. hand.seq \in {None} \cup (1 .. head)
    BY DEF StreamInductive, StreamTyped, Idle
  <2> QED
    BY <2>1, <2>2, <2>3 DEF StreamInductive, StreamTyped, StreamTypeOK
<1> QED
  BY <1>1, StreamHoldsAlways, PTL

(* The device holds the effect of every position its cursor has passed       *)
(* (twinvpn-cp-client's commit_cursor behind apply.rs), whatever breaks,      *)
(* crashes, watermarks and moves of the retention floor came before.         *)
THEOREM NoSilentGapAlways == StreamSpec => []NoSilentGap
<1>1. StreamInductive => NoSilentGap
  BY DEF StreamInductive, ClientHolds, NoSilentGap
<1> QED
  BY <1>1, StreamHoldsAlways, PTL
=============================================================================
