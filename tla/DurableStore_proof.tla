-------------------------- MODULE DurableStore_proof --------------------------
(***************************************************************************)
(* Proofs about DurableStore, for every set of peers and record values and *)
(* every bound: a process that dies between any two steps of a commit, or  *)
(* whose commit fails there, leaves a disk on which the anchor leads, no   *)
(* epoch is over its floor, the floor has not fallen, and a vault that     *)
(* opens says what was last reported committed.                            *)
(***************************************************************************)
EXTENDS DurableStore, SequenceTheorems, WellFoundedInduction, TLAPS

Entry ==
    {Put(p, v) : p \in Peer, v \in Value}
        \cup {Drop(p) : p \in Peer} \cup {Put("EPOCH", e) : e \in Epoch}

(* The bounds on the queue and on what holds the bridge. *)
Typed ==
    /\ TypeOK
    /\ Len(core.queue) <= MaxQueue
    /\ core.bridge # "EMPTY" => Running
    /\ file.kind # "IMAGE" => file = Lost(file.kind)

-----------------------------------------------------------------------------
(* The largest element of a bounded set of numbers.                        *)

LEMMA MaxIs ==
    ASSUME NEW S \in SUBSET Nat, NEW m \in S, \A x \in S : x <= m
    PROVE  Max(S) = m
<1> DEFINE IsMax(x) == x \in S /\ \A y \in S : x >= y
<1>1. IsMax(m)
  OBVIOUS
<1>2. \A x : IsMax(x) => x = m
  OBVIOUS
<1>3. Max(S) = CHOOSE x : IsMax(x)
  BY DEF Max
<1> HIDE DEF IsMax
<1> QED
  BY <1>1, <1>2, <1>3, Zenon

LEMMA MaxOf ==
    ASSUME NEW n \in Nat, NEW S \in SUBSET (0 .. n), S # {}
    PROVE  Max(S) \in S /\ \A x \in S : x <= Max(S)
<1> DEFINE T == {n - x : x \in S}
<1>1. T \subseteq Nat /\ T # {}
  OBVIOUS
<1>2. PICK d \in T : \A y \in T : ~ (<<y, d>> \in OpToRel(<, Nat))
  <2> HIDE DEF T
  <2> QED
    BY <1>1, WFMin, NatLessThanWellFounded
<1>3. PICK m \in S : d = n - m
  BY <1>2
<1>4. \A x \in S : x <= m
  <2> SUFFICES ASSUME NEW x \in S
               PROVE  x <= m
    OBVIOUS
  <2>1. n - x \in T /\ n - x \in Nat /\ d \in Nat
    BY <1>1, <1>2
  <2>2. ~ (n - x < d)
    BY <1>2, <2>1 DEF OpToRel
  <2> QED
    BY <1>3, <2>2
<1> QED
  BY <1>3, <1>4, MaxIs

-----------------------------------------------------------------------------
(* The queue: what an append and what the end of a commit do to it.        *)

LEMMA Appended ==
    ASSUME NEW S, NEW q \in Seq(S), NEW e \in S
    PROVE  /\ Append(q, e) \in Seq(S)
           /\ Len(Append(q, e)) = Len(q) + 1
           /\ DOMAIN q = 1 .. Len(q) /\ DOMAIN Append(q, e) = 1 .. Len(q) + 1
           /\ \A i \in 1 .. Len(q) : Append(q, e)[i] = q[i]
           /\ Append(q, e)[Len(q) + 1] = e
  OBVIOUS

LEMMA ClearedIs ==
    ASSUME NEW S, NEW q \in Seq(S), NEW n \in Nat, n <= Len(q)
    PROVE  /\ Cleared(q, n) \in Seq(S)
           /\ Len(Cleared(q, n)) = Len(q) - n
           /\ DOMAIN Cleared(q, n) = 1 .. Len(q) - n
           /\ \A i \in 1 .. Len(q) - n : Cleared(q, n)[i] = q[n + i]
<1>1. \A i \in n + 1 .. Len(q) : q[i] \in S
  OBVIOUS
<1>2. /\ SubSeq(q, n + 1, Len(q)) \in Seq(S)
      /\ Len(SubSeq(q, n + 1, Len(q))) = IF n + 1 <= Len(q) THEN Len(q) - (n + 1) + 1 ELSE 0
      /\ \A i \in 1 .. Len(q) - (n + 1) + 1 : SubSeq(q, n + 1, Len(q))[i] = q[n + 1 + i - 1]
  BY <1>1, SubSeqProperties
<1> QED
  BY <1>2 DEF Cleared

-----------------------------------------------------------------------------
(* Type correctness.                                                       *)

Core ==
    [life : {"RUNNING", "STOPPED", "CRASHED"}, bridge : {"EMPTY", "HELD", "TAKEN"},
     seq : 0 .. MaxSeq, recs : Records, floor : Epoch, table : SUBSET Peer,
     journal : [Peer -> Value \cup {None}], epoch : Epoch, queue : Seq(Entry),
     owed : SUBSET Peer, suspended : BOOLEAN, closing : BOOLEAN]
File == [kind : {"IMAGE", "CORRUPT", "ABSENT"}, seq : 0 .. MaxSeq, recs : Records]
Anchors == [seq : 0 .. MaxSeq, digest : SUBSET Records, floor : Epoch]
Commits ==
    [at : {"IDLE", "BEGUN", "ANCHORED", "WRITTEN"}, by : {None, "CALLER", "SHUTDOWN"},
     count : 0 .. MaxQueue, seq : 0 .. MaxSeq, recs : Records, floor : Epoch]

Shapes ==
    /\ file \in File /\ anchor \in Anchors /\ lock \in BOOLEAN
    /\ core \in Core /\ commit \in Commits /\ acked \in Records
    /\ (core.bridge = "TAKEN") = (commit.at # "IDLE")
    /\ Len(core.queue) <= MaxQueue
    /\ core.bridge # "EMPTY" => Running
    /\ file.kind # "IMAGE" => file = Lost(file.kind)

LEMMA TypesHere == Typed <=> Shapes
<1>1. anchor \in Anchors <=> /\ anchor \in [seq : 0 .. MaxSeq, digest : {anchor.digest}, floor : Epoch]
                             /\ anchor.digest \subseteq Records
  BY DEF Anchors
<1>2. core \in Core <=>
        /\ core \in [life : {"RUNNING", "STOPPED", "CRASHED"},
                 bridge : {"EMPTY", "HELD", "TAKEN"}, seq : 0 .. MaxSeq, recs : Records,
                 floor : Epoch, table : SUBSET Peer, journal : [Peer -> Value \cup {None}],
                 epoch : Epoch, queue : {core.queue}, owed : SUBSET Peer,
                 suspended : BOOLEAN, closing : BOOLEAN]
        /\ core.queue \in Seq(Entry)
  BY DEF Core
<1> QED
  BY <1>1, <1>2 DEF Shapes, Typed, TypeOK, File, Commits, Entry

LEMMA Types == (Typed <=> Shapes) /\ (Typed' <=> Shapes')
  BY TypesHere, PTL

LEMMA EntryFields ==
    /\ \A p \in Peer, v \in Value :
          Put(p, v) \in Entry /\ Put(p, v).key = p /\ Put(p, v).op = "WRITE" /\ Put(p, v).value = v
    /\ \A p \in Peer :
          Drop(p) \in Entry /\ Drop(p).key = p /\ Drop(p).op = "DELETE" /\ Drop(p).value = None
    /\ \A e \in Epoch :
          /\ Put("EPOCH", e) \in Entry /\ Put("EPOCH", e).key = "EPOCH"
          /\ Put("EPOCH", e).op = "WRITE" /\ Put("EPOCH", e).value = e
    /\ \A e \in Entry :
          /\ e.key \in Peer \cup {"EPOCH"} /\ e.op \in {"WRITE", "DELETE"}
          /\ e.op = "WRITE" /\ e.key = "EPOCH" => e.value \in Epoch
          /\ e.op = "WRITE" /\ e.key # "EPOCH" => e.value \in Value
          /\ e.op = "DELETE" => e.key \in Peer /\ e.value = None
          /\ e.key = "EPOCH" => e.op = "WRITE"
<1>1. \A p \in Peer, v \in Value :
          Put(p, v) \in Entry /\ Put(p, v).key = p /\ Put(p, v).op = "WRITE" /\ Put(p, v).value = v
  BY DEF Entry, Put
<1>2. \A p \in Peer :
          Drop(p) \in Entry /\ Drop(p).key = p /\ Drop(p).op = "DELETE" /\ Drop(p).value = None
  BY DEF Entry, Drop
<1>3. \A e \in Epoch :
          /\ Put("EPOCH", e) \in Entry /\ Put("EPOCH", e).key = "EPOCH"
          /\ Put("EPOCH", e).op = "WRITE" /\ Put("EPOCH", e).value = e
  <2> TAKE e \in Epoch
  <2>1. Put("EPOCH", e) \in Entry
    <3>1. Put("EPOCH", e) \in {Put("EPOCH", x) : x \in Epoch}
      OBVIOUS
    <3> QED
      BY <3>1 DEF Entry
  <2>2. /\ Put("EPOCH", e).key = "EPOCH"
        /\ Put("EPOCH", e).op = "WRITE" /\ Put("EPOCH", e).value = e
    BY DEF Put
  <2> QED
    BY <2>1, <2>2
<1>4. ASSUME NEW e \in Entry
      PROVE  /\ e.key \in Peer \cup {"EPOCH"} /\ e.op \in {"WRITE", "DELETE"}
             /\ e.op = "WRITE" /\ e.key = "EPOCH" => e.value \in Epoch
             /\ e.op = "WRITE" /\ e.key # "EPOCH" => e.value \in Value
             /\ e.op = "DELETE" => e.key \in Peer /\ e.value = None
             /\ e.key = "EPOCH" => e.op = "WRITE"
  <2>1. CASE \E p \in Peer, v \in Value : e = Put(p, v)
    BY <1>1, <2>1, StoreAssumption
  <2>2. CASE \E p \in Peer : e = Drop(p)
    BY <1>2, <2>2, StoreAssumption
  <2>3. CASE \E f \in Epoch : e = Put("EPOCH", f)
    BY <1>3, <2>3
  <2> QED
    BY <2>1, <2>2, <2>3 DEF Entry
<1> QED
  BY <1>1, <1>2, <1>3, <1>4

LEMMA NoRecordsTyped ==
    /\ NoRecords \in Records /\ NoRecords.epoch = 0
    /\ \A p \in Peer : NoRecords.session[p] = None
    /\ 0 \in Epoch /\ 0 \in 0 .. MaxSeq /\ 0 \in 0 .. MaxQueue
    /\ Epoch \subseteq Nat /\ MaxSeq \in Nat /\ MaxQueue \in Nat
  BY StoreAssumption DEF NoRecords, Records, Epoch

\* What a batch makes of a key, and of the floor.
LEMMA AppliedIs ==
    ASSUME NEW q \in Seq(Entry), NEW key, NEW held
    PROVE  \/ /\ Entries(q, "WRITE", key) = {} /\ Entries(q, "DELETE", key) = {}
              /\ Applied(q, key, held) = held
           \/ /\ Entries(q, "WRITE", key) = {} /\ Entries(q, "DELETE", key) # {}
              /\ Applied(q, key, held) = None
           \/ \E i \in Entries(q, "WRITE", key) :
                 /\ \A j \in Entries(q, "WRITE", key) : j <= i
                 /\ Applied(q, key, held) = q[i].value
<1>1. Entries(q, "WRITE", key) \in SUBSET (0 .. Len(q)) /\ Len(q) \in Nat
  BY DEF Entries, Mine
<1>2. CASE Entries(q, "WRITE", key) # {}
  BY <1>1, <1>2, MaxOf DEF Applied
<1>3. CASE Entries(q, "WRITE", key) = {}
  BY <1>3 DEF Applied
<1> QED
  BY <1>2, <1>3

LEMMA CommittedTyped ==
    ASSUME NEW q \in Seq(Entry), NEW recs \in Records
    PROVE  /\ Committed(recs, q) \in Records
           /\ Committed(recs, q).epoch = Applied(q, "EPOCH", recs.epoch)
           /\ \A p \in Peer :
                 Committed(recs, q).session[p] = Applied(q, p, recs.session[p])
<1>1. \A i \in DOMAIN q : q[i] \in Entry
  OBVIOUS
<1>2. Entries(q, "DELETE", "EPOCH") = {}
  BY <1>1, EntryFields DEF Entries, Mine
<1>3. Applied(q, "EPOCH", recs.epoch) \in Epoch
  BY <1>1, <1>2, AppliedIs, EntryFields DEF Entries, Mine, Records
<1>4. ASSUME NEW p \in Peer
      PROVE  Applied(q, p, recs.session[p]) \in Value \cup {None}
  <2>1. recs.session[p] \in Value \cup {None}
    BY DEF Records
  <2>2. \A i \in Entries(q, "WRITE", p) : q[i].value \in Value
    BY <1>1, EntryFields, StoreAssumption DEF Entries, Mine
  <2> QED
    BY <2>1, <2>2, AppliedIs
<1> QED
  BY <1>3, <1>4 DEF Committed, Records

LEMMA RaisedFloorIs ==
    ASSUME NEW q \in Seq(Entry), NEW floor \in Epoch
    PROVE  /\ RaisedFloor(floor, q) \in Epoch /\ RaisedFloor(floor, q) >= floor
           /\ RaisedFloor(floor, q) \in {floor} \cup Floors(q)
           /\ \A e \in Floors(q) : e \in Epoch /\ e <= RaisedFloor(floor, q)
<1>1. Floors(q) \subseteq Epoch
  BY EntryFields DEF Floors, Entries, Mine
<1>2. {floor} \cup Floors(q) \in SUBSET (0 .. MaxEpoch) /\ {floor} \cup Floors(q) # {}
  BY <1>1 DEF Epoch
<1>3. MaxEpoch \in Nat
  BY StoreAssumption
<1>4. /\ Max({floor} \cup Floors(q)) \in {floor} \cup Floors(q)
      /\ \A x \in {floor} \cup Floors(q) : x <= Max({floor} \cup Floors(q))
  BY <1>2, <1>3, MaxOf
<1> QED
  BY <1>1, <1>4, NoRecordsTyped DEF RaisedFloor

LEMMA BootedTyped ==
    /\ \A life \in {"RUNNING", "STOPPED", "CRASHED"} :
          /\ Gone(life) \in Core /\ Gone(life).bridge = "EMPTY" /\ Gone(life).queue = <<>>
          /\ Gone(life).seq = 0 /\ Gone(life).recs = NoRecords /\ Gone(life).floor = 0
          /\ Gone(life).epoch = 0 /\ Gone(life).life = life
          /\ Gone(life).owed = {}
    /\ Booted = Gone("RUNNING")
    /\ NoCommit \in Commits /\ NoCommit.at = "IDLE"
    /\ NoAnchor \in Anchors
    /\ \A kind \in {"CORRUPT", "ABSENT"} :
          /\ Lost(kind) \in File /\ Lost(kind).kind = kind
          /\ Lost(kind).seq = 0 /\ Lost(kind).recs = NoRecords
<1>1. /\ <<>> \in Seq(Entry) /\ Len(<<>>) = 0
      /\ [p \in Peer |-> None] \in [Peer -> Value \cup {None}]
      /\ \A p \in Peer : [q \in Peer |-> None][p] = None
  OBVIOUS
<1>2. Booted = Gone("RUNNING")
  <2>1. Booted \in Core /\ Booted.life = "RUNNING"
    BY <1>1, NoRecordsTyped DEF Booted, Core
  <2>2. [Booted EXCEPT !.life = "RUNNING"] = Booted
    BY <2>1 DEF Core
  <2> QED
    BY <2>2 DEF Gone
<1>3. ASSUME NEW life \in {"RUNNING", "STOPPED", "CRASHED"}
      PROVE  Gone(life) \in Core
  BY <1>1, NoRecordsTyped DEF Gone, Booted, Core
<1>4. ASSUME NEW life \in {"RUNNING", "STOPPED", "CRASHED"}
      PROVE  /\ Gone(life).bridge = "EMPTY" /\ Gone(life).queue = <<>>
             /\ Gone(life).seq = 0 /\ Gone(life).recs = NoRecords /\ Gone(life).floor = 0
             /\ Gone(life).epoch = 0 /\ Gone(life).life = life
             /\ Gone(life).owed = {}
  BY <1>1 DEF Gone, Booted
<1>5. NoCommit \in Commits /\ NoCommit.at = "IDLE"
  BY NoRecordsTyped DEF NoCommit, Commits, None
<1>6. NoAnchor \in Anchors
  BY NoRecordsTyped DEF NoAnchor, Anchor, Anchors
<1>7. ASSUME NEW kind \in {"CORRUPT", "ABSENT"}
      PROVE  /\ Lost(kind) \in File /\ Lost(kind).kind = kind
             /\ Lost(kind).seq = 0 /\ Lost(kind).recs = NoRecords
  BY NoRecordsTyped DEF Lost, File
<1> QED
  BY <1>2, <1>3, <1>4, <1>5, <1>6, <1>7

\* One more entry in the queue of a process whose other fields were set.
LEMMA QueuedIs ==
    ASSUME NEW c \in Core, NEW e \in Entry
    PROVE  /\ Queued(c, e) \in Core
           /\ Queued(c, e).queue = Append(c.queue, e)
           /\ Queued(c, e).life = c.life /\ Queued(c, e).bridge = c.bridge
           /\ Queued(c, e).seq = c.seq /\ Queued(c, e).recs = c.recs
           /\ Queued(c, e).floor = c.floor /\ Queued(c, e).epoch = c.epoch
           /\ Queued(c, e).journal = c.journal /\ Queued(c, e).owed = c.owed
<1>1. Append(c.queue, e) \in Seq(Entry)
  BY DEF Core
<1> DEFINE longer == Append(c.queue, e)
<1>2. Queued(c, e) = [c EXCEPT !.queue = longer]
  BY DEF Queued
<1> HIDE DEF longer
<1> QED
  BY <1>1, <1>2 DEF Core, longer

\* The writers: who pushes an entry changes nothing else a commit reads.
Pushes(e) ==
    /\ Running /\ Len(core.queue) < MaxQueue
    /\ core' \in Core
    /\ core'.queue = Append(core.queue, e)
    /\ core'.life = core.life /\ core'.bridge = core.bridge
    /\ core'.seq = core.seq /\ core'.recs = core.recs /\ core'.floor = core.floor
    /\ UNCHANGED <<file, anchor, lock, commit, acked>>

LEMMA PersistPushes ==
    ASSUME Typed, NEW p \in Peer, NEW v \in Value, Persist(p, v)
    PROVE  /\ Put(p, v) \in Entry /\ Pushes(Put(p, v))
           /\ core'.epoch = core.epoch /\ core'.owed = core.owed \cup {p}
           /\ core'.journal = [core.journal EXCEPT ![p] = v]
<1> DEFINE c == [core EXCEPT !.table = @ \cup {p}, !.journal[p] = v, !.owed = @ \cup {p}]
<1>1. core \in Core
  BY Types DEF Shapes
<1>2. /\ c \in Core /\ c.queue = core.queue /\ c.life = core.life /\ c.bridge = core.bridge
      /\ c.seq = core.seq /\ c.recs = core.recs /\ c.floor = core.floor /\ c.epoch = core.epoch
      /\ c.owed = core.owed \cup {p} /\ c.journal = [core.journal EXCEPT ![p] = v]
  BY <1>1 DEF Core
<1>3. core' = Queued(c, Put(p, v)) /\ Running /\ Len(core.queue) < MaxQueue
      /\ UNCHANGED <<file, anchor, lock, commit, acked>>
  BY DEF Persist, disk
<1>4. Put(p, v) \in Entry
  BY EntryFields
<1> HIDE DEF c
<1> QED
  BY SMTT(40), <1>2, <1>3, <1>4, QueuedIs DEF Pushes

LEMMA ForgetPushes ==
    ASSUME Typed, NEW p \in Peer, Forget(p)
    PROVE  /\ Drop(p) \in Entry /\ Pushes(Drop(p))
           /\ core'.epoch = core.epoch /\ core'.owed = core.owed \cup {p}
           /\ core'.journal = [core.journal EXCEPT ![p] = None]
<1> DEFINE c == [core EXCEPT !.journal[p] = None, !.owed = @ \cup {p}]
<1>1. core \in Core
  BY Types DEF Shapes
<1>2. /\ c \in Core /\ c.queue = core.queue /\ c.life = core.life /\ c.bridge = core.bridge
      /\ c.seq = core.seq /\ c.recs = core.recs /\ c.floor = core.floor /\ c.epoch = core.epoch
      /\ c.owed = core.owed \cup {p} /\ c.journal = [core.journal EXCEPT ![p] = None]
  BY <1>1 DEF Core
<1>3. core' = Queued(c, Drop(p)) /\ Running /\ Len(core.queue) < MaxQueue
      /\ UNCHANGED <<file, anchor, lock, commit, acked>>
  BY DEF Forget, disk
<1>4. Drop(p) \in Entry
  BY EntryFields
<1> HIDE DEF c
<1> QED
  BY SMTT(40), <1>2, <1>3, <1>4, QueuedIs DEF Pushes

LEMMA AdvancePushes ==
    ASSUME Typed, NEW e \in Epoch \ {0}, AdvanceTrustEpoch(e)
    PROVE  /\ Put("EPOCH", e) \in Entry /\ Pushes(Put("EPOCH", e))
           /\ e >= core.epoch /\ core'.epoch = e /\ core'.owed = core.owed
           /\ core'.journal = core.journal
<1> DEFINE c == [core EXCEPT !.epoch = e]
<1>1. core \in Core
  BY Types DEF Shapes
<1>2. /\ c \in Core /\ c.queue = core.queue /\ c.life = core.life /\ c.bridge = core.bridge
      /\ c.seq = core.seq /\ c.recs = core.recs /\ c.floor = core.floor /\ c.epoch = e
      /\ c.owed = core.owed /\ c.journal = core.journal
  BY <1>1 DEF Core
<1>3. core' = Queued(c, Put("EPOCH", e)) /\ Running /\ Len(core.queue) < MaxQueue
      /\ UNCHANGED <<file, anchor, lock, commit, acked>> /\ e >= core.epoch
  BY DEF AdvanceTrustEpoch, disk
<1>4. Put("EPOCH", e) \in Entry
  BY EntryFields
<1> HIDE DEF c
<1> QED
  BY <1>2, <1>3, <1>4, QueuedIs DEF Pushes

LEMMA PushTyped ==
    ASSUME Typed, NEW e \in Entry, Pushes(e)
    PROVE  Typed'
<1>1. core.queue \in Seq(Entry) /\ MaxQueue \in Nat
  BY Types, NoRecordsTyped DEF Shapes, Core
<1>2. Len(core'.queue) <= MaxQueue
  BY <1>1, Appended DEF Pushes
<1>3. core'.bridge # "EMPTY" => Running'
  BY Types DEF Shapes, Pushes, Running
<1> QED
  BY <1>2, <1>3, Types DEF Shapes, Pushes

\* Everything of the process that a commit reads is as it was.
SameProcess ==
    /\ core'.life = core.life /\ core'.seq = core.seq /\ core'.recs = core.recs
    /\ core'.floor = core.floor /\ core'.epoch = core.epoch
    /\ core'.journal = core.journal

\* Flush and Shutdown, by what they do: begin a commit, be refused, or close.
Begins(by) ==
    /\ core.bridge = "HELD" /\ core'.bridge = "TAKEN" /\ SameProcess
    /\ core'.queue = core.queue /\ core'.owed = core.owed
    /\ ~ FloorWouldDecrease(core.floor, core.queue)
    /\ commit' = [at |-> "BEGUN", by |-> by, count |-> Len(core.queue), seq |-> core.seq + 1,
                  recs |-> Committed(core.recs, core.queue),
                  floor |-> RaisedFloor(core.floor, core.queue)]
Refuses ==
    /\ core.bridge = "HELD" /\ core'.bridge = "HELD" /\ SameProcess
    /\ core'.queue = <<>>
    /\ core'.owed = {p \in core.owed : Mine(core.queue, p) = {}}
    /\ FloorWouldDecrease(core.floor, core.queue)
    /\ commit' = commit
Closes ==
    /\ SameProcess /\ core'.bridge = core.bridge /\ core'.queue = core.queue
    /\ core'.owed = core.owed /\ commit' = commit

LEMMA DrainKinds ==
    ASSUME Typed, NEW by \in {"CALLER", "SHUTDOWN"}, core.bridge = "HELD", Drain(by),
           UNCHANGED <<file, anchor, lock, acked>>
    PROVE  (Begins(by) \/ Refuses) /\ Typed'
<1>1. /\ core \in Core /\ core.bridge = "HELD" /\ Running
      /\ Len(core.queue) \in 0 .. MaxQueue /\ core.queue \in Seq(Entry)
      /\ core.seq + 1 \in 0 .. MaxSeq
      /\ commit \in Commits /\ commit.at = "IDLE"
      /\ (by = "SHUTDOWN") \in BOOLEAN
  BY Types, NoRecordsTyped DEF Shapes, Core, Drain
<1>2. CASE Begin(by) /\ ~ FloorWouldDecrease(core.floor, core.queue)
  <2>1. /\ core' \in Core /\ core'.bridge = "TAKEN" /\ SameProcess
        /\ core'.queue = core.queue /\ core'.owed = core.owed
    BY <1>1, <1>2 DEF Begin, Core, SameProcess
  <2>2. /\ Committed(core.recs, core.queue) \in Records
        /\ RaisedFloor(core.floor, core.queue) \in Epoch
    BY <1>1, CommittedTyped, RaisedFloorIs DEF Core
  <2>3. commit' \in Commits /\ commit'.at = "BEGUN"
    BY <1>1, <1>2, <2>2 DEF Begin, Commits
  <2>4. Begins(by)
    BY <1>1, <1>2, <2>1 DEF Begins, Begin
  <2> QED
    BY <1>1, <2>1, <2>3, <2>4, Types DEF Shapes, SameProcess, Running
<1>3. CASE Refuse(by) /\ FloorWouldDecrease(core.floor, core.queue)
  <2> DEFINE unnamed == {p \in core.owed : Mine(core.queue, p) = {}}
  <2>1. <<>> \in Seq(Entry) /\ Len(<<>>) = 0 /\ unnamed \in SUBSET Peer
    BY <1>1 DEF Core
  <2>2. core' = [core EXCEPT !.queue = <<>>, !.closing = (by = "SHUTDOWN"),
                             !.owed = unnamed]
    BY <1>3 DEF Refuse
  <2>3. commit' = commit
    BY <1>3 DEF Refuse
  <2> HIDE DEF unnamed
  <2>4. /\ core' \in Core /\ core'.bridge = "HELD" /\ SameProcess
        /\ core'.queue = <<>> /\ core'.owed = unnamed
    BY <1>1, <2>1, <2>2 DEF Core, SameProcess
  <2>5. Refuses
    BY <1>1, <1>3, <2>3, <2>4 DEF Refuses, unnamed
  <2> QED
    BY <1>1, <2>1, <2>3, <2>4, <2>5, Types, NoRecordsTyped DEF Shapes, SameProcess, Running
<1> QED
  BY <1>2, <1>3 DEF Drain

LEMMA FlushKinds ==
    ASSUME Typed, Flush
    PROVE  /\ (\E by \in {"CALLER", "SHUTDOWN"} : Begins(by)) \/ Refuses
           /\ Typed' /\ UNCHANGED <<file, anchor, acked>>
  BY DrainKinds DEF Flush, disk

LEMMA ShutdownKinds ==
    ASSUME Typed, Shutdown
    PROVE  /\ (\E by \in {"CALLER", "SHUTDOWN"} : Begins(by)) \/ Refuses \/ Closes
           /\ Typed' /\ UNCHANGED <<file, anchor, acked>>
<1>1. CASE core.bridge = "HELD" /\ Drain("SHUTDOWN")
  BY <1>1, DrainKinds DEF Shutdown, disk
<1>2. CASE core' = [core EXCEPT !.closing = TRUE] /\ UNCHANGED commit
  <2>1. core \in Core
    BY Types DEF Shapes
  <2>2. /\ core' \in Core /\ SameProcess /\ core'.bridge = core.bridge
        /\ core'.queue = core.queue /\ core'.owed = core.owed
    BY <1>2, <2>1 DEF Core, SameProcess
  <2>3. UNCHANGED <<file, anchor, lock, acked>>
    BY DEF Shutdown, disk
  <2> QED
    BY <1>2, <2>2, <2>3, Types DEF Shapes, Closes, SameProcess, Running
<1> QED
  BY <1>1, <1>2 DEF Shutdown

LEMMA WriteAnchorTyped ==
    ASSUME Typed, WriteAnchor
    PROVE  /\ Typed' /\ commit'.at = "ANCHORED" /\ commit'.seq = commit.seq
           /\ commit'.count = commit.count /\ commit'.recs = commit.recs
           /\ commit'.floor = commit.floor
<1>1. commit \in Commits
  BY Types DEF Shapes
<1>2. /\ commit' \in Commits /\ commit'.at = "ANCHORED" /\ commit'.seq = commit.seq
      /\ commit'.count = commit.count /\ commit'.recs = commit.recs
      /\ commit'.floor = commit.floor
  BY <1>1 DEF Commits, WriteAnchor
<1>3. anchor' \in Anchors
  BY <1>1 DEF Commits, WriteAnchor, Anchor, Anchors
<1> QED
  BY <1>2, <1>3, Types DEF Shapes, WriteAnchor, Running

LEMMA WriteVaultTyped ==
    ASSUME Typed, WriteVault
    PROVE  /\ Typed' /\ commit'.at = "WRITTEN" /\ commit'.seq = commit.seq
           /\ commit'.count = commit.count /\ commit'.recs = commit.recs
           /\ commit'.floor = commit.floor
           /\ file'.kind = "IMAGE" /\ file'.seq = commit.seq /\ file'.recs = commit.recs
<1>1. commit \in Commits
  BY Types DEF Shapes
<1>2. /\ commit' \in Commits /\ commit'.at = "WRITTEN" /\ commit'.seq = commit.seq
      /\ commit'.count = commit.count /\ commit'.recs = commit.recs
      /\ commit'.floor = commit.floor
  BY <1>1 DEF Commits, WriteVault
<1>3. file' \in File /\ file'.kind = "IMAGE" /\ file'.seq = commit.seq /\ file'.recs = commit.recs
  BY <1>1 DEF Commits, WriteVault, Image, File
<1> QED
  BY <1>2, <1>3, Types DEF Shapes, WriteVault, Running

LEMMA SealTyped ==
    ASSUME Typed, SealAnchor, commit.count <= Len(core.queue)
    PROVE  /\ Typed' /\ commit'.at = "IDLE"
           /\ core'.bridge = "HELD" /\ core'.seq = commit.seq /\ core'.recs = commit.recs
           /\ core'.floor = commit.floor /\ core'.epoch = core.epoch
           /\ core'.journal = core.journal
           /\ core'.owed = core.owed \ Overtaken(core.queue, commit.count)
           /\ core'.queue = Cleared(core.queue, commit.count)
<1>1. commit \in Commits /\ core \in Core /\ commit.at # "IDLE"
  BY Types DEF Shapes, SealAnchor
<1>2. /\ Cleared(core.queue, commit.count) \in Seq(Entry)
      /\ Len(Cleared(core.queue, commit.count)) <= MaxQueue
  <2>1. /\ core.queue \in Seq(Entry) /\ commit.count \in Nat /\ MaxQueue \in Nat
        /\ Len(core.queue) <= MaxQueue
    BY <1>1, Types, NoRecordsTyped DEF Shapes, Core, Commits
  <2>2. /\ Cleared(core.queue, commit.count) \in Seq(Entry)
        /\ Len(Cleared(core.queue, commit.count)) = Len(core.queue) - commit.count
    BY <2>1, ClearedIs
  <2> QED
    BY <2>1, <2>2
<1> DEFINE rest == Cleared(core.queue, commit.count)
           over == Overtaken(core.queue, commit.count)
<1>3. core' = [core EXCEPT !.bridge = "HELD", !.seq = commit.seq, !.recs = commit.recs,
                            !.floor = commit.floor, !.queue = rest, !.owed = @ \ over]
  BY DEF SealAnchor
<1> HIDE DEF rest, over
<1>4. /\ core' \in Core /\ core'.life = core.life
      /\ core'.bridge = "HELD" /\ core'.seq = commit.seq /\ core'.recs = commit.recs
      /\ core'.floor = commit.floor /\ core'.epoch = core.epoch
      /\ core'.journal = core.journal /\ core'.owed = core.owed \ over
      /\ core'.queue = rest
  BY <1>1, <1>2, <1>3 DEF Core, Commits, rest
<1>5. anchor' \in Anchors
  <2>1. {commit.recs} \in SUBSET Records
    BY <1>1 DEF Commits
  <2> QED
    BY <1>1, <2>1 DEF Commits, SealAnchor, Anchor, Anchors
<1>6. Running
  BY <1>1, Types DEF Shapes
<1> QED
  BY <1>1, <1>2, <1>4, <1>5, <1>6, BootedTyped, Types DEF Shapes, SealAnchor, Running, Commits,
     rest, over

LEMMA FailTyped ==
    ASSUME Typed, CommitFails
    PROVE  /\ Typed' /\ SameProcess /\ commit'.at = "IDLE" /\ core.bridge = "TAKEN"
           /\ core'.bridge = "HELD" /\ core'.queue = core.queue
           /\ core'.owed = core.owed
           /\ UNCHANGED <<file, anchor, acked>>
<1>1. core \in Core /\ core.bridge = "TAKEN" /\ Running
  BY Types DEF Shapes, CommitFails
<1>2. /\ core' \in Core /\ SameProcess
      /\ core'.bridge = "HELD" /\ core'.queue = core.queue
      /\ core'.owed = core.owed
  BY <1>1 DEF Core, CommitFails, SameProcess
<1>3. commit' \in Commits /\ commit'.at = "IDLE"
  BY BootedTyped DEF CommitFails
<1>4. UNCHANGED <<file, anchor, lock, acked>>
  BY DEF CommitFails, disk
<1> QED
  BY <1>1, <1>2, <1>3, <1>4, Types DEF Shapes, SameProcess, Running

\* A process that opened the store: its memory is the vault's.
Opens ==
    /\ core.bridge = "EMPTY" /\ core'.bridge = "HELD"
    /\ core'.seq = file'.seq /\ core'.recs = file'.recs /\ core'.floor = anchor.floor
    /\ core'.epoch = core.epoch /\ core'.journal = core.journal
    /\ core'.queue = core.queue /\ core'.owed = core.owed
    /\ \/ file' = file
       \/ file.kind = "CORRUPT" /\ file' = Lost("ABSENT")
    /\ Classified # "FORKED" /\ acked' = file'.recs
    /\ UNCHANGED <<anchor, commit>>

LEMMA OpenTyped ==
    ASSUME Typed, OpenStore
    PROVE  Typed' /\ Opens
<1>1. core \in Core /\ file \in File /\ anchor \in Anchors /\ core.bridge = "EMPTY" /\ Running
  BY Types DEF Shapes, OpenStore
<1>2. Suspends(Classified) \in BOOLEAN
  BY DEF Suspends
<1>3. {p \in Peer : core.journal[p] # None} \in SUBSET Peer
  OBVIOUS
<1> DEFINE hydrated == {p \in Peer : core.journal[p] # None}
           suspends == Suspends(Classified)
<1>4. core' = [core EXCEPT !.bridge = "HELD", !.seq = file.seq, !.recs = file.recs,
                            !.floor = anchor.floor,
                            !.suspended = suspends,
                            !.table = @ \cup hydrated]
  BY DEF OpenStore
<1>5. file' = IF file.kind = "CORRUPT" THEN Lost("ABSENT") ELSE file
  BY DEF OpenStore
<1>6. file' \in File /\ file'.seq = file.seq /\ file'.recs = file.recs
      /\ (file'.kind # "IMAGE" => file' = Lost(file'.kind))
  <2>1. file.kind # "IMAGE" => file = Lost(file.kind)
    BY Types DEF Shapes
  <2>2. CASE file.kind = "CORRUPT"
    BY <1>5, <2>1, <2>2, BootedTyped
  <2>3. CASE file.kind # "CORRUPT"
    BY <1>1, <1>5, <2>1, <2>3
  <2> QED
    BY <2>2, <2>3
<1> HIDE DEF hydrated, suspends
<1>7. /\ core' \in Core /\ core'.life = core.life
      /\ core'.bridge = "HELD" /\ core'.seq = file.seq /\ core'.recs = file.recs
      /\ core'.floor = anchor.floor /\ core'.epoch = core.epoch
      /\ core'.journal = core.journal /\ core'.owed = core.owed
      /\ core'.queue = core.queue
  <2>1. hydrated \in SUBSET Peer /\ suspends \in BOOLEAN
    BY <1>2, <1>3 DEF hydrated, suspends
  <2> QED
    BY <1>1, <1>4, <2>1 DEF Core, File, Anchors
<1>8. /\ acked' = file.recs /\ UNCHANGED <<anchor, commit>> /\ lock' = TRUE
      /\ Classified # "FORKED"
  BY DEF OpenStore
<1>9. Opens
  BY <1>1, <1>5, <1>6, <1>7, <1>8 DEF Opens
<1>10. acked' \in Records /\ lock' \in BOOLEAN
  BY <1>1, <1>8 DEF File
<1> QED
  BY <1>1, <1>6, <1>7, <1>8, <1>9, <1>10, Types DEF Shapes, Running

\* A process that is no more, or one just started.
Fresh ==
    /\ \E life \in {"RUNNING", "STOPPED", "CRASHED"} : core' = Gone(life)
    /\ commit'.at = "IDLE"
    /\ UNCHANGED <<file, anchor, acked>>

LEMMA FreshTyped ==
    ASSUME Typed, NEW life \in {"RUNNING", "STOPPED", "CRASHED"}, core' = Gone(life),
           commit' \in Commits, commit'.at = "IDLE", lock' \in BOOLEAN,
           UNCHANGED <<file, anchor, acked>>
    PROVE  Typed' /\ Fresh
<1>1. Len(<<>>) = 0 /\ MaxQueue \in Nat
  BY NoRecordsTyped
<1>2. core' \in Core /\ core'.bridge = "EMPTY" /\ core'.queue = <<>>
  BY BootedTyped
<1> QED
  BY <1>1, <1>2, Types DEF Shapes, Fresh

LEMMA EndTyped ==
    ASSUME Typed, ShutdownEnds \/ BeginShutdown \/ Crash \/ Start
    PROVE  Typed' /\ Fresh
<1>1. lock \in BOOLEAN /\ commit \in Commits /\ (~ Running => commit.at = "IDLE")
  BY Types DEF Shapes, Commits
<1>2. NoCommit \in Commits /\ NoCommit.at = "IDLE" /\ Booted = Gone("RUNNING")
  BY BootedTyped
<1>3. CASE ShutdownEnds
  <2>1. lock' \in BOOLEAN
    BY <1>1, <1>3, Zenon DEF ShutdownEnds
  <2> QED
    BY <1>2, <1>3, <2>1, FreshTyped DEF ShutdownEnds, End
<1>4. CASE BeginShutdown \/ Crash
  BY <1>1, <1>2, <1>4, FreshTyped DEF BeginShutdown, Crash, End
<1>5. CASE Start
  BY <1>1, <1>2, <1>5, FreshTyped DEF Start, disk
<1> QED
  BY <1>3, <1>4, <1>5

\* The file is lost while nothing runs; or only the lock changes.
Damaged ==
    /\ core.bridge = "EMPTY"
    /\ \E kind \in {"CORRUPT", "ABSENT"} : file' = Lost(kind)
    /\ UNCHANGED <<anchor, core, commit, acked>>
Idles == UNCHANGED <<file, anchor, core, commit, acked>>

LEMMA BetweenTyped ==
    ASSUME Typed, DamageVault \/ RemoveLock \/ OpenRefused
    PROVE  Typed' /\ (Damaged \/ Idles)
<1>1. CASE DamageVault
  <2>1. PICK kind \in {"CORRUPT", "ABSENT"} : file' = Lost(kind)
    BY <1>1, StoreAssumption DEF DamageVault
  <2>2. file' \in File /\ file'.kind = kind
    BY <2>1, BootedTyped
  <2>3. ~ Running /\ UNCHANGED <<anchor, lock, core, commit, acked>>
    BY <1>1 DEF DamageVault
  <2>4. core.bridge = "EMPTY"
    BY <2>3, Types DEF Shapes
  <2> QED
    BY <2>1, <2>2, <2>3, <2>4, Types DEF Shapes, Damaged, Running
<1>2. CASE RemoveLock \/ OpenRefused
  BY <1>2, Types DEF Shapes, RemoveLock, OpenRefused, Idles, Running
<1> QED
  BY <1>1, <1>2

LEMMA IdleTyped ==
    ASSUME Typed, UNCHANGED vars
    PROVE  Typed' /\ Idles
  BY Types DEF vars, Idles, Shapes, Running

\* A commit never counts more than the queue holds, whoever pushes meanwhile.
Counted == commit.at # "IDLE" => commit.count <= Len(core.queue)

LEMMA InitTyped ==
    ASSUME Init
    PROVE  Typed /\ Counted
<1>1. Len(<<>>) = 0 /\ MaxQueue \in Nat /\ NoRecords \in Records
  BY NoRecordsTyped
<1>2. /\ core \in Core /\ core.bridge = "EMPTY" /\ core.queue = <<>>
      /\ commit \in Commits /\ commit.at = "IDLE" /\ anchor \in Anchors
      /\ file \in File /\ file = Lost(file.kind)
  BY BootedTyped DEF Init
<1>3. acked \in Records /\ lock \in BOOLEAN /\ (core.bridge = "TAKEN") = (commit.at # "IDLE")
  BY <1>1, <1>2, Zenon DEF Init
<1> QED
  BY <1>1, <1>2, <1>3, Types DEF Shapes, Counted

\* Every step, by what it does.
Kinds ==
    \/ \E p \in Peer, v \in Value : Persist(p, v)
    \/ \E p \in Peer : Forget(p)
    \/ \E e \in Epoch \ {0} : AdvanceTrustEpoch(e)
    \/ (\E by \in {"CALLER", "SHUTDOWN"} : Begins(by)) /\ UNCHANGED <<file, anchor, acked>>
    \/ Refuses /\ UNCHANGED <<file, anchor, acked>>
    \/ Closes /\ UNCHANGED <<file, anchor, acked>>
    \/ WriteAnchor \/ WriteVault \/ SealAnchor \/ CommitFails
    \/ Opens \/ Fresh \/ Damaged \/ Idles

LEMMA StepKinds ==
    ASSUME Typed, Counted, [Next]_vars
    PROVE  Typed' /\ Kinds
<1>1. CASE \E p \in Peer, v \in Value : Persist(p, v)
  BY <1>1, PersistPushes, PushTyped DEF Kinds
<1>2. CASE \E p \in Peer : Forget(p)
  BY <1>2, ForgetPushes, PushTyped DEF Kinds
<1>3. CASE \E e \in Epoch \ {0} : AdvanceTrustEpoch(e)
  BY <1>3, AdvancePushes, PushTyped DEF Kinds
<1>4. CASE Flush \/ Shutdown
  BY <1>4, FlushKinds, ShutdownKinds DEF Kinds
<1>5. CASE WriteAnchor \/ WriteVault \/ CommitFails
  BY <1>5, WriteAnchorTyped, WriteVaultTyped, FailTyped DEF Kinds
<1>6. CASE SealAnchor
  BY <1>6, SealTyped DEF Kinds, Counted, SealAnchor
<1>7. CASE OpenStore
  BY <1>7, OpenTyped DEF Kinds
<1>8. CASE ShutdownEnds \/ BeginShutdown \/ Crash \/ Start
  BY <1>8, EndTyped DEF Kinds
<1>9. CASE DamageVault \/ RemoveLock \/ OpenRefused
  BY <1>9, BetweenTyped DEF Kinds
<1>10. CASE UNCHANGED vars
  BY <1>10, IdleTyped DEF Kinds
<1> QED
  BY <1>1, <1>2, <1>3, <1>4, <1>5, <1>6, <1>7, <1>8, <1>9, <1>10 DEF Next

LEMMA CountedStep ==
    ASSUME Typed, Counted, Kinds
    PROVE  Counted'
<1>1. core.queue \in Seq(Entry) /\ Len(core.queue) \in Nat /\ commit \in Commits
  BY Types DEF Shapes, Core
<1>2. ASSUME NEW e \in Entry, Pushes(e)
      PROVE  Counted'
  BY <1>1, <1>2, Appended DEF Pushes, Counted, Commits
<1>3. CASE \/ \E p \in Peer, v \in Value : Persist(p, v)
           \/ \E p \in Peer : Forget(p)
           \/ \E e \in Epoch \ {0} : AdvanceTrustEpoch(e)
  BY <1>2, <1>3, PersistPushes, ForgetPushes, AdvancePushes
<1>4. CASE \E by \in {"CALLER", "SHUTDOWN"} : Begins(by)
  BY <1>1, <1>4 DEF Begins, Counted
<1>5. CASE Refuses \/ Closes \/ Fresh \/ Damaged \/ Idles
  BY <1>5, Types DEF Shapes, Refuses, Closes, Fresh, Damaged, Idles, Counted
<1>6. CASE WriteAnchor \/ WriteVault
  BY <1>6, WriteAnchorTyped, WriteVaultTyped DEF Counted, WriteAnchor, WriteVault
<1>7. CASE SealAnchor \/ CommitFails
  BY <1>7, FailTyped, BootedTyped DEF SealAnchor, Counted
<1>8. CASE Opens
  BY <1>8, Types DEF Shapes, Opens, Counted
<1> QED
  BY <1>3, <1>4, <1>5, <1>6, <1>7, <1>8 DEF Kinds

Sound == Typed /\ Counted

LEMMA SoundAlways == Spec => []Sound
<1>1. Sound /\ [Next]_vars => Sound'
  BY StepKinds, CountedStep DEF Sound
<1> QED
  BY <1>1, InitTyped, PTL DEF Spec, Sound

(* The disk, the process and the commit in flight are well formed, and the  *)
(* bridge is out of its slot exactly while a commit is in flight: no path   *)
(* through a failed commit, a refused batch or a shutdown forgets to put    *)
(* it back (bridge.rs).                                                     *)
THEOREM StoreTypeCorrect == Spec => []TypeOK
  BY SoundAlways, PTL DEF Sound, Typed

-----------------------------------------------------------------------------
(* The disk against the process and the commit in flight.                  *)

\* A floor the process may leave on disk: its own, or a higher one that a
\* queued write still asks for and no queued write is under, so that the next
\* commit asks for it too.
RaisedBy(floor, base, queue) ==
    \/ floor = base
    \/ /\ floor > base /\ floor \in Floors(queue)
       /\ \A e \in Floors(queue) : e >= base

FloorsAgree ==
    /\ core.recs.epoch <= core.floor
    /\ \A e \in Floors(core.queue) : e <= core.epoch
    /\ core.bridge # "EMPTY" => RaisedBy(anchor.floor, core.floor, core.queue)

CommitAgrees ==
    commit.at # "IDLE" =>
        /\ commit.seq = core.seq + 1
        /\ commit.recs.epoch <= commit.floor
        /\ RaisedBy(commit.floor, core.floor, core.queue)
        /\ commit.at = "BEGUN" => anchor.floor <= commit.floor
        /\ commit.at # "BEGUN" => anchor = Anchor(commit.seq, {}, commit.floor)
        /\ commit.at = "WRITTEN" => file = Image(commit.seq, commit.recs)

\* An open vault is the one the process knows, or one step newer: then a commit
\* stopped after writing it, and no anchor names it.
InStep ==
    /\ core.recs = acked
    /\ \/ file.kind = "IMAGE" => file.seq = core.seq /\ file.recs = acked
       \/ file.seq = core.seq + 1 /\ anchor.seq = file.seq /\ anchor.digest = {}
    /\ file.seq <= core.seq + 1

DiskAgrees ==
    /\ FloorsAgree /\ CommitAgrees
    /\ file.seq <= anchor.seq
    /\ EpochUnderFloor
    /\ core.bridge # "EMPTY" => InStep
    /\ core.bridge = "EMPTY" => AcknowledgedSurvives

LEMMA FloorsOf ==
    /\ Floors(<<>>) = {}
    /\ \A q \in Seq(Entry) : Floors(q) \subseteq Epoch
    /\ \A q \in Seq(Entry), e \in Entry :
          Floors(Append(q, e)) = IF e.op = "WRITE" /\ e.key = "EPOCH" THEN Floors(q) \cup {e.value}
                                 ELSE Floors(q)
<1>1. Floors(<<>>) = {}
  BY DEF Floors, Entries, Mine
<1>2. ASSUME NEW q \in Seq(Entry)
      PROVE  Floors(q) \subseteq Epoch
  BY EntryFields DEF Floors, Entries, Mine
<1>3. ASSUME NEW q \in Seq(Entry), NEW e \in Entry
      PROVE  Floors(Append(q, e)) = IF e.op = "WRITE" /\ e.key = "EPOCH"
                                    THEN Floors(q) \cup {e.value} ELSE Floors(q)
  <2> DEFINE r == Append(q, e)
             n == Len(q)
  <2>1. /\ DOMAIN q = 1 .. n /\ DOMAIN r = 1 .. n + 1 /\ r[n + 1] = e /\ n \in Nat
        /\ \A i \in 1 .. n : r[i] = q[i]
    BY Appended
  <2>2. n + 1 \in 1 .. n + 1 /\ (\A i \in 1 .. n + 1 : i \in 1 .. n \/ i = n + 1)
        /\ (\A i \in 1 .. n : i \in 1 .. n + 1)
    BY <2>1
  <2> HIDE DEF r, n
  <2>3. \A x \in Floors(q) : x \in Floors(r)
    BY <2>1, <2>2 DEF Floors, Entries, Mine
  <2>4. \A x \in Floors(r) : x \in Floors(q) \/ (e.op = "WRITE" /\ e.key = "EPOCH" /\ x = e.value)
    BY <2>1, <2>2 DEF Floors, Entries, Mine
  <2>5. e.op = "WRITE" /\ e.key = "EPOCH" => e.value \in Floors(r)
    BY <2>1, <2>2 DEF Floors, Entries, Mine
  <2> QED
    BY <2>3, <2>4, <2>5 DEF r
<1> QED
  BY <1>1, <1>2, <1>3

LEMMA FloorsCleared ==
    ASSUME NEW q \in Seq(Entry), NEW n \in Nat, n <= Len(q)
    PROVE  Floors(Cleared(q, n)) \subseteq Floors(q)
<1> DEFINE r == Cleared(q, n)
<1>1. \A i \in DOMAIN r : n + i \in DOMAIN q /\ r[i] = q[n + i]
  <2>1. /\ DOMAIN r = 1 .. Len(q) - n /\ \A i \in 1 .. Len(q) - n : r[i] = q[n + i]
        /\ DOMAIN q = 1 .. Len(q) /\ Len(q) \in Nat
    BY ClearedIs
  <2> HIDE DEF r
  <2> QED
    BY <2>1
<1> HIDE DEF r
<1>2. Floors(r) \subseteq Floors(q)
  BY <1>1 DEF Floors, Entries, Mine
<1> QED
  BY <1>2 DEF r

\* What stays when a writer pushes.
LEMMA PushFloors ==
    ASSUME Typed, NEW e \in Entry, Pushes(e), FloorsAgree, CommitAgrees,
           core'.epoch \in Epoch, core'.epoch >= core.epoch,
           e.op = "WRITE" /\ e.key = "EPOCH" => e.value = core'.epoch
    PROVE  FloorsAgree' /\ CommitAgrees'
<1>1. /\ core.queue \in Seq(Entry) /\ core.floor \in Nat /\ core.epoch \in Nat
      /\ core'.epoch \in Nat /\ core.recs.epoch \in Nat
      /\ anchor.floor \in Nat /\ commit.floor \in Nat
  BY Types, NoRecordsTyped DEF Shapes, Core, Anchors, Commits, Records
<1>2. Floors(core.queue) \subseteq Nat
  BY <1>1, FloorsOf, NoRecordsTyped
<1>3. Floors(core'.queue) = IF e.op = "WRITE" /\ e.key = "EPOCH" THEN Floors(core.queue) \cup {e.value}
                            ELSE Floors(core.queue)
  BY <1>1, FloorsOf DEF Pushes
<1>4. \A x \in Floors(core'.queue) : x <= core'.epoch
  BY <1>1, <1>2, <1>3 DEF FloorsAgree
<1>5. ASSUME NEW floor \in Nat, RaisedBy(floor, core.floor, core.queue)
      PROVE  RaisedBy(floor, core.floor, core'.queue)
  <2>1. CASE floor = core.floor
    BY <2>1 DEF RaisedBy
  <2>2. CASE /\ floor > core.floor /\ floor \in Floors(core.queue)
             /\ \A x \in Floors(core.queue) : x >= core.floor
    <3>1. floor <= core.epoch
      BY <2>2 DEF FloorsAgree
    <3>2. \A x \in Floors(core'.queue) : x >= core.floor
      BY <1>1, <1>2, <1>3, <2>2, <3>1
    <3> QED
      BY <1>3, <2>2, <3>2 DEF RaisedBy
  <2> QED
    BY <1>5, <2>1, <2>2 DEF RaisedBy
<1>6. FloorsAgree'
  BY <1>1, <1>4, <1>5 DEF FloorsAgree, Pushes
<1>7. CommitAgrees'
  BY <1>1, <1>5 DEF CommitAgrees, Pushes
<1> QED
  BY <1>6, <1>7

\* A vault that a commit left behind unnamed is a fork, whatever else happened.
LEMMA StoppedCommitForks ==
    ASSUME Typed, NEW seq \in Nat, file.seq = seq + 1, anchor.seq = file.seq,
           anchor.digest = {}
    PROVE  AcknowledgedSurvives
<1>1. CASE file.kind = "IMAGE"
  <2>1. anchor.seq # 0 /\ file.kind # "ABSENT" /\ anchor.seq = file.seq /\ anchor.digest # {file.recs}
        /\ ~ (anchor.seq > file.seq) /\ ~ (anchor.seq < file.seq)
    BY <1>1, Types DEF Shapes, File
  <2>2. Classified = "FORKED"
    BY <2>1 DEF Classified
  <2> QED
    BY <2>2 DEF AcknowledgedSurvives
<1>2. CASE file.kind # "IMAGE"
  BY <1>2 DEF AcknowledgedSurvives
<1> QED
  BY <1>1, <1>2

\* The numbers the steps compare.
LEMMA Numbers ==
    ASSUME Typed
    PROVE  /\ file.seq \in Nat /\ anchor.seq \in Nat /\ core.seq \in Nat /\ commit.seq \in Nat
           /\ file.recs.epoch \in Nat /\ core.recs.epoch \in Nat /\ commit.recs.epoch \in Nat
           /\ anchor.floor \in Epoch /\ core.floor \in Epoch /\ commit.floor \in Epoch
           /\ core.epoch \in Epoch /\ Epoch \subseteq Nat
           /\ core.queue \in Seq(Entry) /\ core.recs \in Records
           /\ core.bridge \in {"EMPTY", "HELD", "TAKEN"}
           /\ commit.at \in {"IDLE", "BEGUN", "ANCHORED", "WRITTEN"}
           /\ (core.bridge = "TAKEN") = (commit.at # "IDLE")
<1>1. \A r \in Records : r.epoch \in Nat
  BY NoRecordsTyped DEF Records
<1>2. file.seq \in Nat /\ file.recs.epoch \in Nat
  BY <1>1, Types, NoRecordsTyped DEF Shapes, File
<1>3. anchor.seq \in Nat /\ anchor.floor \in Epoch
  BY Types, NoRecordsTyped DEF Shapes, Anchors
<1>4. /\ core.seq \in Nat /\ core.recs.epoch \in Nat /\ core.floor \in Epoch
      /\ core.epoch \in Epoch /\ core.queue \in Seq(Entry) /\ core.recs \in Records
      /\ core.bridge \in {"EMPTY", "HELD", "TAKEN"}
  BY <1>1, Types, NoRecordsTyped DEF Shapes, Core
<1>5. /\ commit.seq \in Nat /\ commit.recs.epoch \in Nat /\ commit.floor \in Epoch
      /\ commit.at \in {"IDLE", "BEGUN", "ANCHORED", "WRITTEN"}
  BY <1>1, Types, NoRecordsTyped DEF Shapes, Commits
<1>6. (core.bridge = "TAKEN") = (commit.at # "IDLE")
  BY Types DEF Shapes
<1> QED
  BY <1>2, <1>3, <1>4, <1>5, <1>6, NoRecordsTyped

\* What is in step survives the process.
LEMMA InStepSurvives ==
    ASSUME Typed, InStep, file.seq <= anchor.seq
    PROVE  AcknowledgedSurvives
<1>1. CASE file.kind = "IMAGE" => file.seq = core.seq /\ file.recs = acked
  BY <1>1 DEF AcknowledgedSurvives
<1>2. CASE file.seq = core.seq + 1 /\ anchor.seq = file.seq /\ anchor.digest = {}
  BY <1>2, StoppedCommitForks, Numbers
<1> QED
  BY <1>1, <1>2 DEF InStep

LEMMA BeginDisk ==
    ASSUME Typed, DiskAgrees, NEW by, Begins(by), UNCHANGED <<file, anchor, acked>>
    PROVE  DiskAgrees'
<1> DEFINE raised == RaisedFloor(core.floor, core.queue)
           after == Committed(core.recs, core.queue)
<1>1. /\ raised \in Epoch /\ raised >= core.floor
      /\ raised \in {core.floor} \cup Floors(core.queue)
      /\ \A e \in Floors(core.queue) : e \in Epoch /\ e <= raised
  BY Numbers, RaisedFloorIs
<1>2. after.epoch = Applied(core.queue, "EPOCH", core.recs.epoch)
  BY Numbers, CommittedTyped
<1>3. Entries(core.queue, "DELETE", "EPOCH") = {}
  BY SMTT(40), Numbers, EntryFields DEF Entries, Mine
<1>4. after.epoch = core.recs.epoch \/ after.epoch \in Floors(core.queue)
  BY <1>2, <1>3, Numbers, AppliedIs DEF Floors
<1>5. core.recs.epoch <= core.floor /\ core.bridge # "EMPTY"
      /\ RaisedBy(anchor.floor, core.floor, core.queue) /\ InStep
  BY DEF DiskAgrees, FloorsAgree, Begins
<1>6. /\ commit'.at = "BEGUN" /\ commit'.seq = core.seq + 1 /\ commit'.recs = after
      /\ commit'.floor = raised
      /\ core'.floor = core.floor /\ core'.queue = core.queue /\ core'.recs = core.recs
      /\ core'.seq = core.seq /\ core'.epoch = core.epoch /\ core'.bridge = "TAKEN"
      /\ \A e \in Floors(core.queue) : ~ (e < core.floor)
  BY DEF Begins, SameProcess, FloorWouldDecrease
<1> HIDE DEF raised, after
<1>7. after.epoch <= raised
  BY SMTT(40), <1>1, <1>4, <1>5, Numbers
<1>8. RaisedBy(raised, core.floor, core.queue)
  BY <1>1, <1>6, Numbers DEF RaisedBy
<1>9. anchor.floor <= raised
  BY <1>1, <1>5, Numbers DEF RaisedBy
<1>10. FloorsAgree'
  BY <1>6 DEF DiskAgrees, FloorsAgree, Begins
<1>11. CommitAgrees'
  BY <1>6, <1>7, <1>8, <1>9 DEF CommitAgrees
<1>12. InStep'
  BY <1>5, <1>6 DEF InStep
<1> QED
  BY <1>6, <1>10, <1>11, <1>12 DEF DiskAgrees, EpochUnderFloor

LEMMA RefuseDisk ==
    ASSUME Typed, DiskAgrees, Refuses, UNCHANGED <<file, anchor, acked>>
    PROVE  DiskAgrees'
<1>1. /\ core.bridge = "HELD" /\ core'.bridge = "HELD" /\ commit.at = "IDLE" /\ commit' = commit
      /\ core'.floor = core.floor /\ core'.queue = <<>> /\ core'.recs = core.recs
      /\ core'.seq = core.seq /\ core'.epoch = core.epoch
      /\ \E e \in Floors(core.queue) : e < core.floor
  BY Numbers DEF Refuses, SameProcess, FloorWouldDecrease
<1>2. Floors(core'.queue) = {} /\ Floors(core.queue) \subseteq Nat
  BY <1>1, FloorsOf, Numbers
<1>3. RaisedBy(anchor.floor, core.floor, core.queue) /\ InStep
  BY <1>1 DEF DiskAgrees, FloorsAgree
<1>4. anchor.floor = core.floor
  BY <1>1, <1>2, <1>3, Numbers DEF RaisedBy
<1>5. FloorsAgree'
  BY <1>1, <1>2, <1>4 DEF DiskAgrees, FloorsAgree, RaisedBy
<1>6. InStep' /\ CommitAgrees'
  BY <1>1, <1>3 DEF InStep, CommitAgrees
<1> QED
  BY <1>1, <1>5, <1>6 DEF DiskAgrees, EpochUnderFloor

LEMMA WriteAnchorDisk ==
    ASSUME Typed, DiskAgrees, WriteAnchor
    PROVE  DiskAgrees' /\ anchor'.floor >= anchor.floor
<1>1. /\ commit.at = "BEGUN" /\ core.bridge = "TAKEN" /\ UNCHANGED <<file, core, acked>>
      /\ anchor' = Anchor(commit.seq, {}, commit.floor)
      /\ commit'.at = "ANCHORED" /\ commit'.seq = commit.seq /\ commit'.recs = commit.recs
      /\ commit'.floor = commit.floor
  BY WriteAnchorTyped, Numbers DEF WriteAnchor
<1>2. /\ commit.seq = core.seq + 1 /\ anchor.floor <= commit.floor
      /\ commit.recs.epoch <= commit.floor
      /\ RaisedBy(commit.floor, core.floor, core.queue) /\ InStep
  BY <1>1 DEF DiskAgrees, CommitAgrees
<1>3. anchor'.seq = commit.seq /\ anchor'.digest = {} /\ anchor'.floor = commit.floor
  BY <1>1 DEF Anchor
<1>4. FloorsAgree' /\ CommitAgrees'
  BY <1>1, <1>2, <1>3 DEF DiskAgrees, FloorsAgree, CommitAgrees
<1>5. InStep' /\ file'.seq <= anchor'.seq
  BY <1>1, <1>2, <1>3, Numbers DEF InStep
<1>6. EpochUnderFloor' /\ anchor'.floor >= anchor.floor
  BY <1>1, <1>2, <1>3, Numbers DEF DiskAgrees, EpochUnderFloor
<1> QED
  BY <1>1, <1>4, <1>5, <1>6 DEF DiskAgrees

LEMMA WriteVaultDisk ==
    ASSUME Typed, DiskAgrees, WriteVault
    PROVE  DiskAgrees'
<1>1. /\ commit.at = "ANCHORED" /\ core.bridge = "TAKEN" /\ UNCHANGED <<anchor, core, acked>>
      /\ file' = Image(commit.seq, commit.recs)
      /\ file'.seq = commit.seq /\ file'.recs = commit.recs
      /\ commit'.at = "WRITTEN" /\ commit'.seq = commit.seq /\ commit'.recs = commit.recs
      /\ commit'.floor = commit.floor
  BY WriteVaultTyped, Numbers DEF WriteVault
<1>2. /\ commit.seq = core.seq + 1 /\ anchor = Anchor(commit.seq, {}, commit.floor)
      /\ commit.recs.epoch <= commit.floor
      /\ RaisedBy(commit.floor, core.floor, core.queue) /\ InStep
  BY <1>1 DEF DiskAgrees, CommitAgrees
<1>3. anchor.seq = commit.seq /\ anchor.digest = {} /\ anchor.floor = commit.floor
  BY <1>2 DEF Anchor
<1>4. FloorsAgree' /\ CommitAgrees'
  BY <1>1, <1>2, <1>3 DEF DiskAgrees, FloorsAgree, CommitAgrees
<1>5. InStep' /\ file'.seq <= anchor'.seq /\ EpochUnderFloor'
  BY <1>1, <1>2, <1>3, Numbers DEF InStep, EpochUnderFloor
<1> QED
  BY <1>1, <1>4, <1>5 DEF DiskAgrees

LEMMA SealDisk ==
    ASSUME Typed, Counted, DiskAgrees, SealAnchor
    PROVE  DiskAgrees' /\ anchor'.floor = anchor.floor
<1>1. /\ commit.at = "WRITTEN" /\ commit.count <= Len(core.queue) /\ commit'.at = "IDLE"
      /\ core'.bridge = "HELD" /\ core'.seq = commit.seq /\ core'.recs = commit.recs
      /\ core'.floor = commit.floor /\ core'.epoch = core.epoch
      /\ core'.queue = Cleared(core.queue, commit.count)
      /\ anchor' = Anchor(commit.seq, {commit.recs}, commit.floor)
      /\ acked' = commit.recs /\ file' = file
  BY SealTyped DEF SealAnchor, Counted
<1>2. /\ anchor = Anchor(commit.seq, {}, commit.floor) /\ file = Image(commit.seq, commit.recs)
      /\ commit.recs.epoch <= commit.floor
  BY <1>1 DEF DiskAgrees, CommitAgrees
<1>3. /\ anchor.floor = commit.floor /\ anchor'.floor = commit.floor /\ anchor'.seq = commit.seq
      /\ file.seq = commit.seq /\ file.recs = commit.recs
  BY <1>1, <1>2 DEF Anchor, Image
<1>4. Floors(core'.queue) \subseteq Floors(core.queue)
  <2>1. commit.count \in Nat
    BY Types DEF Shapes, Commits
  <2> QED
    BY <1>1, <2>1, FloorsCleared, Numbers
<1>5. FloorsAgree' /\ CommitAgrees'
  BY <1>1, <1>2, <1>3, <1>4 DEF DiskAgrees, FloorsAgree, CommitAgrees, RaisedBy
<1>6. InStep' /\ file'.seq <= anchor'.seq /\ EpochUnderFloor'
  BY <1>1, <1>2, <1>3, Numbers DEF InStep, EpochUnderFloor
<1> QED
  BY <1>1, <1>3, <1>5, <1>6 DEF DiskAgrees

LEMMA FailDisk ==
    ASSUME Typed, DiskAgrees, CommitFails
    PROVE  DiskAgrees'
<1>1. /\ commit'.at = "IDLE" /\ core.bridge = "TAKEN" /\ commit.at # "IDLE"
      /\ core'.bridge = "HELD" /\ core'.queue = core.queue
      /\ core'.seq = core.seq /\ core'.recs = core.recs
      /\ core'.floor = core.floor /\ core'.epoch = core.epoch
      /\ UNCHANGED <<file, anchor, acked>>
  BY FailTyped DEF SameProcess, CommitFails
<1>2. FloorsAgree' /\ CommitAgrees' /\ InStep'
  BY <1>1 DEF DiskAgrees, FloorsAgree, CommitAgrees, InStep
<1> QED
  BY <1>1, <1>2 DEF DiskAgrees, EpochUnderFloor

LEMMA OpenDisk ==
    ASSUME Typed, DiskAgrees, Opens
    PROVE  DiskAgrees'
<1>1. /\ core.bridge = "EMPTY" /\ core'.bridge = "HELD" /\ commit'.at = "IDLE"
      /\ core'.seq = file'.seq /\ core'.recs = file'.recs /\ core'.floor = anchor.floor
      /\ core'.epoch = core.epoch /\ core'.queue = core.queue /\ acked' = file'.recs
      /\ anchor' = anchor
  BY Numbers DEF Opens
<1>2. file'.seq = file.seq /\ file'.recs = file.recs
  <2>1. CASE file' = file
    BY <2>1
  <2>2. CASE file.kind = "CORRUPT" /\ file' = Lost("ABSENT")
    BY <2>2, Types, BootedTyped DEF Shapes
  <2> QED
    BY <2>1, <2>2 DEF Opens
<1>3. FloorsAgree' /\ CommitAgrees' /\ EpochUnderFloor'
  BY <1>1, <1>2 DEF DiskAgrees, FloorsAgree, CommitAgrees, RaisedBy, EpochUnderFloor
<1>4. InStep' /\ file'.seq <= anchor'.seq
  BY <1>1, <1>2, Numbers DEF DiskAgrees, InStep
<1> QED
  BY <1>1, <1>3, <1>4 DEF DiskAgrees

LEMMA FreshDisk ==
    ASSUME Typed, DiskAgrees, Fresh
    PROVE  DiskAgrees'
<1>1. /\ core'.bridge = "EMPTY" /\ core'.queue = <<>> /\ core'.floor = 0
      /\ core'.recs.epoch = 0 /\ core'.epoch = 0 /\ commit'.at = "IDLE"
      /\ UNCHANGED <<file, anchor, acked>>
  BY BootedTyped, NoRecordsTyped DEF Fresh
<1>2. FloorsAgree' /\ CommitAgrees'
  BY <1>1, FloorsOf DEF FloorsAgree, CommitAgrees
<1>3. AcknowledgedSurvives
  BY InStepSurvives DEF DiskAgrees
<1>4. AcknowledgedSurvives' /\ EpochUnderFloor'
  BY <1>1, <1>3 DEF DiskAgrees, AcknowledgedSurvives, EpochUnderFloor, Classified
<1> QED
  BY <1>1, <1>2, <1>4 DEF DiskAgrees

LEMMA DamageDisk ==
    ASSUME Typed, DiskAgrees, Damaged
    PROVE  DiskAgrees'
<1>1. /\ core.bridge = "EMPTY" /\ file'.seq = 0 /\ file'.recs.epoch = 0 /\ file'.kind # "IMAGE"
      /\ UNCHANGED <<anchor, core, commit, acked>> /\ commit.at = "IDLE"
  BY BootedTyped, NoRecordsTyped, Numbers DEF Damaged
<1>2. FloorsAgree' /\ CommitAgrees'
  BY <1>1 DEF DiskAgrees, FloorsAgree, CommitAgrees
<1>3. AcknowledgedSurvives' /\ EpochUnderFloor' /\ file'.seq <= anchor'.seq
  BY <1>1, Numbers DEF AcknowledgedSurvives, EpochUnderFloor
<1> QED
  BY <1>1, <1>2, <1>3 DEF DiskAgrees

LEMMA DiskStep ==
    ASSUME Typed, Counted, DiskAgrees, Kinds
    PROVE  DiskAgrees' /\ anchor'.floor >= anchor.floor
<1>1. anchor.floor \in Nat
  BY Numbers
<1>2. ASSUME NEW e \in Entry, Pushes(e), core'.epoch \in Epoch, core'.epoch >= core.epoch,
             e.op = "WRITE" /\ e.key = "EPOCH" => e.value = core'.epoch
      PROVE  DiskAgrees' /\ anchor' = anchor
  <2>1. FloorsAgree' /\ CommitAgrees'
    BY <1>2, PushFloors DEF DiskAgrees
  <2>2. /\ UNCHANGED <<file, anchor, commit, acked>> /\ core'.bridge = core.bridge
        /\ core'.seq = core.seq /\ core'.recs = core.recs
    BY <1>2 DEF Pushes
  <2> QED
    BY <2>1, <2>2
       DEF DiskAgrees, InStep, EpochUnderFloor, AcknowledgedSurvives, Classified
<1>3. CASE \E p \in Peer, v \in Value : Persist(p, v)
  <2>1. PICK p \in Peer, v \in Value : Persist(p, v)
    BY <1>3
  <2>2. Put(p, v).key # "EPOCH"
    BY EntryFields, StoreAssumption
  <2>3. core'.epoch = core.epoch /\ core'.epoch \in Epoch /\ core'.epoch >= core.epoch
    <3>1. core'.epoch = core.epoch
      BY <2>1, PersistPushes
    <3>2. core.epoch \in Epoch /\ core.epoch \in Nat
      BY Numbers
    <3> QED
      BY <3>1, <3>2
  <2>4. Put(p, v) \in Entry /\ Pushes(Put(p, v))
    BY <2>1, PersistPushes
  <2>5. DiskAgrees' /\ anchor' = anchor
    BY <1>2, <2>2, <2>3, <2>4
  <2> QED
    BY <1>1, <2>5
<1>4. CASE \E p \in Peer : Forget(p)
  <2>1. PICK p \in Peer : Forget(p)
    BY <1>4
  <2>2. Drop(p).op # "WRITE"
    BY EntryFields
  <2>3. core'.epoch = core.epoch /\ core'.epoch \in Epoch /\ core'.epoch >= core.epoch
    <3>1. core'.epoch = core.epoch
      BY <2>1, ForgetPushes
    <3>2. core.epoch \in Epoch /\ core.epoch \in Nat
      BY Numbers
    <3> QED
      BY <3>1, <3>2
  <2>4. Drop(p) \in Entry /\ Pushes(Drop(p))
    BY <2>1, ForgetPushes
  <2>5. DiskAgrees' /\ anchor' = anchor
    BY <1>2, <2>2, <2>3, <2>4
  <2> QED
    BY <1>1, <2>5
<1>5. CASE \E e \in Epoch \ {0} : AdvanceTrustEpoch(e)
  <2>1. PICK e \in Epoch \ {0} : AdvanceTrustEpoch(e)
    BY <1>5
  <2>2. Put("EPOCH", e).value = e
    BY EntryFields
  <2> QED
    BY SMTT(40), <1>1, <1>2, <2>1, <2>2, AdvancePushes, Numbers
<1>6. CASE (\E by \in {"CALLER", "SHUTDOWN"} : Begins(by)) /\ UNCHANGED <<file, anchor, acked>>
  BY <1>1, <1>6, BeginDisk
<1>7. CASE Refuses /\ UNCHANGED <<file, anchor, acked>>
  BY <1>1, <1>7, RefuseDisk
<1>8. CASE Closes /\ UNCHANGED <<file, anchor, acked>>
  <2>1. FloorsAgree' /\ CommitAgrees'
    BY <1>8 DEF Closes, SameProcess, DiskAgrees, FloorsAgree, CommitAgrees
  <2>2. AcknowledgedSurvives => AcknowledgedSurvives'
    BY <1>8 DEF AcknowledgedSurvives, Classified
  <2> QED
    BY <1>1, <1>8, <2>1, <2>2
       DEF Closes, SameProcess, DiskAgrees, InStep, EpochUnderFloor
<1>9. CASE WriteAnchor
  BY <1>9, WriteAnchorDisk
<1>10. CASE WriteVault
  BY <1>1, <1>10, WriteVaultDisk DEF WriteVault
<1>11. CASE SealAnchor
  BY <1>1, <1>11, SealDisk
<1>12. CASE CommitFails
  BY <1>1, <1>12, FailDisk, FailTyped
<1>13. CASE Opens
  BY <1>1, <1>13, OpenDisk DEF Opens
<1>14. CASE Fresh
  BY <1>1, <1>14, FreshDisk DEF Fresh
<1>15. CASE Damaged
  BY <1>1, <1>15, DamageDisk DEF Damaged
<1>16. CASE Idles
  <2>1. FloorsAgree' /\ CommitAgrees'
    BY <1>16 DEF Idles, DiskAgrees, FloorsAgree, CommitAgrees
  <2>2. AcknowledgedSurvives => AcknowledgedSurvives'
    BY <1>16 DEF Idles, AcknowledgedSurvives, Classified
  <2> QED
    BY <1>1, <1>16, <2>1, <2>2 DEF Idles, DiskAgrees, InStep, EpochUnderFloor
<1> QED
  BY <1>3, <1>4, <1>5, <1>6, <1>7, <1>8, <1>9, <1>10, <1>11, <1>12, <1>13, <1>14, <1>15, <1>16
     DEF Kinds

LEMMA InitDisk ==
    ASSUME Init
    PROVE  DiskAgrees
<1>1. /\ core.bridge = "EMPTY" /\ core.queue = <<>> /\ core.floor = 0 /\ core.recs.epoch = 0
      /\ core.epoch = 0 /\ commit.at = "IDLE" /\ file.kind = "ABSENT" /\ file.seq = 0
      /\ file.recs.epoch = 0
  BY BootedTyped, NoRecordsTyped DEF Init
<1>2. anchor.seq = 0 /\ anchor.floor = 0
  BY DEF Init, NoAnchor, Anchor
<1>3. FloorsAgree /\ CommitAgrees
  BY <1>1, FloorsOf DEF FloorsAgree, CommitAgrees
<1> QED
  BY <1>1, <1>2, <1>3 DEF DiskAgrees, EpochUnderFloor, AcknowledgedSurvives

LEMMA DiskAlways == Spec => [](Sound /\ DiskAgrees) /\ [][anchor'.floor >= anchor.floor]_vars
<1>1. Sound /\ DiskAgrees /\ [Next]_vars => DiskAgrees' /\ anchor'.floor >= anchor.floor
  BY StepKinds, DiskStep DEF Sound
<1>2. Init => DiskAgrees
  BY InitDisk
<1> QED
  BY <1>1, <1>2, SoundAlways, PTL DEF Spec

(* ST-12b: at every instant of a commit, and after a crash at that instant, *)
(* no vault on disk holds a trust epoch its anchor's floor does not         *)
(* reflect (Store::commit writes the anchor first).                         *)
THEOREM EpochUnderFloorAlways == Spec => []EpochUnderFloor
  BY DiskAlways, PTL DEF DiskAgrees

(* ST-23: whatever instant the process dies at, and whatever commits failed *)
(* before, the next open never classifies the anchor as behind the vault.   *)
THEOREM AnchorLeadsAlways == Spec => []AnchorLeads
<1>1. Sound /\ DiskAgrees => AnchorLeads
  <2> SUFFICES ASSUME Sound, DiskAgrees
               PROVE  Classified # "ANCHOR_BEHIND"
    BY DEF AnchorLeads
  <2>1. ~ (anchor.seq < file.seq) /\ anchor.seq \in Nat /\ file.seq \in Nat
    BY Numbers DEF Sound, DiskAgrees
  <2> QED
    BY <2>1 DEF Classified
<1> QED
  BY <1>1, DiskAlways, PTL

(* A vault that the next open will accept holds exactly the records the     *)
(* store last reported committed: a commit that stopped half way is either  *)
(* invisible or a fork, never a silent change.                              *)
THEOREM AcknowledgedSurvivesAlways == Spec => []AcknowledgedSurvives
<1>1. Sound /\ DiskAgrees => AcknowledgedSurvives
  BY InStepSurvives DEF Sound, DiskAgrees
<1> QED
  BY <1>1, DiskAlways, PTL

(* The durable trust epoch floor never falls: not by a commit that failed   *)
(* half way and is retried with a longer queue, not by a refused batch, a   *)
(* crash, a lost vault, or a restart whose cache began at zero.             *)
THEOREM FloorNeverFallsAlways == Spec => FloorNeverFalls
  BY DiskAlways, PTL DEF FloorNeverFalls

-----------------------------------------------------------------------------
(* The queue against the journal, and the batch in flight against both.    *)

\* The last entry of p, of those up to n.
LastOf(queue, n, p, i) ==
    /\ i \in Mine(queue, p) /\ i <= n
    /\ \A j \in Mine(queue, p) : j <= n => j <= i

\* What is to be said of p is on its way, or nothing is and the vault says it.
Kept(queue, p, record, held) ==
    \/ Mine(queue, p) = {} /\ record = held
    \/ \E i \in Mine(queue, p) : LastOf(queue, Len(queue), p, i) /\ queue[i].value = record

\* The last entry of p is what the batch makes of p, if it is a write, or if no
\* write of p comes with it: deletes are applied first.
Decides(queue, n, p, i) ==
    \/ queue[i].op = "WRITE"
    \/ \A j \in Mine(queue, p) : j <= n => queue[j].op = "DELETE"

\* What the first n entries make of the record held for p.
Makes(queue, n, p, held, made) ==
    /\ (\A i \in Mine(queue, p) : i > n) => made = held
    /\ \A i \in Mine(queue, p) :
          LastOf(queue, n, p, i) /\ Decides(queue, n, p, i) => made = queue[i].value

QueueAgrees ==
    /\ core.bridge = "EMPTY" => \A p \in core.owed : Mine(core.queue, p) # {}
    /\ \A p \in core.owed : Kept(core.queue, p, core.journal[p], core.recs.session[p])
    /\ commit.at # "IDLE" =>
          \A p \in Peer : Makes(core.queue, commit.count, p, core.recs.session[p],
                                commit.recs.session[p])

LEMMA QueueIndex ==
    ASSUME NEW q \in Seq(Entry)
    PROVE  /\ Len(q) \in Nat /\ DOMAIN q = 1 .. Len(q)
           /\ \A i \in DOMAIN q : i \in Nat /\ 1 <= i /\ i <= Len(q) /\ q[i] \in Entry
  OBVIOUS

LEMMA AppendOf ==
    ASSUME NEW q \in Seq(Entry), NEW e \in Entry, NEW p
    PROVE  /\ \A i : i \in Mine(Append(q, e), p) <=> i \in Mine(q, p) \/ (e.key = p /\ i = Len(q) + 1)
           /\ \A i \in Mine(q, p) : Append(q, e)[i] = q[i] /\ i \in Nat /\ i <= Len(q)
<1> DEFINE r == Append(q, e)
           n == Len(q)
<1>1. /\ DOMAIN q = 1 .. n /\ DOMAIN r = 1 .. n + 1 /\ r[n + 1] = e /\ n \in Nat
      /\ \A i \in 1 .. n : r[i] = q[i]
  BY Appended
<1>2. \A i : i \in 1 .. n + 1 <=> i \in 1 .. n \/ i = n + 1
  BY <1>1
<1>3. \A i \in 1 .. n : i \in Nat /\ i <= n /\ i # n + 1
  BY <1>1
<1> HIDE DEF r, n
<1>4. \A i : i \in Mine(r, p) <=> i \in Mine(q, p) \/ (e.key = p /\ i = n + 1)
  BY <1>1, <1>2, <1>3 DEF Mine
<1>5. \A i \in Mine(q, p) : r[i] = q[i] /\ i \in Nat /\ i <= n
  BY <1>1, <1>3 DEF Mine
<1> QED
  BY <1>4, <1>5 DEF r, n

LEMMA KeptAppend ==
    ASSUME NEW q \in Seq(Entry), NEW e \in Entry, NEW p, NEW record, NEW held
    PROVE  /\ e.key # p /\ Kept(q, p, record, held) => Kept(Append(q, e), p, record, held)
           /\ e.key = p => Kept(Append(q, e), p, e.value, held)
<1> DEFINE r == Append(q, e)
           n == Len(q)
<1>1. /\ \A i : i \in Mine(r, p) <=> i \in Mine(q, p) \/ (e.key = p /\ i = n + 1)
      /\ \A i \in Mine(q, p) : r[i] = q[i] /\ i \in Nat /\ i <= n
  BY AppendOf
<1>2. Len(r) = n + 1 /\ r[n + 1] = e /\ n \in Nat
  BY Appended
<1> HIDE DEF r, n
<1>3. ASSUME e.key # p, Kept(q, p, record, held)
      PROVE  Kept(r, p, record, held)
  <2>1. Mine(r, p) = Mine(q, p)
    BY <1>1, <1>3
  <2>2. CASE Mine(q, p) = {} /\ record = held
    BY <2>1, <2>2 DEF Kept
  <2>3. CASE \E i \in Mine(q, p) : LastOf(q, n, p, i) /\ q[i].value = record
    <3>1. PICK i \in Mine(q, p) : LastOf(q, n, p, i) /\ q[i].value = record
      BY <2>3
    <3>2. i \in Mine(r, p) /\ LastOf(r, Len(r), p, i) /\ r[i].value = record
      BY <1>1, <1>2, <2>1, <3>1 DEF LastOf
    <3> QED
      BY <3>2 DEF Kept
  <2> QED
    BY <1>3, <2>2, <2>3 DEF Kept, n
<1>4. ASSUME e.key = p
      PROVE  Kept(r, p, e.value, held)
  <2>1. n + 1 \in Mine(r, p) /\ r[n + 1].value = e.value
    BY <1>1, <1>2, <1>4
  <2>2. \A j \in Mine(r, p) : j <= n + 1
    BY <1>1, <1>2
  <2>3. LastOf(r, Len(r), p, n + 1)
    BY <1>2, <2>1, <2>2 DEF LastOf
  <2> QED
    BY <2>1, <2>3 DEF Kept
<1> QED
  BY <1>3, <1>4 DEF r

LEMMA MakesAppend ==
    ASSUME NEW q \in Seq(Entry), NEW e \in Entry, NEW n \in Nat, n <= Len(q), NEW p,
           NEW held, NEW made, Makes(q, n, p, held, made)
    PROVE  Makes(Append(q, e), n, p, held, made)
<1> DEFINE r == Append(q, e)
           m == Len(q)
<1>1. /\ \A i : i \in Mine(r, p) <=> i \in Mine(q, p) \/ (e.key = p /\ i = m + 1)
      /\ \A i \in Mine(q, p) : r[i] = q[i] /\ i \in Nat /\ i <= m
  BY AppendOf
<1>2. m \in Nat /\ n <= m
  BY Appended
<1> HIDE DEF r, m
<1>3. (\A i \in Mine(r, p) : i > n) => made = held
  BY <1>1 DEF Makes
<1>4. ASSUME NEW i \in Mine(r, p), LastOf(r, n, p, i), Decides(r, n, p, i)
      PROVE  made = r[i].value
  <2>1. i \in Mine(q, p)
    BY <1>1, <1>2, <1>4 DEF LastOf
  <2>2. LastOf(q, n, p, i) /\ q[i] = r[i]
    BY <1>1, <1>4, <2>1 DEF LastOf
  <2>3. Decides(q, n, p, i)
    BY <1>1, <1>4, <2>2 DEF Decides
  <2> QED
    BY <2>1, <2>2, <2>3 DEF Makes
<1> QED
  BY <1>3, <1>4 DEF Makes, r

\* A batch that is the whole queue.
LEMMA MakesApplied ==
    ASSUME NEW q \in Seq(Entry), NEW p, NEW held
    PROVE  Makes(q, Len(q), p, held, Applied(q, p, held))
<1> DEFINE made == Applied(q, p, held)
<1>1. /\ Len(q) \in Nat
      /\ \A i \in Mine(q, p) : i \in Nat /\ i <= Len(q) /\ q[i].op \in {"WRITE", "DELETE"}
  BY QueueIndex, EntryFields DEF Mine
<1>2. \A i : i \in Entries(q, "WRITE", p) <=> i \in Mine(q, p) /\ q[i].op = "WRITE"
  BY DEF Entries, Mine
<1>3. \A i : i \in Entries(q, "DELETE", p) <=> i \in Mine(q, p) /\ q[i].op = "DELETE"
  BY DEF Entries, Mine
<1>4. \/ /\ Entries(q, "WRITE", p) = {} /\ Entries(q, "DELETE", p) = {}
         /\ made = held
      \/ /\ Entries(q, "WRITE", p) = {} /\ Entries(q, "DELETE", p) # {}
         /\ made = None
      \/ \E i \in Entries(q, "WRITE", p) :
            /\ \A j \in Entries(q, "WRITE", p) : j <= i
            /\ made = q[i].value
  BY AppliedIs
<1> HIDE DEF made
<1>5. (\A i \in Mine(q, p) : i > Len(q)) => made = held
  BY <1>1, <1>2, <1>3, <1>4
<1>6. ASSUME NEW i \in Mine(q, p), LastOf(q, Len(q), p, i), q[i].op = "WRITE"
      PROVE  made = q[i].value
  <2>1. i \in Entries(q, "WRITE", p)
    BY <1>2, <1>6
  <2>2. PICK k \in Entries(q, "WRITE", p) :
            /\ \A j \in Entries(q, "WRITE", p) : j <= k
            /\ made = q[k].value
    BY <1>4, <2>1
  <2>3. k \in Mine(q, p) /\ k <= i /\ i <= k /\ k \in Nat /\ i \in Nat
    BY <1>1, <1>2, <1>6, <2>1, <2>2 DEF LastOf
  <2> QED
    BY <2>2, <2>3
<1>7. ASSUME NEW i \in Mine(q, p), q[i].op # "WRITE",
             \A j \in Mine(q, p) : j <= Len(q) => q[j].op = "DELETE"
      PROVE  made = q[i].value
  <2>1. Entries(q, "WRITE", p) = {} /\ i \in Entries(q, "DELETE", p)
    BY <1>1, <1>2, <1>3, <1>7
  <2>2. q[i].value = None
    BY <1>7, QueueIndex, EntryFields DEF Mine
  <2> QED
    BY <1>4, <2>1, <2>2
<1> QED
  BY <1>5, <1>6, <1>7 DEF Makes, Decides, made

\* The batch leaves the queue for the vault: nothing is lost with it, but a
\* forget it held a write against.
LEMMA KeptCleared ==
    ASSUME NEW q \in Seq(Entry), NEW n \in Nat, n <= Len(q), NEW p,
           NEW record, NEW held, NEW made,
           p \in Peer, p \notin Overtaken(q, n),
           Kept(q, p, record, held), Makes(q, n, p, held, made)
    PROVE  Kept(Cleared(q, n), p, record, made)
<1> DEFINE r == Cleared(q, n)
           m == Len(q)
<1>1. /\ DOMAIN r = 1 .. m - n /\ Len(r) = m - n /\ m \in Nat /\ n <= m
      /\ \A i \in 1 .. m - n : r[i] = q[n + i]
      /\ DOMAIN q = 1 .. m
  BY ClearedIs, QueueIndex
<1>2. /\ \A i \in Mine(q, p) : i \in Nat /\ 1 <= i /\ i <= m
      /\ \A i \in Mine(q, p) : q[i].op \in {"WRITE", "DELETE"}
  BY QueueIndex, EntryFields DEF Mine
<1> HIDE DEF r, m
<1>3. \A i \in Mine(r, p) : i \in 1 .. m - n /\ n + i \in Mine(q, p) /\ r[i] = q[n + i]
  BY <1>1 DEF Mine
<1>4. \A i \in Mine(q, p) : i > n => i - n \in Mine(r, p) /\ r[i - n] = q[i]
  <2> SUFFICES ASSUME NEW i \in Mine(q, p), i > n
               PROVE  i - n \in Mine(r, p) /\ r[i - n] = q[i]
    OBVIOUS
  <2>1. i - n \in 1 .. m - n /\ n + (i - n) = i
    BY <1>1, <1>2
  <2>2. r[i - n] = q[i]
    BY <1>1, <2>1
  <2> QED
    BY <1>1, <2>1, <2>2 DEF Mine
<1>5. CASE Mine(q, p) = {} /\ record = held
  <2>1. made = held
    BY <1>5 DEF Makes
  <2>2. Mine(r, p) = {}
    BY <1>3, <1>5
  <2> QED
    BY <1>5, <2>1, <2>2 DEF Kept, r
<1>6. CASE \E i \in Mine(q, p) : LastOf(q, m, p, i) /\ q[i].value = record
  <2>1. PICK i \in Mine(q, p) : LastOf(q, m, p, i) /\ q[i].value = record
    BY <1>6
  <2>2. i \in Nat /\ \A j \in Mine(q, p) : j \in Nat /\ j <= i
    BY <1>2, <2>1 DEF LastOf
  <2>3. CASE i <= n
    <3>1. Decides(q, n, p, i)
      <4>1. Mine(q, p) \in SUBSET Nat /\ Max(Mine(q, p)) = i
        BY <2>1, <2>2, MaxIs
      <4>2. Entries(q, "WRITE", p) = {} \/ q[i].op # "DELETE"
        BY <2>3, <4>1 DEF Overtaken
      <4> QED
        BY <1>2, <2>1, <4>2 DEF Decides, Entries
    <3>2. LastOf(q, n, p, i)
      BY <2>1, <2>2, <2>3 DEF LastOf
    <3>3. made = record
      BY <2>1, <3>1, <3>2 DEF Makes
    <3>4. Mine(r, p) = {}
      <4> SUFFICES ASSUME NEW j \in Mine(r, p)
                   PROVE  FALSE
        OBVIOUS
      <4>1. n + j \in Mine(q, p) /\ j \in Nat /\ 1 <= j
        BY <1>1, <1>3
      <4> QED
        BY <2>2, <2>3, <4>1
    <3> QED
      BY <3>3, <3>4 DEF Kept, r
  <2>4. CASE i > n
    <3>1. i - n \in Mine(r, p) /\ r[i - n].value = record
      BY <1>4, <2>1, <2>4
    <3>2. \A j \in Mine(r, p) : j <= i - n /\ j <= m - n
      BY <1>1, <1>3, <2>2
    <3>3. LastOf(r, Len(r), p, i - n)
      BY <1>1, <3>1, <3>2 DEF LastOf
    <3> QED
      BY <3>1, <3>3 DEF Kept, r
  <2> QED
    BY <2>2, <2>3, <2>4
<1> QED
  BY <1>5, <1>6 DEF Kept, m

LEMMA OfNone == \A p : Mine(<<>>, p) = {}
  BY DEF Mine

\* A writer's entry: the journal follows it, and a batch in flight is not it.
LEMMA PushQueue ==
    ASSUME Typed, Counted, QueueAgrees, NEW e \in Entry, Pushes(e),
           \A p \in core'.owed :
              \/ e.key = p /\ e.value = core'.journal[p]
              \/ e.key # p /\ p \in core.owed /\ core'.journal[p] = core.journal[p]
    PROVE  QueueAgrees'
<1>1. /\ core.queue \in Seq(Entry) /\ core'.queue = Append(core.queue, e)
      /\ core'.bridge = core.bridge /\ core'.recs = core.recs /\ commit' = commit
  BY Numbers DEF Pushes
<1>2. ASSUME NEW p \in core'.owed
      PROVE  /\ Kept(core'.queue, p, core'.journal[p], core'.recs.session[p])
             /\ core'.bridge = "EMPTY" => Mine(core'.queue, p) # {}
  <2>1. CASE e.key = p /\ e.value = core'.journal[p]
    <3>1. Kept(core'.queue, p, core'.journal[p], core'.recs.session[p])
      BY <1>1, <2>1, KeptAppend
    <3>2. Len(core.queue) + 1 \in Mine(core'.queue, p)
      BY <1>1, <2>1, AppendOf
    <3> QED
      BY <3>1, <3>2
  <2>2. CASE e.key # p /\ p \in core.owed /\ core'.journal[p] = core.journal[p]
    <3>1. /\ Kept(core.queue, p, core.journal[p], core.recs.session[p])
          /\ core.bridge = "EMPTY" => Mine(core.queue, p) # {}
      BY <2>2 DEF QueueAgrees
    <3>2. Kept(core'.queue, p, core'.journal[p], core'.recs.session[p])
      BY <1>1, <2>2, <3>1, KeptAppend
    <3>3. Mine(core.queue, p) \subseteq Mine(core'.queue, p)
      BY <1>1, AppendOf
    <3> QED
      BY <1>1, <3>1, <3>2, <3>3
  <2> QED
    BY <1>2, <2>1, <2>2
<1>3. ASSUME commit.at # "IDLE", NEW p \in Peer
      PROVE  Makes(core'.queue, commit.count, p, core'.recs.session[p], commit.recs.session[p])
  <2>1. /\ commit.count \in Nat /\ commit.count <= Len(core.queue)
        /\ Makes(core.queue, commit.count, p, core.recs.session[p], commit.recs.session[p])
    BY <1>3, Types DEF Shapes, Commits, Counted, QueueAgrees
  <2> QED
    BY <1>1, <2>1, MakesAppend
<1> QED
  BY <1>1, <1>2, <1>3 DEF QueueAgrees

LEMMA QueueStep ==
    ASSUME Typed, Counted, QueueAgrees, Kinds
    PROVE  QueueAgrees'
<1> USE DEF QueueAgrees
<1>1. CASE \E p \in Peer, v \in Value : Persist(p, v)
  <2>1. PICK p \in Peer, v \in Value : Persist(p, v)
    BY <1>1
  <2>2. /\ Put(p, v) \in Entry /\ Pushes(Put(p, v))
        /\ Put(p, v).key = p /\ Put(p, v).value = v
        /\ core'.owed = core.owed \cup {p}
        /\ core'.journal = [core.journal EXCEPT ![p] = v]
    BY <2>1, PersistPushes, EntryFields
  <2>3. core.journal \in [Peer -> Value \cup {None}]
    BY Types DEF Shapes, Core
  <2>4. \A x \in core'.owed :
           \/ p = x /\ v = core'.journal[x]
           \/ p # x /\ x \in core.owed /\ core'.journal[x] = core.journal[x]
    BY <2>2, <2>3
  <2> QED
    BY <2>2, <2>4, PushQueue
<1>2. CASE \E p \in Peer : Forget(p)
  <2>1. PICK p \in Peer : Forget(p)
    BY <1>2
  <2>2. /\ Drop(p) \in Entry /\ Pushes(Drop(p))
        /\ Drop(p).key = p /\ Drop(p).value = None
        /\ core'.owed = core.owed \cup {p}
        /\ core'.journal = [core.journal EXCEPT ![p] = None]
    BY <2>1, ForgetPushes, EntryFields
  <2>3. core.journal \in [Peer -> Value \cup {None}]
    BY Types DEF Shapes, Core
  <2>4. \A x \in core'.owed :
           \/ p = x /\ None = core'.journal[x]
           \/ p # x /\ x \in core.owed /\ core'.journal[x] = core.journal[x]
    BY <2>2, <2>3
  <2> QED
    BY <2>2, <2>4, PushQueue
<1>3. CASE \E e \in Epoch \ {0} : AdvanceTrustEpoch(e)
  <2>1. PICK e \in Epoch \ {0} : AdvanceTrustEpoch(e)
    BY <1>3
  <2>2. /\ Put("EPOCH", e) \in Entry /\ Pushes(Put("EPOCH", e)) /\ Put("EPOCH", e).key = "EPOCH"
        /\ core'.owed = core.owed /\ core'.journal = core.journal
    BY <2>1, AdvancePushes, EntryFields
  <2>3. \A x \in core'.owed : x # "EPOCH"
    BY <2>2, Types, StoreAssumption DEF Shapes, Core
  <2> QED
    BY <2>2, <2>3, PushQueue
<1>4. CASE \E by \in {"CALLER", "SHUTDOWN"} : Begins(by)
  <2>1. /\ core.bridge = "HELD" /\ core'.bridge = "TAKEN" /\ core'.recs = core.recs
        /\ core'.queue = core.queue /\ core'.owed = core.owed
        /\ core'.journal = core.journal /\ commit'.count = Len(core.queue)
        /\ commit'.recs = Committed(core.recs, core.queue)
    BY <1>4 DEF Begins, SameProcess
  <2>2. \A p \in Peer : commit'.recs.session[p] = Applied(core.queue, p, core.recs.session[p])
    BY <2>1, CommittedTyped, Numbers
  <2>3. \A p \in Peer : Makes(core'.queue, commit'.count, p, core'.recs.session[p],
                              commit'.recs.session[p])
    BY <2>1, <2>2, MakesApplied, Numbers
  <2> QED
    BY <2>1, <2>3
<1>5. CASE Refuses
  <2>1. /\ core.bridge = "HELD" /\ core'.bridge = "HELD" /\ commit' = commit /\ commit.at = "IDLE"
        /\ core'.queue = <<>> /\ core'.recs = core.recs /\ core'.journal = core.journal
        /\ core'.owed = {p \in core.owed : Mine(core.queue, p) = {}}
    BY <1>5, Numbers DEF Refuses, SameProcess
  <2>2. ASSUME NEW p \in core'.owed
        PROVE  core.journal[p] = core.recs.session[p]
    <3>1. p \in core.owed /\ Mine(core.queue, p) = {}
      BY <2>1
    <3> QED
      BY <3>1 DEF Kept
  <2> QED
    BY <2>1, <2>2, OfNone DEF Kept
<1>6. CASE Closes \/ CommitFails
  BY <1>6, FailTyped DEF Closes, SameProcess
<1>7. CASE WriteAnchor \/ WriteVault
  <2>1. /\ commit.at # "IDLE" /\ core' = core /\ commit'.count = commit.count
        /\ commit'.recs = commit.recs
    BY <1>7, WriteAnchorTyped, WriteVaultTyped DEF WriteAnchor, WriteVault
  <2> QED
    BY <2>1
<1>8. CASE SealAnchor
  <2>1. /\ commit.at # "IDLE" /\ commit.count <= Len(core.queue) /\ commit'.at = "IDLE"
        /\ core'.bridge = "HELD" /\ core'.recs = commit.recs
        /\ core'.journal = core.journal
        /\ core'.owed = core.owed \ Overtaken(core.queue, commit.count)
        /\ core'.queue = Cleared(core.queue, commit.count)
    BY <1>8, SealTyped DEF SealAnchor, Counted
  <2>2. commit.count \in Nat /\ core.queue \in Seq(Entry) /\ core.owed \subseteq Peer
    BY Types, Numbers DEF Shapes, Commits, Core
  <2>3. ASSUME NEW p \in core'.owed
        PROVE  Kept(core'.queue, p, core.journal[p], commit.recs.session[p])
    <3>1. /\ Kept(core.queue, p, core.journal[p], core.recs.session[p])
          /\ Makes(core.queue, commit.count, p, core.recs.session[p], commit.recs.session[p])
      BY <2>1, <2>2, <2>3
    <3> QED
      BY <2>1, <2>2, <2>3, <3>1, KeptCleared
  <2> QED
    BY <2>1, <2>3
<1>9. CASE Opens
  <2>1. /\ core.bridge = "EMPTY" /\ core'.bridge = "HELD" /\ commit'.at = "IDLE"
        /\ core'.journal = core.journal /\ core'.owed = core.owed
        /\ core'.queue = core.queue
    BY <1>9, Numbers DEF Opens
  <2>2. ASSUME NEW p \in core.owed
        PROVE  Kept(core.queue, p, core.journal[p], core'.recs.session[p])
    BY <2>1 DEF Kept
  <2> QED
    BY <2>1, <2>2
<1>10. CASE Fresh
  <2>1. core'.owed = {} /\ commit'.at = "IDLE"
    BY <1>10, BootedTyped DEF Fresh
  <2> QED
    BY <2>1
<1>11. CASE Damaged \/ Idles
  BY <1>11 DEF Damaged, Idles
<1> QED
  BY <1>1, <1>2, <1>3, <1>4, <1>5, <1>6, <1>7, <1>8, <1>9, <1>10, <1>11 DEF Kinds

LEMMA InitQueue ==
    ASSUME Init
    PROVE  QueueAgrees
<1>1. core.owed = {} /\ commit.at = "IDLE"
  BY BootedTyped DEF Init
<1> QED
  BY <1>1 DEF QueueAgrees

LEMMA QueueAgreesSays ==
    ASSUME Typed, QueueAgrees
    PROVE  NothingSlips
<1> SUFFICES ASSUME NEW p \in core.owed
             PROVE  core.journal[p] = IF Mine(core.queue, p) = {} THEN core.recs.session[p]
                                      ELSE core.queue[Max(Mine(core.queue, p))].value
  BY DEF NothingSlips
<1>1. Kept(core.queue, p, core.journal[p], core.recs.session[p])
  BY DEF QueueAgrees
<1>2. CASE Mine(core.queue, p) = {} /\ core.journal[p] = core.recs.session[p]
  BY <1>2
<1>3. CASE \E i \in Mine(core.queue, p) : /\ LastOf(core.queue, Len(core.queue), p, i)
                                        /\ core.queue[i].value = core.journal[p]
  <2>1. PICK i \in Mine(core.queue, p) : /\ LastOf(core.queue, Len(core.queue), p, i)
                                       /\ core.queue[i].value = core.journal[p]
    BY <1>3
  <2>2. \A j \in Mine(core.queue, p) : j \in Nat /\ j <= Len(core.queue)
    BY QueueIndex, Numbers DEF Mine
  <2>3. Mine(core.queue, p) \in SUBSET Nat /\ \A j \in Mine(core.queue, p) : j <= i
    BY <2>1, <2>2 DEF LastOf
  <2>4. Max(Mine(core.queue, p)) = i
    BY <2>3, MaxIs
  <2> QED
    BY <2>1, <2>4
<1> QED
  BY <1>1, <1>2, <1>3 DEF Kept

(* What the journal said last of a peer, a record or that it is forgotten,  *)
(* is on its way or in the vault, whatever was written while a flush was in *)
(* flight and whatever commits failed: the queue loses only what its batch  *)
(* committed (planes.rs clear_pending), except a batch a floor refused, and *)
(* a forget that shares its batch with a write of the same peer.            *)
THEOREM NothingSlipsAlways == Spec => []NothingSlips
<1>1. Sound /\ QueueAgrees /\ [Next]_vars => QueueAgrees'
  BY StepKinds, QueueStep DEF Sound
<1>2. Init => QueueAgrees
  BY InitQueue
<1>3. Sound /\ QueueAgrees => NothingSlips
  BY QueueAgreesSays DEF Sound
<1> QED
  BY <1>1, <1>2, <1>3, SoundAlways, PTL DEF Spec
=============================================================================
