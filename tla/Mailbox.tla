------------------------------ MODULE Mailbox ------------------------------
(* The rendezvous's buffer of CALLs for devices that are not attached       *)
(* (services/rendezvous/src/mailbox.rs): a queue for each target, an index  *)
(* of all entries in the order they came, and the bytes retained.  A store  *)
(* is a record of the three; its operations take the lag of the instant     *)
(* they were handed, which the caller read before it waited for the lock.   *)
EXTENDS Integers, Sequences, FiniteSets, FiniteSetsExt

CONSTANTS
    Device,
    Depth,          \* capacity_per_target
    MaxTargets,     \* max_targets
    MaxBytes,       \* max_total_bytes
    CallTtl         \* ttl

ASSUME MailboxConstants ==
    /\ IsFiniteSet(Device)
    /\ {Depth, MaxTargets, MaxBytes, CallTtl} \subseteq Nat \ {0}

\* An entry: its CALL, the octets it takes, and the time to its expires_at.
Entry == [call : Nat, size : Nat, left : Int]

EmptyStore == [boxes |-> [d \in Device |-> <<>>], order |-> {}, bytes |-> 0]

EntriesOf(s, d) == {s.boxes[d][i] : i \in DOMAIN s.boxes[d]}
Targets(s) == {d \in Device : s.boxes[d] # <<>>}

\* The first n[d] entries of each queue are popped: they leave the queue, the
\* index and the byte count.
Front(s, n) == UNION {{s.boxes[d][i] : i \in 1 .. n[d]} : d \in Device}
Popped(s, n) ==
    [boxes |-> [d \in Device |-> SubSeq(s.boxes[d], n[d] + 1, Len(s.boxes[d]))],
     order |-> {o \in s.order : \A e \in Front(s, n) : e.call # o.call},
     bytes |-> s.bytes - MapThenSumSet(LAMBDA e : e.size, Front(s, n))]

\* k entries of one queue.
Only(d, k) == [e \in Device |-> IF e = d THEN k ELSE 0]

\* Mutant of PopFrontOf: the index is not told.
PopFrontUnindexed(s, d) ==
    IF s.boxes[d] = <<>> THEN s ELSE [Popped(s, Only(d, 1)) EXCEPT !.order = s.order]

PopFrontOf(s, d) == IF s.boxes[d] = <<>> THEN s ELSE Popped(s, Only(d, 1))

Oldest(s) == CHOOSE o \in s.order : \A p \in s.order : o.call <= p.call
EvictGloballyOldest(s) == IF s.order = {} THEN s ELSE PopFrontOf(s, Oldest(s).target)

\* Evictions until a payload of this size fits under the ceiling.
EvictForBytes(s, size) ==
    LET after[k \in 0 .. Cardinality(s.order)] ==
            IF k = 0 THEN s ELSE EvictGloballyOldest(after[k - 1])
        enough == {k \in DOMAIN after : after[k].bytes + size <= MaxBytes}
    IN  after[Min(enough)]

\* A queue is swept from its front, up to the first entry still in date.
Lapsed(e, lag) == e.left + lag <= 0
LapsedRun(s, d, lag) ==
    Max({n \in 0 .. Len(s.boxes[d]) : \A i \in 1 .. n : Lapsed(s.boxes[d][i], lag)})
SweepStore(s, lag) == Popped(s, [d \in Device |-> LapsedRun(s, d, lag)])

\* A full queue drops its front; a target too many evicts one entry, the
\* oldest of all.
MakeRoom(s, d) ==
    CASE Len(s.boxes[d]) >= Depth -> PopFrontOf(s, d)
      [] s.boxes[d] = <<>> /\ Cardinality(Targets(s)) >= MaxTargets -> EvictGloballyOldest(s)
      [] OTHER -> s

\* push, refused (after the sweep) only for what could never fit.
Refused(size) == size > MaxBytes
Push(s, d, call, size, lag) ==
    LET swept == SweepStore(s, lag)
        room  == EvictForBytes(MakeRoom(swept, d), size)
        entry == [call |-> call, size |-> size, left |-> CallTtl - lag]
    IN  IF Refused(size) THEN swept
        ELSE [boxes |-> [room.boxes EXCEPT ![d] = Append(@, entry)],
              order |-> room.order \cup {[call |-> call, target |-> d]},
              bytes |-> room.bytes + size]

\* Mutants of take: nothing is swept; the queue stays; only its front goes.
TakenUnswept(s, d, lag) == s.boxes[d]
AfterTakeKept(s, d, lag) == SweepStore(s, lag)
AfterTakeOne(s, d, lag) == PopFrontOf(SweepStore(s, lag), d)

\* take: what it hands back, and what it leaves.
Taken(s, d, lag) == SweepStore(s, lag).boxes[d]
AfterTake(s, d, lag) ==
    LET swept == SweepStore(s, lag) IN Popped(swept, Only(d, Len(swept.boxes[d])))

\* Time passes; an entry past every stamp in use is no longer followed.
AgeStore(s, floor) ==
    [s EXCEPT !.boxes = [d \in Device |->
        [i \in DOMAIN s.boxes[d] |->
            [s.boxes[d][i] EXCEPT !.left = IF @ > floor THEN @ - 1 ELSE floor]]]]
----------------------------------------------------------------------------
StoreOK(s) ==
    /\ s.boxes \in [Device -> Seq(Entry)]
    /\ s.order \subseteq [call : Nat, target : Device]
    /\ s.bytes \in Nat

\* The queues, the index and the byte count tell of the same entries; each
\* queue is in the order of the index, so the oldest entry of all is the
\* front of its target's queue; and depth and bytes are under their ceilings.
Agrees(s) ==
    LET all == UNION {EntriesOf(s, d) : d \in Device}
    IN  /\ s.order = UNION {{[call |-> e.call, target |-> d] : e \in EntriesOf(s, d)} : d \in Device}
        /\ s.bytes = MapThenSumSet(LAMBDA e : e.size, all)
        /\ s.bytes <= MaxBytes
        /\ \A d \in Device :
              /\ Len(s.boxes[d]) <= Depth
              /\ \A i, j \in DOMAIN s.boxes[d] :
                    i < j => s.boxes[d][i].call < s.boxes[d][j].call
=============================================================================
