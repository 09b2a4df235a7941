----------------------------- MODULE EventStream -----------------------------
(***************************************************************************)
(* The C2 event stream of one device: the task a front end spawns on         *)
(* SubscribeEvents (services/control-plane serve.rs, session.rs and the       *)
(* EventQueue of twinvpn-service-common), the QUIC stream it writes to, and   *)
(* the cursor of the device that reads it (twinvpn-cp-client).  The code     *)
(* that will drive the client is not in the repository: the order of its     *)
(* steps is the one client.rs and apply.rs prescribe.                        *)
(***************************************************************************)
EXTENDS Integers, Sequences

CONSTANTS MaxLog,     \* bound: positions ever committed
          Sizes,      \* sizes an event may have
          MaxBytes,   \* BacklogWatermark.max_bytes
          MaxEvents,  \* BacklogWatermark.max_events
          Batch,      \* C2_BATCH
          MaxFaults   \* bound: breaks, crashes and moves of the floor

ASSUME StreamAssumption ==
    /\ MaxLog \in Nat \ {0} /\ Batch \in Nat \ {0} /\ MaxFaults \in Nat
    /\ MaxBytes \in Nat /\ MaxEvents \in Nat /\ Sizes \subseteq Nat \ {0}

VARIABLES size,     \* the size of each event, fixed when the log is written
          head,     \* the last committed position
          retained, \* twinnet.retained_from
          task,     \* the server's half of the connection
          wire,     \* records written and not yet read, in order
          attached, \* the head the subscription was answered with; None if down
          cursor,   \* the client's durable cursor
          known,    \* positions whose effect the client holds, applied or re-read
          hand,     \* the record the client is working on
          faults

streamVars == <<size, head, retained, task, wire, attached, cursor, known, hand, faults>>

None == -1
Idle == [seq |-> None, compacted |-> FALSE, applied |-> FALSE]
NewQueue == [queue |-> <<>>, bytes |-> 0, highest |-> 0, compacted |-> None]
NoTask == [on |-> FALSE, cursor |-> 0, backlog |-> NewQueue, out |-> <<>>]

StreamInit ==
    /\ size \in [1..MaxLog -> Sizes]
    /\ head = 0
    /\ retained = 1
    /\ task = NoTask
    /\ wire = <<>>
    /\ attached = None
    /\ cursor = 0
    /\ known = {}
    /\ hand = Idle
    /\ faults = 0

(* A transaction commits one more durable event.                            *)
Commit ==
    /\ head < MaxLog
    /\ head' = head + 1
    /\ UNCHANGED <<size, retained, task, wire, attached, cursor, known, hand, faults>>

(* The operator raises the retention floor.  Retention is far longer than    *)
(* an attach takes, so the floor stays under what the last attach was told.  *)
RetentionMoves ==
    /\ faults < MaxFaults
    /\ \E floor \in (retained + 1)..(head + 1) :
          /\ attached # None => floor <= attached + 1
          /\ retained' = floor
    /\ faults' = faults + 1
    /\ UNCHANGED <<size, head, task, wire, attached, cursor, known, hand>>

(***************************************************************************)
(* The server.                                                              *)
(***************************************************************************)

(* read.rs subscribe and events_from: a cursor the floor has passed.        *)
TooOld(from) == from # 0 /\ from + 1 < retained

(* events_from: the next positions that are retained, no more than a batch.  *)
FirstAfter(from) == IF from + 1 < retained THEN retained ELSE from + 1
LastOf(first) == IF head < first + Batch THEN head ELSE first + Batch - 1
EventsFrom(from) ==
    LET first == FirstAfter(from)
    IN  [i \in 1..(LastOf(first) - first + 1) |-> first + i - 1]

(* What a compaction reports: the highest position pushed so far.           *)
UpTo(highest) == highest

Highest(q, n) == IF n > q.highest THEN n ELSE q.highest

(* EventQueue::push: past a watermark every queued body is shed.             *)
Push(q, n) ==
    IF \/ q.bytes + size[n] > MaxBytes
       \/ Len(q.queue) + 1 > MaxEvents
    THEN [queue |-> <<>>, bytes |-> 0, highest |-> Highest(q, n),
          compacted |-> UpTo(Highest(q, n))]
    ELSE [queue |-> Append(q.queue, n), bytes |-> q.bytes + size[n],
          highest |-> Highest(q, n), compacted |-> q.compacted]

(* The queue after a whole batch: each push upon the one before it.          *)
Pushed(batch) ==
    LET after[k \in 0..Len(batch)] ==
          IF k = 0 THEN [task.backlog EXCEPT !.compacted = None]
          ELSE CHOOSE q \in {Push(p, batch[k]) : p \in {after[k - 1]}} : TRUE
    IN  after[Len(batch)]

Announcement(n) == [seq |-> n, compacted |-> TRUE]
Event(n) == [seq |-> n, compacted |-> FALSE]

(* Attachment::pump and what spawn_c2 does with it: after a breach only the    *)
(* announcement is written, and what was pushed behind the breach stays      *)
(* queued.                                                                  *)
Pumped(q) ==
    IF q.compacted # None
    THEN [task EXCEPT !.cursor = q.compacted, !.backlog = q,
                      !.out = <<Announcement(q.compacted)>>]
    ELSE [task EXCEPT !.cursor = q.queue[Len(q.queue)],
                      !.backlog = [q EXCEPT !.queue = <<>>, !.bytes = 0],
                      !.out = [i \in DOMAIN q.queue |-> Event(q.queue[i])]]

(* One turn of the C2 loop, once the records of the last one are written.    *)
Turn ==
    /\ task.on
    /\ task.out = <<>>
    /\ IF TooOld(task.cursor)
       THEN task' = [task EXCEPT !.on = FALSE]
       ELSE /\ EventsFrom(task.cursor) # <<>>
            /\ \E q \in {Pushed(EventsFrom(task.cursor))} : task' = Pumped(q)
    /\ UNCHANGED <<size, head, retained, wire, attached, cursor, known, hand, faults>>

(* write_c2_record.                                                         *)
Write ==
    /\ task.on
    /\ task.out # <<>>
    /\ wire' = Append(wire, Head(task.out))
    /\ task' = [task EXCEPT !.out = Tail(@)]
    /\ UNCHANGED <<size, head, retained, attached, cursor, known, hand, faults>>

(***************************************************************************)
(* The client.                                                              *)
(***************************************************************************)

(* Mutant of ResumeFrom: a stream begins at the head.                       *)
ResumeFromHead == head

(* plan_resume: where a stream is asked to begin.                           *)
ResumeFrom == cursor

(* A connection, SubscribeEvents on it, and the task it starts.  A cold       *)
(* device reads the state declaratively first.                              *)
Connect ==
    /\ attached = None
    /\ ~TooOld(cursor)
    /\ known' = IF cursor = 0 THEN 1..head ELSE known
    /\ attached' = head
    /\ task' = [NoTask EXCEPT !.on = TRUE, !.cursor = ResumeFrom]
    /\ UNCHANGED <<size, head, retained, wire, cursor, hand, faults>>

(* CURSOR_TOO_OLD: the state is read declaratively, and the cursor goes on    *)
(* from the head it was read at.                                            *)
Resnapshot ==
    /\ attached = None
    /\ TooOld(cursor)
    /\ known' = 1..head
    /\ cursor' = head
    /\ UNCHANGED <<size, head, retained, task, wire, attached, hand, faults>>

(* events.rs admit: a position the cursor has passed is refused.            *)
Admits(seq) == seq > cursor

Receive ==
    /\ attached # None
    /\ hand = Idle
    /\ wire # <<>>
    /\ wire' = Tail(wire)
    /\ hand' = IF Admits(Head(wire).seq)
               THEN [seq |-> Head(wire).seq, compacted |-> Head(wire).compacted,
                     applied |-> FALSE]
               ELSE Idle
    /\ UNCHANGED <<size, head, retained, task, attached, cursor, known, faults>>

(* The effect apply.rs plans is made durable: the event itself, or the        *)
(* declarative re-read that an announcement asks for.                        *)
Apply ==
    /\ hand # Idle
    /\ ~hand.applied
    /\ known' = IF hand.compacted THEN known \union 1..head ELSE known \union {hand.seq}
    /\ hand' = [hand EXCEPT !.applied = TRUE]
    /\ UNCHANGED <<size, head, retained, task, wire, attached, cursor, faults>>

(* Mutant of MayCommit: the cursor moves when the record is admitted.        *)
MayCommitEarly == TRUE

(* commit_cursor, after the durable write.                                  *)
MayCommit == hand.applied

CommitCursor ==
    /\ hand # Idle
    /\ MayCommit
    /\ cursor' = IF hand.seq > cursor THEN hand.seq ELSE cursor
    /\ hand' = Idle
    /\ UNCHANGED <<size, head, retained, task, wire, attached, known, faults>>

(* The connection goes, with what was on it; the device goes on with the      *)
(* record it has in hand.                                                   *)
Drop ==
    /\ attached' = None
    /\ task' = NoTask
    /\ wire' = <<>>

Break ==
    /\ attached # None
    /\ faults < MaxFaults
    /\ faults' = faults + 1
    /\ Drop
    /\ UNCHANGED <<size, head, retained, cursor, known, hand>>

(* The device restarts: what it had in hand is gone too.                    *)
Crash ==
    /\ faults < MaxFaults
    /\ faults' = faults + 1
    /\ hand' = Idle
    /\ Drop
    /\ UNCHANGED <<size, head, retained, cursor, known>>

(* The server ended the stream: a device that has read it to its end          *)
(* connects again.                                                          *)
Hangup ==
    /\ attached # None
    /\ ~task.on
    /\ wire = <<>>
    /\ Drop
    /\ UNCHANGED <<size, head, retained, cursor, known, hand, faults>>

StreamNext ==
    \/ Commit \/ RetentionMoves
    \/ Turn \/ Write
    \/ Connect \/ Resnapshot \/ Receive \/ Apply \/ CommitCursor
    \/ Break \/ Crash \/ Hangup

(* The task loops until its connection ends, and the device's driver does     *)
(* what the next record or the ended stream asks of it.                      *)
Fairness ==
    /\ WF_streamVars(Turn) /\ WF_streamVars(Write)
    /\ WF_streamVars(Connect) /\ WF_streamVars(Resnapshot) /\ WF_streamVars(Hangup)
    /\ WF_streamVars(Receive) /\ WF_streamVars(Apply) /\ WF_streamVars(CommitCursor)

StreamSpec == StreamInit /\ [][StreamNext]_streamVars /\ Fairness

(***************************************************************************)
(* Properties.                                                              *)
(***************************************************************************)

(* Types.                                                                   *)
StreamTypeOK ==
    /\ head \in 0..MaxLog
    /\ retained \in 1..(head + 1)
    /\ cursor \in 0..head
    /\ known \subseteq 1..head
    /\ Len(task.backlog.queue) <= MaxEvents
    /\ task.backlog.bytes \in 0..MaxBytes
    /\ task.cursor <= head
    /\ attached \in {None} \union 0..head
    /\ hand.seq \in {None} \union 1..head
    /\ faults \in 0..MaxFaults

(* Backpressure, a moving retention floor, a lost connection and a restart   *)
(* never leave a hole: the device holds the effect of every position its     *)
(* cursor has passed.                                                       *)
NoSilentGap == 1..cursor \subseteq known

(* Every committed event reaches the device, by its record or by a re-read.  *)
CatchesUp == \A n \in 1..MaxLog : (head >= n) ~> (n \in known)
=============================================================================
