----------------------------- MODULE DurableStore -----------------------------
(***************************************************************************)
(* What one client keeps across a restart: the session journal and the     *)
(* write-behind queue of twinvpn-core (journal.rs, planes.rs, bridge.rs),  *)
(* the vault's owner (core.rs open_store, flush, shutdown) and the store   *)
(* itself (twinvpn-store: lib.rs open and commit, anchor.rs, floors.rs,    *)
(* vault.rs).                                                              *)
(*                                                                         *)
(* On disk there are a vault file, an anchor in the platform's secure      *)
(* store, and a lock file.  A commit writes anchor, vault, anchor again,   *)
(* each of them atomic; the process may stop between any two.  One floor   *)
(* is modelled, the trust epoch, whose record and floor share a commit.    *)
(***************************************************************************)
EXTENDS Naturals, Sequences, FiniteSets, FiniteSetsExt

CONSTANTS
    Peer,
    Value,          \* what a session record can say
    Damage,         \* what can become of the vault file while nothing runs
    MaxEpoch, MaxSeq, MaxQueue      \* bounds on the counters and the queue

ASSUME StoreAssumption ==
    /\ Damage \subseteq {"ABSENT", "CORRUPT"}
    /\ {MaxEpoch, MaxSeq, MaxQueue} \subseteq Nat
    /\ "EPOCH" \notin Peer

VARIABLES
    file,       \* vault.tv: an image, unreadable, or absent
    anchor,     \* the Tier-1 anchor: commit counter, image digest, floor
    lock,       \* whether vault.lock exists
    core,       \* the process: see Booted
    commit,     \* the commit in flight
    acked       \* history: the records the store last reported committed

vars == <<file, anchor, lock, core, commit, acked>>

None == "NONE"
Epoch == 0 .. MaxEpoch

NoRecords == [session |-> [p \in Peer |-> None], epoch |-> 0]
Lost(kind) == [kind |-> kind, seq |-> 0, recs |-> NoRecords]
Image(seq, recs) == [kind |-> "IMAGE", seq |-> seq, recs |-> recs]

(* A digest stands for the records it was taken of; an anchor names at most one. *)
Anchor(seq, digest, floor) == [seq |-> seq, digest |-> digest, floor |-> floor]
NoAnchor == Anchor(0, {}, 0)

(* A process just started.  The journal and the caches are built empty; no   *)
(* store is open, so the bridge is empty too.  `owed` is history: the peers  *)
(* whose last word, a record or a forget, the vault is to have.              *)
Booted ==
    [life |-> "RUNNING", bridge |-> "EMPTY", seq |-> 0, recs |-> NoRecords, floor |-> 0,
     table |-> {}, journal |-> [p \in Peer |-> None], epoch |-> 0, queue |-> <<>>,
     owed |-> {}, suspended |-> FALSE, closing |-> FALSE]
Gone(life) == [Booted EXCEPT !.life = life]

NoCommit == [at |-> "IDLE", by |-> None, count |-> 0, seq |-> 0, recs |-> NoRecords,
             floor |-> 0]

Init ==
    /\ file = Lost("ABSENT") /\ anchor = NoAnchor /\ lock = FALSE
    /\ core = Booted /\ commit = NoCommit
    /\ acked = NoRecords

Running == core.life = "RUNNING"
disk == <<file, anchor, lock>>

-----------------------------------------------------------------------------
(* The queue.  Writers push while a flush is in flight. *)
Put(key, value) == [op |-> "WRITE", key |-> key, value |-> value]
Drop(key) == [op |-> "DELETE", key |-> key, value |-> None]
Queued(c, entry) == [c EXCEPT !.queue = Append(@, entry)]

(* CoreSessionJournal::persist, at the end of a connect. *)
Persist(p, v) ==
    /\ Running /\ Len(core.queue) < MaxQueue
    /\ core' = Queued([core EXCEPT !.table = @ \cup {p}, !.journal[p] = v,
                                   !.owed = @ \cup {p}], Put(p, v))
    /\ UNCHANGED <<disk, commit, acked>>

(* CoreSessionJournal::forget, when a disconnect fired. *)
Forget(p) ==
    /\ Running /\ Len(core.queue) < MaxQueue
    /\ p \in core.table
    /\ core' = Queued([core EXCEPT !.journal[p] = None, !.owed = @ \cup {p}], Drop(p))
    /\ UNCHANGED <<disk, commit, acked>>

(* ControlPlanePort::advance_trust_epoch: measured against the cache. *)
AdvanceTrustEpoch(e) ==
    /\ Running /\ Len(core.queue) < MaxQueue
    /\ e >= core.epoch
    /\ core' = Queued([core EXCEPT !.epoch = e], Put("EPOCH", e))
    /\ UNCHANGED <<disk, commit, acked>>

(***************************************************************************)
(* StoreBridge::flush.  A batch becomes one transaction: deletes are       *)
(* applied first, then writes in order, and a floor only rises.            *)
(***************************************************************************)
Mine(batch, key) == {i \in DOMAIN batch : batch[i].key = key}
Entries(batch, op, key) == {i \in Mine(batch, key) : batch[i].op = op}

Applied(batch, key, held) ==
    LET writes == Entries(batch, "WRITE", key)
    IN  IF writes # {} THEN batch[Max(writes)].value
        ELSE IF Entries(batch, "DELETE", key) # {} THEN None ELSE held

Committed(recs, batch) ==
    [session |-> [p \in Peer |-> Applied(batch, p, recs.session[p])],
     epoch |-> Applied(batch, "EPOCH", recs.epoch)]

Floors(batch) == {batch[i].value : i \in Entries(batch, "WRITE", "EPOCH")}
RaisedFloor(floor, batch) == Max({floor} \cup Floors(batch))
FloorWouldDecrease(floor, batch) == \E e \in Floors(batch) : e < floor

\* Mutant of Cleared: the whole queue goes with the batch.
ClearedWholesale(queue, count) == <<>>

Cleared(queue, count) == SubSeq(queue, count + 1, Len(queue))

(* The bridge is taken for the commit, whoever asked for it. *)
Begin(by) ==
    /\ commit' = [at |-> "BEGUN", by |-> by, count |-> Len(core.queue), seq |-> core.seq + 1,
                  recs |-> Committed(core.recs, core.queue),
                  floor |-> RaisedFloor(core.floor, core.queue)]
    /\ core' = [core EXCEPT !.bridge = "TAKEN", !.closing = (by = "SHUTDOWN")]

(* A lowered floor refuses the whole batch, and the batch is dropped. *)
Refuse(by) ==
    /\ core' = [core EXCEPT !.queue = <<>>, !.closing = (by = "SHUTDOWN"),
                            !.owed = {p \in @ : Mine(core.queue, p) = {}}]
    /\ UNCHANGED commit

Drain(by) ==
    /\ core.queue # <<>> /\ core.seq < MaxSeq
    /\ IF FloorWouldDecrease(core.floor, core.queue) THEN Refuse(by) ELSE Begin(by)

Flush ==
    /\ Running /\ ~core.closing /\ core.bridge = "HELD"
    /\ Drain("CALLER")
    /\ UNCHANGED <<disk, acked>>

\* Mutants of WriteAnchor: the old floor, the old counter, or the digest of the
\* vault that is about to be written.
WriteAnchorAs(a) ==
    /\ commit.at = "BEGUN"
    /\ anchor' = a
    /\ commit' = [commit EXCEPT !.at = "ANCHORED"]
    /\ UNCHANGED <<file, lock, core, acked>>
WriteAnchorOldFloor == WriteAnchorAs(Anchor(commit.seq, {}, core.floor))
WriteAnchorOldCounter == WriteAnchorAs(Anchor(core.seq, {}, commit.floor))
WriteAnchorSealed == WriteAnchorAs(Anchor(commit.seq, {commit.recs}, commit.floor))

(* Store::commit, step 3: the anchor first, naming no image yet. *)
WriteAnchor ==
    /\ commit.at = "BEGUN"
    /\ anchor' = Anchor(commit.seq, {}, commit.floor)
    /\ commit' = [commit EXCEPT !.at = "ANCHORED"]
    /\ UNCHANGED <<file, lock, core, acked>>

(* Step 5: the vault, by rename. *)
WriteVault ==
    /\ commit.at = "ANCHORED"
    /\ file' = Image(commit.seq, commit.recs)
    /\ commit' = [commit EXCEPT !.at = "WRITTEN"]
    /\ UNCHANGED <<anchor, lock, core, acked>>

(* The peers whose forget a batch ends with and whose write it holds: deletes *)
(* are applied first, so the vault keeps a record that was taken back.       *)
Overtaken(queue, count) ==
    {p \in Peer : /\ Entries(queue, "WRITE", p) # {}
                  /\ Max(Mine(queue, p)) <= count
                  /\ queue[Max(Mine(queue, p))].op = "DELETE"}

(* Step 6, and the return: only now does memory follow the disk. *)
SealAnchor ==
    /\ commit.at = "WRITTEN"
    /\ anchor' = Anchor(commit.seq, {commit.recs}, commit.floor)
    /\ core' = [core EXCEPT !.bridge = "HELD", !.seq = commit.seq, !.recs = commit.recs,
                            !.floor = commit.floor,
                            !.queue = Cleared(@, commit.count),
                            !.owed = @ \ Overtaken(core.queue, commit.count)]
    /\ commit' = NoCommit
    /\ acked' = commit.recs
    /\ UNCHANGED <<file, lock>>

\* Mutant of CommitFails: the error is propagated before the bridge is put back.
CommitFailsUnreturned ==
    /\ commit.at # "IDLE"
    /\ commit' = NoCommit
    /\ UNCHANGED <<core, disk, acked>>

(* Any of the three writes is refused: the bridge goes back, the queue stays. *)
CommitFails ==
    /\ commit.at # "IDLE"
    /\ core' = [core EXCEPT !.bridge = "HELD"]
    /\ commit' = NoCommit
    /\ UNCHANGED <<disk, acked>>

-----------------------------------------------------------------------------
(* AnchorState::classify, for a device whose identity is present. *)
Classified ==
    CASE anchor.seq = 0 -> IF file.kind = "ABSENT" THEN "FIRST_RUN" ELSE "ANCHOR_MISSING"
      [] anchor.seq # 0 /\ file.kind = "ABSENT" -> "VAULT_ABSENT"
      [] anchor.seq # 0 /\ file.kind # "ABSENT" ->
             CASE anchor.seq > file.seq -> "ROLLED_BACK"
               [] anchor.seq < file.seq -> "ANCHOR_BEHIND"
               [] anchor.seq = file.seq ->
                      IF anchor.digest = {file.recs} THEN "HEALTHY" ELSE "FORKED"

Suspends(state) == state \in {"ROLLED_BACK", "ANCHOR_MISSING", "FORKED"}

\* Mutant of OpenStore: the floor is taken from the vault's own record.
OpenStoreVaultFloor ==
    /\ Running /\ core.bridge = "EMPTY" /\ ~lock
    /\ Classified # "FORKED"
    /\ lock' = TRUE
    /\ core' = [core EXCEPT !.bridge = "HELD", !.seq = file.seq, !.recs = file.recs,
                            !.floor = file.recs.epoch]
    /\ acked' = file.recs
    /\ UNCHANGED <<file, anchor, commit>>

(* Core::open_store and Store::open: the single-opener lock, the ladder, and *)
(* the hydration of the session table from the journal.  A fork is refused   *)
(* and the lock given back.  An unreadable vault is moved aside.             *)
OpenStore ==
    /\ Running /\ core.bridge = "EMPTY" /\ ~lock
    /\ Classified # "FORKED"
    /\ lock' = TRUE
    /\ file' = IF file.kind = "CORRUPT" THEN Lost("ABSENT") ELSE file
    /\ core' = [core EXCEPT !.bridge = "HELD", !.seq = file.seq, !.recs = file.recs,
                            !.floor = anchor.floor,
                            !.suspended = Suspends(Classified),
                            !.table = @ \cup {p \in Peer : core.journal[p] # None}]
    /\ acked' = file.recs
    /\ UNCHANGED <<anchor, commit>>

(* The secure store or the file system refuses after the lock was taken: the *)
(* error returns, the lock file stays.                                       *)
OpenRefused ==
    /\ Running /\ core.bridge = "EMPTY" /\ ~lock
    /\ lock' = TRUE
    /\ UNCHANGED <<file, anchor, core, commit, acked>>

(* Core::shutdown: drain, release the lock if the bridge is there (a refusal *)
(* to remove it is ignored), and end.                                        *)
Shutdown ==
    /\ Running /\ ~core.closing
    /\ \/ core.bridge = "HELD" /\ Drain("SHUTDOWN")
       \/ /\ core.bridge # "HELD" \/ core.queue = <<>>
          /\ core' = [core EXCEPT !.closing = TRUE]
          /\ UNCHANGED commit
    /\ UNCHANGED <<disk, acked>>

End(life) == core' = Gone(life) /\ commit' = NoCommit /\ UNCHANGED <<file, anchor, acked>>

ShutdownEnds ==
    /\ core.closing /\ commit.by # "SHUTDOWN"
    /\ lock' \in {lock, lock /\ core.bridge # "HELD"}
    /\ End("STOPPED")

(* The host's stop (Agent::shutdown, the FFI teardown): begin_shutdown alone. *)
BeginShutdown == Running /\ ~core.closing /\ End("STOPPED") /\ UNCHANGED lock

Crash == Running /\ End("CRASHED") /\ UNCHANGED lock

(* Between processes: an operator removes the lock a dead holder left, the   *)
(* vault file is damaged, and a new process starts.                          *)
RemoveLock ==
    /\ ~Running /\ lock
    /\ lock' = FALSE
    /\ UNCHANGED <<file, anchor, core, commit, acked>>

DamageVault ==
    /\ ~Running /\ file.kind = "IMAGE"
    /\ \E kind \in Damage : file' = Lost(kind)
    /\ UNCHANGED <<anchor, lock, core, commit, acked>>

Start ==
    /\ ~Running
    /\ core' = Booted
    /\ UNCHANGED <<disk, commit, acked>>

Next ==
    \/ \E p \in Peer : Forget(p) \/ \E v \in Value : Persist(p, v)
    \/ \E e \in Epoch \ {0} : AdvanceTrustEpoch(e)
    \/ Flush \/ WriteAnchor \/ WriteVault \/ SealAnchor \/ CommitFails
    \/ OpenStore \/ OpenRefused
    \/ Shutdown \/ ShutdownEnds \/ BeginShutdown
    \/ Crash \/ RemoveLock \/ DamageVault \/ Start

Spec == Init /\ [][Next]_vars

-----------------------------------------------------------------------------
Records == [session : [Peer -> Value \cup {None}], epoch : Epoch]

(* The disk, the process and the commit in flight are well formed; the       *)
(* bridge is out of its slot exactly while a commit is in flight.            *)
TypeOK ==
    /\ file \in [kind : {"IMAGE", "CORRUPT", "ABSENT"}, seq : 0 .. MaxSeq, recs : Records]
    /\ anchor \in [seq : 0 .. MaxSeq, digest : {anchor.digest}, floor : Epoch]
    /\ anchor.digest \subseteq Records
    /\ lock \in BOOLEAN
    /\ core \in [life : {"RUNNING", "STOPPED", "CRASHED"},
                 bridge : {"EMPTY", "HELD", "TAKEN"}, seq : 0 .. MaxSeq, recs : Records,
                 floor : Epoch, table : SUBSET Peer, journal : [Peer -> Value \cup {None}],
                 epoch : Epoch, queue : {core.queue}, owed : SUBSET Peer,
                 suspended : BOOLEAN, closing : BOOLEAN]
    /\ core.queue \in Seq({Put(p, v) : p \in Peer, v \in Value}
                              \cup {Drop(p) : p \in Peer} \cup {Put("EPOCH", e) : e \in Epoch})
    /\ commit \in [at : {"IDLE", "BEGUN", "ANCHORED", "WRITTEN"},
                   by : {None, "CALLER", "SHUTDOWN"}, count : 0 .. MaxQueue,
                   seq : 0 .. MaxSeq, recs : Records, floor : Epoch]
    /\ (core.bridge = "TAKEN") = (commit.at # "IDLE")
    /\ acked \in Records

(* The durable trust epoch floor never falls: not by a commit refused half   *)
(* way, a crash, a lost vault or a restart whose cache began at zero.        *)
FloorNeverFalls == [][anchor'.floor >= anchor.floor]_vars

(* ST-12b: no vault on disk holds an epoch its floor does not reflect, at    *)
(* any instant of a commit.                                                  *)
EpochUnderFloor == file.recs.epoch <= anchor.floor

(* ST-23: the anchor leads.  Whatever instant the process dies at, the next  *)
(* open never finds the anchor behind the vault.                             *)
AnchorLeads == Classified # "ANCHOR_BEHIND"

(* A vault the ladder will open holds exactly what was last reported         *)
(* committed: nothing reported is lost and nothing unreported appears.       *)
AcknowledgedSurvives ==
    Classified \in {"HEALTHY", "ROLLED_BACK"} /\ file.kind = "IMAGE" => file.recs = acked

(* What the journal said last of a peer is on its way to the vault or in it: *)
(* the last entry queued for the peer says it, or none is queued and the     *)
(* vault says it, with no record at all for a Session that was forgotten.    *)
(* Nothing pushed during a flush is lost with the batch (planes.rs           *)
(* clear_pending), nor is a batch whose commit failed.  Two kinds of batch   *)
(* owe nothing: one a floor refused, and one with a forget after a write of  *)
(* the same peer, which leaves the record in the vault (lib.rs commit).      *)
NothingSlips ==
    \A p \in core.owed :
        LET mine == Mine(core.queue, p)
        IN  core.journal[p] = IF mine = {} THEN core.recs.session[p]
                              ELSE core.queue[Max(mine)].value
=============================================================================
