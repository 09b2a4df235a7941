# TwinVPN in TLA+

A verification development kept beside the TwinVPN sources: specifications
written from the code, checked with TLC on small instances, and theorems about
them checked by TLAPS for every value of the constants. `PROJECT.json` is its
index: components, runs, the lines each definition stands for, the mutants that
show each property can fail, findings, hazards and theorems.

## The system

TwinVPN connects a user's own devices to each other. Each device runs a *core*
(Rust, `core/crates/`) inside a host shell (`shells/`); the devices meet through
services (`services/`) that relay sealed packets and distribute signed state.

The core is driven from outside: a host submits commands and network and power
reports, ticks it whenever a deadline may be due, and asks it to stop. Inside,
each peer has a *Session*: a state machine, its deadlines, and whatever the
present path needs.

### Inventory

| Part | State it keeps | Operations | What is hard | What makes it correct |
|---|---|---|---|---|
| session state machine (`twinvpn-session`) | state, reason code, timer profile | one trigger against a table of 38 rows under guards | rows that keep the state, overlapping rows, codes from three places | a reason exactly where one is due; the lifecycle |
| run loop (`twinvpn-core/session_loop.rs`) | armed deadlines | apply, tick, poll | several expiries in a tick, expiries that match no row | each state runs its own deadlines, no deadline restarts |
| session journal (`journal.rs` of both crates) | in-memory map, queued writes | persist, forget, load_all, resume | restart | open Sessions are recovered, a forgotten record is gone |
| session table and commands (`session_table`, `execute/`) | per peer: runtime, key material, sockets, candidates, tunnel, pump | connect, reconnect, disconnect, net.up/down, host reports, tick, wire resume | the lock is given back during a handshake | a carrying Session has a tunnel; keys come back; no pump without interface; commands return |
| write-behind queue, bridge, vault owner (`planes.rs`, `bridge.rs`, `core.rs`) | pending writes, caches, the open store | flush, open_store, shutdown, begin_shutdown | writes during a flush, refused batches, stop order | nothing reported is lost, the floor only rises |
| durable store (`twinvpn-store`) | vault file, Tier-1 anchor, lock file | open, commit, close | a stop between the writes of a commit | anchor leads, floors cover the vault |
| tunnel and crypto windows (`twinvpn-tunnel`, `twinvpn-crypto/replay.rs`) | engine and keys, two bitmaps, counters | establish, seal, open | window edges, a record judged twice, handshakes repeated late | a record opens once; the windows agree |
| relay client (`twinvpn-relay-client`, core `relay/`) | the leg: key, counters, window, flow | open, bind, send, receive, drop | truncated counters, a relay that does not answer | counters are read as sent |
| relay service (`services/relay`) | legs, slots, pairs, flow index, subjects, token cache, drain | handshake, bind, forward, collect, drain | ids that come round, limits across expiry, repeated datagrams | index and accounting agree with what is held; frames leave on their own tag; a drain reaches every bound flow |
| control-plane service (`services/control-plane`) | rows of devices, pairings, policy, offers, routes; idempotency records; event log; C2 tasks | the ceremonies and declarative commands, subscribe, pump | a retry racing the original, a row against the log, shedding | one effect per ceremony; the log tells the state; no silent gap |
| control-plane client (`twinvpn-cp-client`) | cursor, event in hand, snapshot | attach, admit, apply, commit cursor, resnapshot | gaps, duplicates, a crash between apply and commit | the cursor never passes what is known |
| rendezvous (`services/rendezvous`, binding of `twinvpn-service-common`) | attachments, mailboxes, channel bindings with holder counts | attach, call, sweep, close | steps under different locks, stale instants, ceilings met together | a CALL in one place; nothing waits for an attached device; no attachment ends by another's close |
| presence, relay directory, relay health | leases, maps, fleet reports | publish, subscribe, rank | expiry | bounded, no stale lease |
| liveness, backoff, budgets (`twinvpn-session`) | counters | pure updates | boundaries | bounded retries |
| path (`twinvpn-path`) | candidates, race, ledger | gather, race, validate, score | late answers | only validated paths win |
| enforcement (`twinvpn-enforce`), routes, DNS | contract generation, latch, programmed state | swap, reconcile, restore | partial installs, crash | never open by accident |
| trust (`twinvpn-trust`) | owner, peers, policy, revocations | verify, admit, revoke | order of statements | revocation wins |
| management interface (`twinvpn-mgmt`, dispatch) | subscriptions, event rings | submit, poll | slow subscribers | no silent gap |
| gateway, env, types, schema, diag, FFI, platform adapters | small tables; clocks; OS handles | - | OS refusals | - |
| host shells, lab, tests, contracts, build | - | - | stop order | - |

Interaction. A submission is serialized with other submissions by dispatch. A
connect takes the table's lock, asks the machine, and gives the lock back while
it waits for the peer; the tick, key installation from the trust side and the
resume delivered by a pump take the same lock and so may come in between. At
its end a connect persists a journal record, which is only queued. The queue
reaches the store when somebody flushes; the bridge to the store is taken out
of its slot for the time of the commit and new writes may be queued meanwhile.
A new process opens the store, hydrates the table from the journal and drives
what it finds from RECONNECTING.

Devices and services. A device dials a relay over UDP, shows a token, binds a
tag and from then on wraps its sealed records in frames of that leg; the relay
pairs the two ends of a tag and forwards between them without reading the
records. The control plane turns each accepted command into rows and log events
in one transaction; a device's C2 stream carries the events to its cursor, and
the device keeps the cursor only for what it has applied. The rendezvous hands a
CALL to a device that is attached or keeps it for the length of its TTL.

## The modules

```
SessionTable            the transition table, states, triggers, guards, codes
  SessionMachine        one Session: apply, tick, deadlines, resume      (operators)
    SessionMachine_proof        lemmas about them
    SessionRuntime      one Session in an open environment               (specification)
      SessionRuntime_proof      theorems about it
      MCSessionRuntime          durations and contexts for TLC
    CoreSession         the table of Sessions and the commands           (specification)
      CoreSession_proof
      MCCoreSession             durations, refusals, host events for TLC
SessionLifecycle        what a Session promises; implemented by SessionRuntime
DurableStore            queue, bridge, store, crashes                    (specification)
  DurableStore_proof
  MCDurableStore                damages for TLC
RelayTable              what one relay holds in memory                   (specification)
  MCRelayTable
  RelayService          that relay, devices and a network between them   (specification)
    RelayService_proof          theorems about it and about RelayTable
    MCRelayService
ReplayWindow            the three replay windows                         (operators)
  AntiReplay            the windows beside the history of what they took (specification)
    MCAntiReplay
  Carriage              handshakes, records, legs over a network         (specification)
    Carriage_proof              theorems about it and about AntiReplay
    MCCarriage
ControlPlane            the commands of one TwinNet                      (specification)
  MCControlPlane
EventStream             the C2 stream to one device's cursor             (specification)
  MCEventStream
ControlPlane_proof      theorems about ControlPlane and EventStream
Mailbox                 the rendezvous's buffer of CALLs                 (operators)
  Rendezvous            connections, attachments, bindings, CALLs        (specification)
    Rendezvous_proof
    MCRendezvous
```

**SessionTable** is `table.rs`, `state.rs`, `event.rs` and `guards.rs`. States
are records; the path classes are kept because rows move between them and
guards depend on them. The table is a set of row records `[from, on, guard, to,
code]`; `Resolve` returns the rows the code would select for a state, a trigger
and the guards that hold, honouring the precedence `resolve` gives the rows. A guard is
the set of names of the conditions that are true.

**SessionMachine** is `machine.rs` inside `session_loop.rs`. `Apply` is
`SessionRuntime::apply`: resolve, take the reason by the row's rule
(`RowReason`), repair a missing one, change profile, then re-arm: all deadlines
when the state changed, only those missing when an expiry moved nothing.
`Tick` takes every due deadline out and then applies them one after another in
the order of their identifiers, as `fire_due` sorts them; a row chosen for one
may have moved the state before the next. `Resumed` is `SessionMachine::resumed` with
`resume_state`. `restored` is not in the code; it records that a Session has
not moved since it was rebuilt, which several statements except.

**SessionRuntime** gives one runtime any event, any set of the guards its rows
read, any context out of given codes, time, and restarts from any well-formed
record. The environment is larger than the composed core: what holds here
holds of every caller of the runtime. The enforcement mode (fail-closed, or
announced permissive) is chosen once, as it is in a process.

**SessionLifecycle** abstracts states to six phases: at rest, establishing,
carrying, recovering, holding traffic back, terminal. It says which way from one
to another exists. The ways it does not have are its content: carrying never
becomes terminal without recovery in between; holding never becomes terminal or
starts over; a resumed Session never carries by itself. `SessionRuntime` is
checked and proved to implement it; `CoreSession` drives the same machine with fewer
events and guards, so it is not repeated there.

**CoreSession** is the composition of the core: entries of the session table
with the runtime of each peer. `op` is the submission in flight and walks
through the steps of `connect`, `carry`, `direct`, `relayed` and `recorded` in
the order of the code; each action is the stretch between two points at which
the lock is given back or an answer awaited. A refusal is always possible where
the code handles one, and the stop may come at any step of it: `begin_shutdown`
waits for nobody. `orphans` counts pumps whose tunnel the entry no longer
holds and that nothing cancelled. Guards here are the ones the core passes,
which are few: `Core::tick` passes none.

**DurableStore** is the way of a record to disk. `commit` is the transaction in
flight, one action per write of `Store::commit` (anchor, vault, anchor), any of
which may be refused, and `Crash` may come between any two. `Classified` is
`AnchorState::classify`. A digest is modelled by the records it is taken of.
The trust epoch stands for the floor table: its record and its floor travel in
one commit, as for every floored key. `acked` and `owed`
are history variables for the properties: the records last reported committed, and
the peers whose last journal write or forget the disk still has to follow.

**RelayTable** is the engine of a relay without its sockets: legs, pending
slots, bound pairs, the index from flow id to tag, the limiter's counts and the
drain. Instants are ages that stop at the lifetime they are compared with, so
time needs no bound. `LastFlowId` is the last id before they come round. A rate
or quota verdict is an argument: either is possible at any time. `Touched`,
`Counted`, `Charged`, `Allocated` keep the order of the code, in which a limit
is charged before the table decides and given back when it refuses.

**RelayService** puts that table behind its datagram loop and opposite devices
that run `open_relay`. `net` is a set of datagrams; delivering one may leave it
there (repeated later), and any may be lost. A device is in one phase of opening
and reads whatever arrives in that phase as `DuringHandshake`, `DuringBind` and
`WhileOpen` do. A MAC is equality of keys; there are no cookies. The device watched is
peer `a`; `b` is a peer the table meets in any order (its environment), on the
tag of `a` or on another. The device's bucket is 0, as in the code; the
relay's is 0 or 2, one inside and one outside its skew, which covers both
verdicts. A Session keeps its sockets from one connect to the next, so
datagrams of an earlier attempt arrive in a later one, at the relay as at the
device. The ephemeral keys that tie a HANDSHAKE_RESP to its HANDSHAKE_INIT are not
modelled: of a token's handshakes the one that is answered is left open, so a response for
the token the device is asking with may complete its leg (`Completes`) or not
(`Mismatches`).

**ReplayWindow** has the three windows as the arrays of words they are, with the
shifting each does its own way; a word is the set of its bits. **AntiReplay**
receives every counter in every order beside the set of what each window took,
which is the reference the windows are compared with. **Carriage** has the
sender's and the receiver's tunnels, the counters of both legs of a relay path,
and a network that repeats, loses and reorders; the handshake is two datagrams
that may be answered late or twice. A leg frame carries its counter modulo a turn
(2^16 in the code, `Turn` here), and its reader works out the nearest whole one.

**ControlPlane** is the handlers of one TwinNet. Each command is one
transaction under the TwinNet's row lock, so one action; a handler's refusal and
a trigger's are rollbacks and hence no step. The triggers are guards
(`DeviceAdmits`, `PairingAdmits`), separate from the handlers', because the
handlers pass cases the schema refuses. A registration stores the generations its
request names, clamped to what the column holds (`Stored`), and the event has them
whole. A ceremony carries an idempotency key
that its caller may repeat at any time; the record of its outcome ages from
fresh to within the window to gone. One front end is modelled: a second one
takes the same lock.

**EventStream** follows an event from its commit through the task of a
subscription (one pump turn, one write), a QUIC stream, and the client (`Receive`,
`Apply`, `CommitCursor`). The queue sheds at its watermarks and announces the
gap; the retention floor moves; the connection breaks; the device crashes. The
driver of `ControlPlaneClient` is not in the repository: its steps are external
and in the order `client.rs` and `apply.rs` prescribe.

**Mailbox** is `mailbox.rs` function by function: queues, the index of all
entries and the byte count are kept apart, as in the code, and every operation
changes all three. Instants are the time left to an expiry, and an operation is
given how far its stamp lags behind the clock. **Rendezvous** splits each
connection at the locks it takes: an ATTACH releases (if it holds), claims,
attaches, drains; a teardown detaches, then releases. A connection is made for
any device and presents that device's key for as long as it lasts, so a claim
meets a full table but never another channel; displacement and provenance are
left out. A CALL is routed under the lock and sent after it, to a connection that
may have been superseded by then; `handed` has the CALLs that left for a writer,
whether it took them or was gone. A held binding does not age: its TTL starts
over when the last hold is released, and nothing reads it before.

## The runs

| Run | What it asks | Instance | Distinct states |
|---|---|---|---|
| `session_runtime` | reasons, deadlines and lifecycle of one Session in an open environment | every timer 1 tick, RECONNECT_GRACE 2, RECONNECT_MAX 3; contexts of one or two codes per class | 866 |
| `core_session` | one peer: tunnels behind carrying Sessions, keys lent, every submission returns | every timer 1, RECONNECT_MAX 2; all host events; 1 orphan | 8,886 |
| `core_session_pair` | two peers under one net.up and net.down | link loss as the only host event | 208,467 |
| `durable_store` | crash consistency of queue and store | 1 peer, 2 values, epochs up to 2, 2 commits, queue of 3, vault lost or unreadable | 652,096 |
| `relay_table` | index, counts, charges, drain of a relay | 3 peers, 2 tags, 2 legs, 1 per prefix, 3 half-flows, ids 1..3 | 8,034 |
| `relay_service` | a device's carriage through a relay over a bad network | 1 device, 1 more peer, 2 tags, 4 keys, 2 tokens, 2 datagrams to the relay and 1 back, 2 half-flows, ids 1..2 | 524,852 |
| `replay_windows` | the windows against the history | 3 words of 3 bits, counters to 12; a leg window of 4 in a turn of 8 | 232,012 |
| `carriage` | records opened once, leg counters understood | 2 words of 1 bit, 3 counters, 2 handshakes, leg window 2, turn 4, 2 datagrams in flight | 952,603 |
| `control_plane` | one effect and one outcome per ceremony, the log tells the state | 2 devices, 1 pairing, 2 documents, versions 1..2, registrations at generations 0 and 2, 2 as the largest a column holds, 5 events | 526,483 |
| `event_stream` | no silent gap; every event arrives | 4 events of size 1 or 3, 5 bytes, 4 entries, batches of 3, 2 faults | 150,128 |
| `rendezvous` | CALLs across mailbox, drain and live delivery; attachments across superseding, refusals and closes | 2 connections, 2 devices, 1 binding, 1 attachment, 3 CALLs of 3 sizes, depth 2, 2 bytes, 1 target, frames up to 1 tick late, 2 epochs | 1,181,425 |
| `disconnected_is_silent` | a comment of the core | `core_session`'s instance | |

What the bounds leave out. Two different durations in RECONNECTING are what lets
its deadlines expire apart, and, after an expiry that moves nothing, together;
longer ones only add ticks between. One peer is enough for what a Session does
on its own, since entries share only `iface` and the submission; two are enough
for what net.up and net.down do to a second one after a first. One orphan is
enough to refute silence; `MaxOrphans` only disables a second overwrite. In the
store two commits give a previous state to fall back to and a counter to be
behind, three queued writes give a batch and a write during it, two values tell
the later write from the earlier, two epochs offer the floor a lower value.

In the relay three ids for three half-flows let an id come round while its
neighbours are held; one leg per prefix with two prefixes meets the prefix limit
while the table has room, and two legs meet the table's. The windows have three
words so that a shift can be within a word, across one, by whole words and
beyond all; the leg window is less than half a turn, as 64 is of 65,536. In
`carriage` a window of two over three counters has records that are too old, and
two handshakes give records of keys that were replaced. Five control-plane events
are a registration, a ceremony begun, ended, a revocation and one more; one
pairing suffices because pairings share nothing but the devices; a device
registered at the column's largest generation is rotated past it and registered
again. Two datagrams to the relay are a late HANDSHAKE_INIT behind the one or the
BIND of the attempt at hand, and two tokens are the leg's own and another. In the event
stream five bytes against sizes 1 and 3 breach the watermark before the count
does. Three CALLs are a full queue and one more, or two targets under a ceiling
of one; sizes 1, 2 and 3 under a ceiling of two fit, evict and are refused. A lag
of one tick against a TTL of one puts an entry out of date behind one that is
not. Two connections are two of one device, for superseding, or one of each, for
the refusals; connections and devices are interchangeable, which the run uses as
symmetry, as `relay_table` and `relay_service` do with their keys, tags or tokens.

Bounds that appear in guards: `MaxEpoch`, `MaxSeq`, `MaxQueue` (store);
`MaxOrphans`; `MaxToRelay`, `MaxToDevice` (relay's network); `MaxInFlight`,
`MaxAttempts`, `MaxKeys`, `MaxLegCounter` (carriage); `MaxPositions` (control plane;
`MaxCounter` is no bound of the model but `i32::MAX`, made small); `MaxLog`, `MaxFaults` (event stream);
`MaxCalls`, `MaxEpoch`, `MaxHolders`, `MaxLag` (rendezvous: the holder count
would grow for ever where a hold is never released).

Deadlock is checked in `session_runtime`, `durable_store`, `replay_windows` and
`rendezvous`. Elsewhere a system may stop for good, after
a shutdown, when a bound on counters, logs or attempts is used up, or when a
device waits for a relay that has nothing to answer, and the configuration
switches the check off.

### Fairness

`CoreSession` assumes that the thread of a submission runs: each step of a connect but
one is the core's own work or an await with a bound (T_CONNECT for the peer's
answer). The exception is the relay: `open_relay` blocks on its socket without a
timer, so nothing is assumed of the step that waits there, and `SubmissionReturns`
says that a submission returns *or waits for a relay*. A datagram lost in
`RelayService` leaves a device in `Opening` for ever. No fairness is assumed of the
clock and of ticks, commands, host reports, the peer or the stop: no shell and no
export of the FFI calls `Core::tick` at this commit, so that bounded states end is
nothing the code gives and nothing stated here.

`EventStream` assumes that the C2 task keeps turning and writing (its loop has
no other way to wait than its timer and the stream's flow control), and that the
device connects again, reads, applies and commits. Faults are bounded in number,
because a connection that breaks for ever delivers nothing, and nothing is
assumed about them. `CatchesUp` also needs that the retention floor is not raised
past a head the device was told at its last attach; the guard of
`RetentionMoves` says so.

### Disagreements found

One is a run expected to end in a counterexample, with the sentence it refutes
quoted in `PROJECT.json`: a second handshake overwrites a tunnel whose pump is
running, and the pump outlives the disconnect (`DisconnectedIsSilent`).

The others are notes of the hazards they belong to, each with the text it
disagrees with. The models reach the states they describe; no property that
excludes those states can pass.

- `open_relay` races its receives against nothing: a datagram lost leaves it, and
  the Session table's lock, waiting for ever.
- The signal that starts a relay's drain ends its receive loops, so the deadline
  the bound flows are told is not honoured. (The process around the relay's table
  is not modelled.)
- The ceiling on mailbox targets is exceeded when the evicted entry was not its
  target's only one.
- A binding claimed for an attachment that is then refused stays held for the
  life of the process; a repeated ATTACH that is refused between its release and
  its claim releases again, and that may be a sibling's hold.
- A completed pairing cannot be withdrawn. `pairing.rs:348` says of `RevokePairing`
  that it "withdraws one confirmed relationship", and its handler takes a pairing in
  any state; the trigger `pairing_is_single_use` of migration 0003 lets no row leave a
  state other than pending, so the command rolls back. What it can revoke is a
  pairing nobody has confirmed.
- A device may be registered twice. `device.rs:136` says a duplicate finds the
  same row. The generations of a registration are stored as the request names them, so a
  device registered at one above 0 may present its successor's key, finds no row by
  it, and the trigger takes the new row while the old one has version 1.
- A generation past `i32::MAX` is clamped in the row and not in the event
  (`pg.rs:337`), after which the same succession is admitted again.
- A HANDSHAKE_INIT of an earlier attempt, delayed until the next one has its leg,
  replaces that leg at the relay if its token was never shown: both come from the
  socket the Session kept, and only the replay cache tells late ones from new ones.
- Nothing drives the states that `docs/reliability.md:632` says timers drive to a
  resolution: no host calls `Core::tick`, and a tick supplies no guard, so DISCOVERING would
  not end by one.
- A forget undone by a persist of the same batch, against `journal.rs:99` (`NothingSlips`
  excepts this batch and no other).
- A journal that is hydrated empty; a lock left by the hosts' stop; suspension
  forgotten by a commit; a commit stopped before its last write; positions repeated
  behind an announcement; tokens a device cannot use again.

One more is seen in a model only: a relay whose bucket is not 0 refuses every BIND of
the core (`RelayBuckets`).

## The proofs

Eight modules hold proofs. Every property a passing run checks, except two that
rest on fairness, is also a theorem, for every value of the constants that meets
the assumptions below: any number of peers, devices, tags, tokens, CALLs, any
bound, any length of a timer. Each state machine's argument is one inductive
invariant. Two things come before it each time: lemmas on the operators the
actions are made of, and then one lemma per action. The two refinements are
proved by the same invariants.

| Module | Theorems |
|---|---|
| `SessionMachine_proof` | lemmas: the table's rows, the machine's apply, a tick (`TableTyped`, `ApplyRuntime`, `TickMoves`) |
| `SessionRuntime_proof` | `TypeCorrect`, `ReasonAgreesAlways`, `DeadlinesOwnedAlways`; `StayUndisturbedAlways` (steps); `KeepsLifecycleAlways` (refinement of `SessionLifecycle`) |
| `CoreSession_proof` | `CoreTypeCorrect`, `CarryingHasTunnelAlways`, `PumpHasInterfaceAlways`, `ConnectDecidesAlways`, `KeysComeBackAlways` |
| `DurableStore_proof` | `StoreTypeCorrect`, `EpochUnderFloorAlways`, `AnchorLeadsAlways`, `AcknowledgedSurvivesAlways`, `NothingSlipsAlways`; `FloorNeverFallsAlways` (steps) |
| `RelayService_proof` | of the tables: `TableTypeCorrect`, `PrefixCountsLegsAlways`, `FlowIndexAgreesAlways`, `DrainReachesEveryFlowAlways`, `EveryFlowChargedAlways`; of the service: `ServiceTypeCorrect`, `ServiceKeepsTables` (refinement of `TableSpec`), `CarriesOnItsTagAlways`; `LiveLegStandsAlways` (steps) |
| `Carriage_proof` | of the windows: `WindowsTypeCorrect`, `EngineRemembersAlways`, `ReplayIsNamedAlways`, `LegRemembersAlways`; of the carriage: `CarriageTypeCorrect`, `OpenedOnceAlways`, `LegCountersAgreeAlways` |
| `ControlPlane_proof` | of the commands: `ControlPlaneTypeCorrect`, `OneOutcomeAlways`, `LoggedOnceAlways`, `LogTellsStateAlways`; of the stream: `StreamHoldsAlways`, `StreamTypeCorrect`, `NoSilentGapAlways` |
| `Rendezvous_proof` | `RouterHoldsAlways`, `MailboxAgreesAlways`, `OnePlaceAlways`, `NeverLateAlways`, `NothingStrandedAlways`; `AttachmentStandsAlways` (steps) |

### The arguments

**One Session.** `Inductive == TypeOK /\ ReasonAgrees /\ DeadlinesOwned`. None of
the parts is inductive alone: a tick keeps the deadlines the state's own only
because every due deadline is a known timer and what is left of the others is
still theirs, which is the type invariant; the type invariant survives a row
that keeps its reason (a heartbeat) only if the reason held is one. The lemmas
go up the code: rows, resolution, a move, the machine's apply, the runtime's
apply, a tick. A tick fires a set of deadlines one after another, and in the
middle of it the deadlines owned are *not* all armed; `Mid` says what holds then,
and `FireEachRuntime` that each deadline keeps it and that the first one applied
restores what is missing. For the stay and for the lifecycle the invariant is
`WithParking`: a parked Session bears the reason it was parked with, without
which a resume could relabel it. `TickMoves` is what makes a tick one step of the
lifecycle whatever expires together: after one expiry has moved the state the
others find no row.

**The core.** `Inv` is a shape and, per peer, `Good`: the entry against the
submission's step. The properties speak of moments when no submission is in
flight or of carrying states; `Fits` says for each step of a connect what it may
find when its lock comes back. A Session is NEGOTIATING only under NEGOTIATE,
CONNECTING only in the handshake, a tunnel without its keys only at HANDSHAKE, and,
while the core is up, a tunnel is there in the steps that report one. A stop may
come between any two steps and takes every tunnel with it, hence the condition.
That a tick or a host report in between keeps `Fits` is read off the table's rows,
by lemmas on what each event can do to each state. `KeysComeBack` is a second
invariant over `Inv`: a peer once keyed is keyed, or the submission is at its
HANDSHAKE (`Kept`).

**The store.** The floor in the vault must stay under the anchor's, though a
commit writes anchor, vault, anchor and may stop anywhere, and a retry may take a
longer queue than the attempt did. `RaisedBy` says how far the floors on disk, in
the commit and in the process may be apart: equal, or raised to a value a queued
write still asks for and no queued write is under. `InStep` says that an open
vault is the one the process knows or one step newer and then named by no anchor.
`NothingSlips` needs which queued entry of a peer is its last (`Kept`), and what
the first `count` entries make of a record (`Makes`), so that dropping them after
the commit loses nothing. It speaks of the peers the disk owes their last word
(`owed`): a commit ends the debt only where the batch had a write of the peer before
its forget, and a refused floor where it dropped an entry of the peer.

**The relay.** The index is proved by `Held`, whether a tag holds a flow by its
slot or its pair; each action is judged by what it does to that and to `byFlow`.
The charges are proved by counting: two halves never share a flow
(`FlowIndexAgrees`), so a subject's halves inject into its flows, and those are
under its charge (`Charges`). The prefix counts are cardinalities of the legs by
prefix. That the service implements the tables (`ServiceKeepsTables`) carries all
of this over to a relay behind its datagram loop. A device's carriage leaves on
its own tag because every half a peer holds is of the tag it shares. A live leg is
not replaced by a HANDSHAKE_INIT with its own token because that token is spent from
the moment the relay answered (`TokenSpent`, kept by `LegInvariant` through every
response on its way): the replay cache is what stops one, of this attempt or an
earlier one, and a token it has not seen is what the theorem excepts.

**The windows and the carriage.** `BitsTell` is the meaning of a bitmap: bit `b`
stands for the counter `b` behind the highest. That a shift keeps the meaning is
quotient and remainder of the distance, for any width of a word and any number
of words; the engine's shift by words and carry and the keys' shift word by word
are shown equal. The carriage's invariant is that the counters written out
under the standing key are what both its windows hold (`WrittenOnce`), that a key
not yet made has none, and that a frame's low part is of its counter.

**The control plane.** `Agrees` says of each row what the log tells of it:
revocations and epochs, versions, the state of a pairing, and the generations: those
of the last registration and the rotations since, which are all there are, because a
row that was rotated has a version the trigger lets no registration go below.
A ceremony is logged once because its row, which the log determines, refuses the
second. `AnswersAgree` keeps what was told and what a repeat would be told to the
one outcome. Counting positions in a log that grows is the lemma under it all.

**The stream.** `Covers` is what a record brings. Nothing is missing behind the
cursor or below the record in hand (`ClientHolds`), and on the wire, in the task
and in its queue each record finds the positions below it held or before it
(`StreamHolds`), an announcement of a gap standing for all it skips.

**The rendezvous.** `GoodStore` is the mailbox: the index and the bytes are those
of the entries, queues are ordered, a CALL is of one device, and an entry has at
most one lock wait less to go than any before it in its queue. `PlacesHold`
has each CALL in one place, with the drains of connections in it. `EpochsHold`
has each epoch given to one connection, which is why a late close cannot end a
newer attachment. TLC checked this invariant on the instance of the run before it
was proved.

### What the proofs assume

Assumptions on constants, each named in the module that declares them, and
evaluated by TLC in the passing runs: `DurationAssumption` (timers are positive),
`ContextAssumption` and `CoreAssumption` (what callers and hosts pass is of the
types the code has), `StoreAssumption`, `RelayConstants` (among them: peers and tags
are finitely many; an id space as large as the half-flow ceiling; a
pending slot lapses no later than an idle flow), `ServiceConstants`,
`WindowConstants` (a leg's width is at most half an even turn),
`CarriageConstants`, `ControlPlaneAssumption`, `StreamAssumption`,
`MailboxConstants` (devices are finitely many) and `RendezvousConstants`. Model values that stand for
absence (`NoTag`, `None`) are assumed different from what they are beside.

The library's induction theorems cannot be instantiated by the provers. Where a
recursive function or a sum over a set has to be unfolded (`Pushed`, the eviction
loop, the bytes of a store) the proofs use an induction principle over sets of
numbers, proved from the pigeonhole principle of the library's theorems on finite
sets: a set of naturals with 0 and closed under successor is all of them.

### Only model-checked

`SubmissionReturns` and `CatchesUp`: liveness rests on
fairness and so on ENABLED, which is out of reach of the prover. Of
`Rendezvous`'s own type invariant the part about the binding table is unproved
(no run lists it; the invariant proved needs nothing of the bindings): `arrived`
is kept with `SelectSeq`, of which the provers know nothing. `RouterHoldsAlways`
has the rest.

## What is not modelled

The map covers a small share of the repository's lines, and will: most of them
are generated code (`contracts/gen`), adapters to operating systems, FFI, the lab
and its rigs, tests, and verification and encoding of statements, none of which
has states a model checker would learn something from. What is left out of the
parts that are modelled:

- Cryptography and encodings. A MAC or an AEAD verifies when its reader uses the
  key and the counter it was made with. Signatures, quorum and the claims of
  tokens and statements are passed or refused before a handler changes anything,
  so a refusal is no step.
- Path racing, relay selection and failover, routes, DNS and the firewall
  contract: `CoreSession` takes their outcomes as choices. The composed core has
  no standby leg and calls no failover.
- Rekeying: it has no caller outside the tunnel's crate.
- Pairing, exit and gateway commands of the core; diagnostics and their wording;
  the kinds of durable record that travel as a session record does.
- Of the relay: its stop (the receive loops, the teardown steps), cookies, the
  epoch floor, the order of the egress scheduler, registration with the directory; eviction from the token cache at capacity.
  `RelayEngine::collect` and `still_carrying` have no caller in production.
- Of the control plane: labels, addresses, metadata contents, relay grants, the
  authentication of a front end's callers.
- Of the rendezvous: TLS and framing (a malformed or stalled frame is a close),
  the per-source rate limiter (a deferred CALL is no step), labels, contested
  claims. A process that ends loses all its state, which it never stores.
- Presence, relay directory, relay health, the management interface, trust, the
  platform adapters and the host shells.
- The retry governor (backoff and budgets): the core hands the machine a constant
  for it today.

## Plan

The properties of the passing runs are proved, but for the two named above.
What is left, in order:

1. **Stronger statements of the proofs.** The core as the table of Sessions it
   is: that each entry of `CoreSession` implements `SessionLifecycle`, which
   today is proved of one Session in a larger environment. The binding table of
   the rendezvous: that no hold is released more often than it was claimed,
   except by a repeated ATTACH that was refused.
2. **Modelling that remains.** The path race as a producer of the outcomes
   `CoreSession` takes as given; presence's leases; contested bindings.
