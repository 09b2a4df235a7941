---------------------------- MODULE ControlPlane ----------------------------
(***************************************************************************)
(* One TwinNet of the coordination service over its Postgres store         *)
(* (services/control-plane).  PgStore::execute takes the TwinNet row FOR    *)
(* UPDATE, loads the slice, runs one handler against it and applies the     *)
(* journal before it commits, so a command is one step here.  A handler     *)
(* that returns an error, and a journal that a trigger of the schema        *)
(* refuses, roll everything back: neither is a step.  A device may lose the *)
(* answer of any step and ask again, with the same idempotency key.         *)
(***************************************************************************)
EXTENDS Integers, Sequences, FiniteSets

CONSTANTS Devices,      \* device_ids
          Pairings,     \* pairing_ids
          Digests,      \* contents a policy bundle may have
          Versions,     \* policy versions an Owner signs
          Epochs,       \* epochs an advertiser signs
          Ceremonies,   \* CEREMONY requests: each mints its own idempotency key
          MaxCounter,   \* what an INTEGER column holds: i32::MAX
          MaxPositions  \* bound: positions of the log

(* What a request of each command is about.                                 *)
DeviceCommand == {"RegisterDevice", "RevokeDevice", "RotateIdentity", "RotateTunnelKey"}
PairingCommand == {"BeginPairing", "CompletePairing", "CancelPairing", "RevokePairing"}

ASSUME ControlPlaneAssumption ==
    /\ MaxPositions \in Nat /\ MaxCounter \in Nat /\ Epochs \subseteq Nat /\ Versions \subseteq Nat
    /\ \A c \in Ceremonies :
          /\ c.command \in DeviceCommand => c.about \in Devices
          /\ c.command = "RegisterDevice" => c.generation \in Nat /\ c.tkGeneration \in Nat
          /\ c.command \in PairingCommand => c.about \in Pairings /\ c.caller \in Devices
          /\ c.command = "PutPolicy" => c.about \in Digests /\ c.version \in Versions

VARIABLES log,        \* the event table: kind, what it is about, its number (of a
                      \* registration and of a succession: the generation)
          members,    \* the device table
          revoked,    \* the revocation table
          trustEpoch, \* twinnet.trust_epoch
          pairings,   \* the pairing table
          policy,     \* the PolicyBundle row of state_document
          offered,    \* epochs of route_set and exit_offer
          dedup,      \* the idempotency table, by the request that owns the key
          told        \* history: the outcomes given to CompletePairing, by pairing

vars == <<log, members, revoked, trustEpoch, pairings, policy, offered, dedup, told>>

NoRow == [version |-> 0, generation |-> 0, tkGeneration |-> 0, revoked |-> FALSE]
NoPairing == [state |-> "None", version |-> 0, initiator |-> "nobody", overdue |-> FALSE,
              outcome |-> 0]
NoPolicy == [version |-> 0, digest |-> "none"]
NoRecord == [age |-> "none", outcome |-> 0]
Sets == {"route", "offer"}

(* The requests of one command.                                             *)
Asks(command) == {c \in Ceremonies : c.command = command}

(***************************************************************************)
(* The transaction.                                                         *)
(***************************************************************************)

Entry(kind, about, number) ==
    [kind |-> kind, about |-> about, number |-> number, tkGeneration |-> 0]

(* tx.rs append: the position is allocated inside the transaction, and the   *)
(* event goes in with the rows it describes.                                *)
AppendEntry(entry) ==
    /\ Len(log) < MaxPositions
    /\ log' = Append(log, entry)

Append1(kind, about, number) == AppendEntry(Entry(kind, about, number))

Position == Len(log) + 1

(* Mutant of DeviceAdmits: the trigger compares neither the versions nor the *)
(* generations.                                                             *)
DeviceAdmitsAnyVersion(old, new) ==
    /\ old.revoked => new.revoked
    /\ new.tkGeneration >= old.tkGeneration

(* device_monotone (migration 0001): what an UPDATE of a device row may do.  *)
DeviceAdmits(old, new) ==
    /\ old.revoked => new.revoked
    /\ new.version >= old.version
    /\ new.generation >= old.generation
    /\ new.tkGeneration >= old.tkGeneration

(* pairing_is_single_use (migration 0003): a row that left pending keeps its *)
(* state.                                                                   *)
PairingAdmits(old, new) ==
    /\ old.state \notin {"None", "Pending"} => new.state = old.state
    /\ new.version >= old.version

(* A counter as the upsert binds it: i32::try_from(..).unwrap_or(i32::MAX).   *)
Stored(counter) == IF counter > MaxCounter THEN MaxCounter ELSE counter

(* put_device, upserted over the row that is there.                         *)
PutDevice(d, row) ==
    /\ members[d] # NoRow => DeviceAdmits(members[d], row)
    /\ members' = [members EXCEPT ![d] = row]

PutPairing(p, row) ==
    /\ PairingAdmits(pairings[p], row)
    /\ pairings' = [pairings EXCEPT ![p] = row]

(* idem::admit says Fresh: no record, or one older than the window.         *)
Fresh(c) == dedup[c].age # "fresh"

(* record_outcome and put_idempotency: the outcome goes into the same        *)
(* transaction, and a record that exists is left as it is (ON CONFLICT DO    *)
(* NOTHING).                                                                *)
Answer(c, outcome) ==
    /\ dedup' = IF dedup[c] = NoRecord
                THEN [dedup EXCEPT ![c] = [age |-> "fresh", outcome |-> outcome]]
                ELSE dedup
    /\ told' = IF c.command = "CompletePairing"
               THEN [told EXCEPT ![c.about] = @ \union {outcome}]
               ELSE told

(* require_not_revoked.                                                     *)
InForce(d) == d \notin revoked

Init ==
    /\ log = <<>>
    /\ members = [d \in Devices |-> NoRow]
    /\ revoked = {}
    /\ trustEpoch = 0
    /\ pairings = [p \in Pairings |-> NoPairing]
    /\ policy = NoPolicy
    /\ offered = [s \in Devices \X Sets |-> 0]
    /\ dedup = [c \in Ceremonies |-> NoRecord]
    /\ told = [p \in Pairings |-> {}]

(* idem::admit says Replay: the recorded octets, and no handler.            *)
Replay(c) ==
    /\ ~Fresh(c)
    /\ Answer(c, dedup[c].outcome)
    /\ UNCHANGED <<log, members, revoked, trustEpoch, pairings, policy, offered>>

(***************************************************************************)
(* domain/device.rs                                                         *)
(***************************************************************************)

(* The row and the event of a registration: both generations are the ones    *)
(* the request names, unchecked; the event carries them whole.              *)
NewRow(c) == [NoRow EXCEPT !.version = 1, !.generation = Stored(c.generation),
                           !.tkGeneration = Stored(c.tkGeneration)]
Registration(c) == [Entry("DeviceRegistered", c.about, c.generation)
                       EXCEPT !.tkGeneration = c.tkGeneration]

(* register.  The row is looked for by public key, and the recorded key is   *)
(* the first one for ever: a device that presents the key of a later         *)
(* identity finds no row, and the one it would write meets the trigger.  The *)
(* trigger takes it over a row that was registered at a later generation and *)
(* not written since.                                                       *)
KnownBy(d, key) == members[d] # NoRow /\ key = "first"

RegisterDevice(c, key) ==
    LET d == c.about IN
    /\ Fresh(c)
    /\ key = "successor" => members[d].generation > 0
    /\ \/ /\ KnownBy(d, key)
          /\ ~members[d].revoked
          /\ Answer(c, 0)
          /\ UNCHANGED <<log, members>>
       \/ /\ ~KnownBy(d, key)
          /\ AppendEntry(Registration(c))
          /\ PutDevice(d, NewRow(c))
          /\ Answer(c, Position)
    /\ UNCHANGED <<revoked, trustEpoch, pairings, policy, offered>>

(* revoke.  The Owner signed it; the target needs no row, and a target that  *)
(* is in the set already costs no epoch.                                    *)
RevokeDevice(c) ==
    LET d == c.about IN
    /\ Fresh(c)
    /\ \/ /\ d \in revoked
          /\ Answer(c, 0)
          /\ UNCHANGED <<log, members, revoked, trustEpoch>>
       \/ /\ d \notin revoked
          /\ Len(log) + 2 <= MaxPositions
          /\ trustEpoch' = trustEpoch + 1
          /\ revoked' = revoked \union {d}
          /\ members' = IF members[d] = NoRow THEN members
                        ELSE [members EXCEPT ![d].revoked = TRUE, ![d].version = @ + 1]
          /\ log' = log \o << Entry("DeviceRevoked", d, trustEpoch + 1), Entry("PeerRemoved", d, 0) >>
          /\ Answer(c, Position)
    /\ UNCHANGED <<pairings, policy, offered>>

(* Mutant of Succeeds: any generation that does not fall.                   *)
SucceedsOrEquals(d, generation) == generation \in {members[d].generation, members[d].generation + 1}

(* admit_succession: the statement names the generation after the recorded.  *)
Succeeds(d, generation) == generation = members[d].generation + 1

(* rotate_credential with an IdentitySuccession, which names its generation. *)
RotateIdentity(c) ==
    LET d == c.about IN
    /\ Fresh(c)
    /\ InForce(d)
    /\ members[d] # NoRow
    /\ Succeeds(d, c.generation)
    /\ Append1("IdentityRotated", d, c.generation)
    /\ PutDevice(d, [members[d] EXCEPT !.generation = Stored(c.generation), !.version = @ + 1])
    /\ Answer(c, Position)
    /\ UNCHANGED <<revoked, trustEpoch, pairings, policy, offered>>

(* rotate_credential with a TunnelKeyBinding: the service counts it.        *)
RotateTunnelKey(c) ==
    LET d == c.about IN
    /\ Fresh(c)
    /\ InForce(d)
    /\ members[d] # NoRow
    /\ Append1("TunnelKeyRotated", d, members[d].tkGeneration + 1)
    /\ PutDevice(d, [members[d] EXCEPT !.tkGeneration = Stored(@ + 1), !.version = @ + 1])
    /\ Answer(c, Position)
    /\ UNCHANGED <<revoked, trustEpoch, pairings, policy, offered>>

(* update_metadata: DECLARATIVE, so no key; only on the version it names.    *)
UpdateMetadata(d, ifVersion) ==
    /\ InForce(d)
    /\ members[d] # NoRow
    /\ ifVersion = members[d].version
    /\ Append1("DeviceMetadataUpdated", d, ifVersion + 1)
    /\ PutDevice(d, [members[d] EXCEPT !.version = ifVersion + 1])
    /\ UNCHANGED <<revoked, trustEpoch, pairings, policy, offered, dedup, told>>

(***************************************************************************)
(* domain/pairing.rs                                                        *)
(***************************************************************************)

(* begin.  A second request for an id answers with the id that is there.    *)
BeginPairing(c) ==
    LET p == c.about IN
    /\ Fresh(c)
    /\ InForce(c.caller)
    /\ \/ /\ pairings[p].initiator = c.caller
          /\ Answer(c, 0)
          /\ UNCHANGED <<log, pairings>>
       \/ /\ pairings[p] = NoPairing
          /\ Append1("PairingRequested", p, 0)
          /\ PutPairing(p, [NoPairing EXCEPT !.state = "Pending", !.version = 1,
                                             !.initiator = c.caller])
          /\ Answer(c, Position)
    /\ UNCHANGED <<members, revoked, trustEpoch, policy, offered>>

(* Mutant of CompletePairing: the outcome is derived again from the request. *)
CompletePairingAgain(c) ==
    LET p == c.about IN
    /\ Fresh(c)
    /\ InForce(c.caller)
    /\ pairings[p].state \in {"Pending", "Completed"}
    /\ ~pairings[p].overdue
    /\ members[c.caller] # NoRow
    /\ Append1("PairingApproved", p, 0)
    /\ PutPairing(p, [pairings[p] EXCEPT !.state = "Completed", !.version = @ + 1,
                                         !.outcome = Position])
    /\ Answer(c, Position)
    /\ UNCHANGED <<members, revoked, trustEpoch, policy, offered>>

(* complete.  A completed pairing answers with its recorded outcome; a       *)
(* pending one, inside its window and presented by a registered device, is   *)
(* approved.  A pairing past its window is marked and then refused, and the  *)
(* refusal rolls the mark back.                                             *)
CompletePairing(c) ==
    LET p == c.about IN
    /\ Fresh(c)
    /\ InForce(c.caller)
    /\ \/ /\ pairings[p].state = "Completed"
          /\ Answer(c, pairings[p].outcome)
          /\ UNCHANGED <<log, pairings>>
       \/ /\ pairings[p].state = "Pending"
          /\ ~pairings[p].overdue
          /\ members[c.caller] # NoRow
          /\ Append1("PairingApproved", p, 0)
          /\ PutPairing(p, [pairings[p] EXCEPT !.state = "Completed", !.version = @ + 1,
                                               !.outcome = Position])
          /\ Answer(c, Position)
    /\ UNCHANGED <<members, revoked, trustEpoch, policy, offered>>

(* cancel: the initiator, while the pairing is pending, overdue or not.      *)
CancelPairing(c) ==
    LET p == c.about IN
    /\ Fresh(c)
    /\ InForce(c.caller)
    /\ pairings[p].initiator = c.caller
    /\ pairings[p].state = "Pending"
    /\ Append1("PairingRejected", p, 0)
    /\ PutPairing(p, [pairings[p] EXCEPT !.state = "Cancelled", !.version = @ + 1])
    /\ Answer(c, Position)
    /\ UNCHANGED <<members, revoked, trustEpoch, policy, offered>>

(* revoke_pairing: the handler takes any row that exists; the trigger does   *)
(* not.                                                                     *)
RevokePairing(c) ==
    LET p == c.about IN
    /\ Fresh(c)
    /\ InForce(c.caller)
    /\ pairings[p] # NoPairing
    /\ Append1("PairingRevoked", p, 0)
    /\ PutPairing(p, [pairings[p] EXCEPT !.state = "Revoked", !.version = @ + 1])
    /\ Answer(c, Position)
    /\ UNCHANGED <<members, revoked, trustEpoch, policy, offered>>

(***************************************************************************)
(* domain/policy.rs and domain/advertise.rs                                 *)
(***************************************************************************)

(* put_document: an equal version is the bundle that is there, a lower one is *)
(* refused.                                                                 *)
Advances(version, digest) ==
    \/ version > policy.version
    \/ version = policy.version /\ digest = policy.digest

(* put: on the version it names, under the version inside the signature.     *)
PutPolicy(c) ==
    /\ Fresh(c)
    /\ c.ifVersion = policy.version
    /\ Advances(c.version, c.about)
    /\ policy' = [version |-> c.version, digest |-> c.about]
    /\ Append1("PolicyBundleUpdated", c.about, c.version)
    /\ Answer(c, Position)
    /\ UNCHANGED <<members, revoked, trustEpoch, pairings, offered>>

(* put_route, withdraw_route, put_offer, withdraw_offer: the whole desired    *)
(* set, empty for a withdrawal, under an epoch that strictly advances.       *)
Kind == [route |-> [put |-> "RouteAdvertised", withdraw |-> "RouteWithdrawn"],
         offer |-> [put |-> "ExitNodeAdvertised", withdraw |-> "ExitNodeWithdrawn"]]

Advertise(d, set, change, epoch) ==
    /\ InForce(d)
    /\ members[d] # NoRow
    /\ epoch > offered[<<d, set>>]
    /\ offered' = [offered EXCEPT ![<<d, set>>] = epoch]
    /\ Append1(Kind[set][change], d, epoch)
    /\ UNCHANGED <<members, revoked, trustEpoch, pairings, policy, dedup, told>>

(***************************************************************************)
(* Time: only the two windows of the contracts.                             *)
(***************************************************************************)

(* IDEMPOTENCY_WINDOW_MS passes over a record.                              *)
WindowEnds(c) ==
    /\ dedup[c].age = "fresh"
    /\ dedup' = [dedup EXCEPT ![c].age = "aged"]
    /\ UNCHANGED <<log, members, revoked, trustEpoch, pairings, policy, offered, told>>

(* CEREMONY_EXPIRY_MS passes over a pairing.                                *)
PairingOverdue(p) ==
    /\ pairings[p].state = "Pending"
    /\ ~pairings[p].overdue
    /\ pairings' = [pairings EXCEPT ![p].overdue = TRUE]
    /\ UNCHANGED <<log, members, revoked, trustEpoch, policy, offered, dedup, told>>

Ceremony ==
    \/ \E c \in Ceremonies : Replay(c)
    \/ \E c \in Asks("RegisterDevice"), key \in {"first", "successor"} : RegisterDevice(c, key)
    \/ \E c \in Asks("RevokeDevice") : RevokeDevice(c)
    \/ \E c \in Asks("RotateIdentity") : RotateIdentity(c)
    \/ \E c \in Asks("RotateTunnelKey") : RotateTunnelKey(c)
    \/ \E c \in Asks("BeginPairing") : BeginPairing(c)
    \/ \E c \in Asks("CompletePairing") : CompletePairing(c)
    \/ \E c \in Asks("CancelPairing") : CancelPairing(c)
    \/ \E c \in Asks("RevokePairing") : RevokePairing(c)
    \/ \E c \in Asks("PutPolicy") : PutPolicy(c)

Next ==
    \/ Ceremony
    \/ \E d \in Devices, v \in 1..MaxPositions : UpdateMetadata(d, v)
    \/ \E d \in Devices, set \in Sets, change \in {"put", "withdraw"}, e \in Epochs :
          Advertise(d, set, change, e)
    \/ \E c \in Ceremonies : WindowEnds(c)
    \/ \E p \in Pairings : PairingOverdue(p)

Spec == Init /\ [][Next]_vars

(***************************************************************************)
(* What a reader of the log may rely on.                                    *)
(***************************************************************************)

Positions(kind, about) == {i \in DOMAIN log : log[i].kind = kind /\ log[i].about = about}
Logged(kind) == {log[i].about : i \in {j \in DOMAIN log : log[j].kind = kind}}

(* Types.                                                                   *)
TypeOK ==
    /\ \A i \in DOMAIN log : log[i].about \in Devices \union Pairings \union Digests
    /\ Len(log) <= MaxPositions
    /\ \A d \in Devices : members[d] \in [version : Nat, generation : 0 .. MaxCounter,
                                          tkGeneration : 0 .. MaxCounter, revoked : BOOLEAN]
    /\ revoked \subseteq Devices
    /\ trustEpoch = Cardinality(revoked)
    /\ \A p \in Pairings : pairings[p].state \in
          {"None", "Pending", "Completed", "Cancelled", "Revoked"}
    /\ policy.version \in {0} \union Versions
    /\ offered \in [Devices \X Sets -> {0} \union Epochs]
    /\ \A c \in Ceremonies : dedup[c].age \in {"none", "fresh", "aged"}
    /\ told \in [Pairings -> SUBSET (1..MaxPositions)]

(* However a CompletePairing is repeated, by whichever device, inside the     *)
(* dedup window or long after it and after any other command, everyone who   *)
(* was answered was given one outcome: the one approval that is in the log,  *)
(* of a pairing whose initiator never cancelled it.                         *)
OneOutcome ==
    \A p \in Pairings :
        /\ Cardinality(told[p]) <= 1
        /\ \A n \in told[p] : /\ Positions("PairingApproved", p) = {n}
                              /\ Positions("PairingRejected", p) = {}

Single(entry) ==
    \/ entry.kind \in {"DeviceRevoked", "PairingRequested", "PairingApproved", "PairingRejected"}
    \/ entry.kind = "IdentityRotated" /\ entry.number <= MaxCounter

(* An effect happens once however often its request is repeated: a device is *)
(* revoked at most once, an identity has one successor under every           *)
(* generation the column holds, and a pairing is requested, approved and     *)
(* rejected at most once.  A device registered at generation 0 is registered *)
(* that once; one that named a later generation may be registered again.     *)
LoggedOnce ==
    \A i, j \in DOMAIN log :
        /\ log[i].kind = log[j].kind
        /\ log[i].about = log[j].about
        /\ \/ Single(log[i]) /\ log[i].number = log[j].number
           \/ log[i].kind = "DeviceRegistered" /\ log[i].number = 0
        => i = j

Latest(kind, about) ==
    {i \in Positions(kind, about) : \A j \in Positions(kind, about) : j <= i}

(* The tables are what a device that read the whole log would compute: who   *)
(* was revoked and at which epoch, the generations of every member (those of *)
(* its last registration, and one more for every rotation in the log, up to  *)
(* what the column holds), the pairings that stand, and the epoch of every   *)
(* advertised set.                                                          *)
LogTellsState ==
    /\ revoked = Logged("DeviceRevoked")
    /\ \A i \in DOMAIN log : log[i].kind = "DeviceRevoked" =>
          log[i].number = Cardinality({j \in 1..i : log[j].kind = "DeviceRevoked"})
    /\ \A d \in Devices :
          /\ members[d] # NoRow <=> d \in Logged("DeviceRegistered")
          /\ \A i \in Latest("DeviceRegistered", d) :
                /\ members[d].generation
                      = Stored(log[i].number + Cardinality(Positions("IdentityRotated", d)))
                /\ members[d].tkGeneration
                      = Stored(log[i].tkGeneration + Cardinality(Positions("TunnelKeyRotated", d)))
          /\ \A set \in Sets :
                \A i \in Positions(Kind[set].put, d) \union Positions(Kind[set].withdraw, d) :
                    log[i].number <= offered[<<d, set>>]
    /\ \A p \in Pairings :
          /\ pairings[p].state = "Completed" <=>
                /\ p \in Logged("PairingApproved")
                /\ p \notin Logged("PairingRevoked")
          /\ pairings[p].state = "Cancelled" => p \in Logged("PairingRejected")
          /\ pairings[p].state = "Revoked" => p \in Logged("PairingRevoked")
=============================================================================
