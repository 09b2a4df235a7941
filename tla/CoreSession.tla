----------------------------- MODULE CoreSession -----------------------------
(***************************************************************************)
(* The session table of one TwinVPN client and the commands that drive it: *)
(* twinvpn-core's execute/mod.rs, execute/establishment.rs and             *)
(* execute/carriage.rs over session_table/mod.rs, with the SessionRuntime  *)
(* of each peer given by SessionMachine.                                   *)
(*                                                                         *)
(* Submissions are serialized: `op` is the one in flight.  A connect gives *)
(* the table's lock back while it waits for the peer, so the host's tick,  *)
(* the clock, key installation, a resume off the wire and a shutdown may  *)
(* come between any two of its steps.                                      *)
(*                                                                         *)
(* A tunnel is its presence; a pump is a pair of spawned tasks.  The tasks *)
(* of the tunnel in the entry are `pumped`; tasks whose tunnel the entry   *)
(* no longer holds, and whose cancellation nothing tripped, are `orphans`. *)
(***************************************************************************)
EXTENDS SessionMachine

CONSTANTS
    Peer,
    Refusal,        \* codes a refused handshake reports (handshake::Refusal)
    HostEvent,      \* events the host reports, to every Session
    MaxOrphans      \* bound on the detached pumps of one peer

(* Lifecycle::event, and what host.network_changed makes of an enumeration. *)
HostEventKind == {"SUSPEND", "RESUME", "BACKGROUND", "FOREGROUND", "LINK_UP", "LINK_DOWN"}

ASSUME CoreAssumption ==
    /\ Refusal \subseteq ReasonCode
    /\ HostEvent \subseteq {Event(k) : k \in HostEventKind}
    /\ MaxOrphans \in Nat

VARIABLES
    sess,       \* the session table, one entry per peer
    orphans,    \* how many detached pumps of each peer still run
    iface,      \* whether enforcement holds the overlay interface's handle
    journal,    \* the peers with a record in the session journal
    op,         \* the submission in flight
    up          \* FALSE once begin_shutdown has run

vars == <<sess, orphans, iface, journal, op, up>>

NewEntry == [known |-> FALSE, rt |-> Fresh, keyed |-> FALSE, sockets |-> FALSE,
             candidates |-> FALSE, tunnel |-> FALSE, pumped |-> FALSE]

Known == {p \in Peer : sess[p].known}

Init ==
    /\ sess = [p \in Peer |-> NewEntry]
    /\ orphans = [p \in Peer |-> 0]
    /\ iface = FALSE
    /\ journal = {}
    /\ op = [at |-> "IDLE"]
    /\ up = TRUE

-----------------------------------------------------------------------------
(* One event on an entry's runtime, with the guards that hold. *)
Told(e, trigger, guards) == [e EXCEPT !.rt = Apply(@, trigger, guards, NoContext)]

Idle == op.at = "IDLE"

(* The submission at a step: its peer, whether it is part of net.up, and the *)
(* peers net.up has yet to dial.                                             *)
Step(at, p, arming, rest) == [at |-> at, peer |-> p, arming |-> arming, rest |-> rest]
Onward(at) == op' = [op EXCEPT !.at = at]
Return ==
    op' = IF op.arming THEN [at |-> "DIAL_REST", arming |-> TRUE, rest |-> op.rest]
          ELSE [at |-> "IDLE"]

(* connect, down to the release of the lock: gather unless sockets are held, *)
(* ask, admit, and report whether there is a candidate.  A refusal by the    *)
(* trust guards comes before any of it and leaves nothing.                   *)
Dialed(e, gathered) ==
    LET held == IF e.sockets THEN e
                ELSE [e EXCEPT !.sockets = gathered # "NOTHING",
                               !.candidates = gathered = "CANDIDATES"]
        found == IF held.candidates THEN "usable_candidate" ELSE "no_candidate_either_family"
        guards == {"credentials_valid", "peer_authorized", found}
        asked == Told(held, Event("CONNECT_REQUESTED"), guards)
    IN  Told([asked EXCEPT !.known = TRUE],
             Event(IF held.candidates THEN "CANDIDATES_READY" ELSE "CANDIDATE_TIMEOUT"),
             guards)

Dial(p, arming, rest) ==
    /\ \E gathered \in {"NOTHING", "SOCKETS_ONLY", "CANDIDATES"} :
           sess' = [sess EXCEPT ![p] = Dialed(@, gathered)]
    /\ op' = Step("NEGOTIATE", p, arming, rest)
    /\ UNCHANGED <<orphans, iface, journal, up>>

(* session.connect, and session.reconnect of a peer the table knows. *)
Connect(p) == up /\ Idle /\ Dial(p, FALSE, {})

(* carry: T05 or T07 by whether key material is installed; then, in          *)
(* CONNECTING, the material is lent to the handshake.                        *)
Negotiate ==
    /\ op.at = "NEGOTIATE"
    /\ LET e == sess[op.peer]
           verdict == Event(IF e.keyed THEN "NEGOTIATION_OK" ELSE "NEGOTIATION_FAIL")
           heard == IF e.rt.state = Negotiating
                    THEN Told(e, verdict, {"retry_budget_available"}) ELSE e
       IN  IF heard.rt.state = Connecting
           THEN /\ sess' = [sess EXCEPT ![op.peer] = [heard EXCEPT !.keyed = FALSE]]
                /\ Onward(IF e.keyed THEN "HANDSHAKE" ELSE "HANDSHAKE_UNKEYED")
           ELSE /\ sess' = [sess EXCEPT ![op.peer] = heard]
                /\ Onward("RECORD")
    /\ UNCHANGED <<orphans, iface, journal, up>>

(* direct, on completion: the material goes back and the new tunnel replaces *)
(* whatever tunnel the entry held, which nobody stops.                       *)
HandshakeOk ==
    /\ op.at = "HANDSHAKE"
    /\ LET e == sess[op.peer]
       IN  /\ e.pumped => orphans[op.peer] < MaxOrphans
           /\ orphans' = [orphans EXCEPT ![op.peer] = IF e.pumped THEN @ + 1 ELSE @]
           /\ sess' = [sess EXCEPT ![op.peer] =
                          [e EXCEPT !.keyed = TRUE, !.tunnel = TRUE, !.pumped = FALSE]]
    /\ Onward("START")
    /\ UNCHANGED <<iface, journal, up>>

\* Mutants of HandshakeRefused: the material is not put back; or the submission
\* returns without trying the relay or reporting the failure.
HandshakeRefusedKeyless ==
    /\ op.at \in {"HANDSHAKE", "HANDSHAKE_UNKEYED"}
    /\ Onward("RELAY")
    /\ UNCHANGED <<sess, orphans, iface, journal, up>>
HandshakeRefusedEarly ==
    /\ op.at \in {"HANDSHAKE", "HANDSHAKE_UNKEYED"}
    /\ sess' = [sess EXCEPT ![op.peer].keyed = (op.at = "HANDSHAKE")]
    /\ Onward("RECORD")
    /\ UNCHANGED <<orphans, iface, journal, up>>

HandshakeRefused ==
    /\ op.at \in {"HANDSHAKE", "HANDSHAKE_UNKEYED"}
    /\ sess' = [sess EXCEPT ![op.peer].keyed = (op.at = "HANDSHAKE")]
    /\ Onward("RELAY")
    /\ UNCHANGED <<orphans, iface, journal, up>>

(* carriage::start: needs the interface; the pump itself may be refused. *)
Startable(e) == e.tunnel /\ ~e.pumped /\ e.sockets

\* Mutant of Start: a pump is spawned before the interface exists.
StartUnarmed ==
    /\ op.at = "START"
    /\ sess' = [sess EXCEPT ![op.peer].pumped = @ \/ Startable(sess[op.peer])]
    /\ Onward("REACHED_DIRECT")
    /\ UNCHANGED <<orphans, iface, journal, up>>

Start ==
    /\ op.at = "START"
    /\ \E started \in BOOLEAN :
           /\ started => iface /\ Startable(sess[op.peer])
           /\ sess' = [sess EXCEPT ![op.peer].pumped = @ \/ started]
    /\ Onward("REACHED_DIRECT")
    /\ UNCHANGED <<orphans, iface, journal, up>>

\* Mutant of Relay: an admitted leg counts as reaching the peer.
RelayLegAlone ==
    /\ op.at = "RELAY"
    /\ \E leg \in BOOLEAN : Onward(IF leg THEN "REACHED_RELAYED" ELSE "FAILED")
    /\ UNCHANGED <<sess, orphans, iface, journal, up>>

(* relayed: a leg alone carries nothing; only a live tunnel makes it count. *)
Relay ==
    /\ op.at = "RELAY"
    /\ \E leg \in BOOLEAN :
           Onward(IF leg /\ sess[op.peer].tunnel THEN "REACHED_RELAYED" ELSE "FAILED")
    /\ UNCHANGED <<sess, orphans, iface, journal, up>>

Reached ==
    /\ op.at \in {"REACHED_DIRECT", "REACHED_RELAYED"}
    /\ LET relayed == op.at = "REACHED_RELAYED"
           class == IF relayed THEN "RELAYED" ELSE "WAN_DIRECT"
           guards == {"path_validated", "no_l2_path_won"}
                         \cup {g \in {"no_direct_path_won"} : relayed}
       IN  sess' = [sess EXCEPT ![op.peer] = Told(@, With("HANDSHAKE_OK", class), guards)]
    /\ Onward("RECORD")
    /\ UNCHANGED <<orphans, iface, journal, up>>

FailedAttempt ==
    /\ op.at = "FAILED"
    /\ \E code \in Refusal :
           sess' = [sess EXCEPT ![op.peer].rt =
                       Apply(@, Event("HANDSHAKE_FAIL"), {"retry_budget_available"},
                             [NoContext EXCEPT !.transport = code])]
    /\ Onward("RECORD")
    /\ UNCHANGED <<orphans, iface, journal, up>>

(* recorded: the journal learns of the Session, and the submission returns. *)
Recorded ==
    /\ op.at = "RECORD"
    /\ journal' = journal \cup {op.peer}
    /\ Return
    /\ UNCHANGED <<sess, orphans, iface, up>>

-----------------------------------------------------------------------------
(* net.up: every known peer is dialed in turn, a refused one is passed over, *)
(* then the data plane is armed and the pumps that can start do.             *)
NetUp ==
    /\ up /\ Idle
    /\ op' = [at |-> "DIAL_REST", arming |-> TRUE, rest |-> Known]
    /\ UNCHANGED <<sess, orphans, iface, journal, up>>

\* Mutant of DialNext: the peer dialed stays on the list.
DialNextAgain ==
    /\ op.at = "DIAL_REST"
    /\ \E p \in op.rest : Dial(p, TRUE, op.rest)

DialNext ==
    /\ op.at = "DIAL_REST"
    /\ \E p \in op.rest : Dial(p, TRUE, op.rest \ {p})

PassOver ==
    /\ op.at = "DIAL_REST"
    /\ \E p \in op.rest : op' = [op EXCEPT !.rest = @ \ {p}]
    /\ UNCHANGED <<sess, orphans, iface, journal, up>>

(* enforce::arm refuses with the handle as it was, or with one recorded and  *)
(* the swap refused; only its success starts pumps.                          *)
Arm ==
    /\ op.at = "DIAL_REST" /\ op.rest = {}
    /\ \E armed \in BOOLEAN, started \in SUBSET {p \in Known : Startable(sess[p])} :
           /\ iface' = (iface \/ armed)
           /\ started # {} => armed
           /\ sess' = [p \in Peer |-> [sess[p] EXCEPT !.pumped = @ \/ p \in started]]
    /\ op' = [at |-> "IDLE"]
    /\ UNCHANGED <<orphans, journal, up>>

\* Mutant of TornDown: the keys are erased and the pump is left running.
TornDownPumping(e) == [e EXCEPT !.tunnel = FALSE]

(* tear_down: the entry's own pump is cancelled, its keys erased. *)
TornDown(e) == [e EXCEPT !.tunnel = FALSE, !.pumped = FALSE]

(* close_one, which forgets the record only when a row fired. *)
Closed(e) == Told(TornDown(e), Event("DISCONNECT_REQUESTED"), {})
CloseFires(e) == Resolve(e.rt.state, Event("DISCONNECT_REQUESTED"), {}) # {}

Disconnect(p) ==
    /\ up /\ Idle
    /\ p \in Known
    /\ sess' = [sess EXCEPT ![p] = Closed(@)]
    /\ journal' = journal \ {q \in {p} : CloseFires(sess[q])}
    /\ UNCHANGED <<orphans, iface, op, up>>

(* net.down: close every Session, stop every carriage, then take the         *)
(* interface away, which the platform may refuse.                            *)
NetDown ==
    /\ up /\ Idle
    /\ sess' = [p \in Peer |-> IF p \in Known THEN TornDown(Closed(sess[p])) ELSE sess[p]]
    /\ journal' = journal \ {p \in Known : CloseFires(sess[p])}
    /\ iface' \in {FALSE, iface}
    /\ UNCHANGED <<orphans, op, up>>

(* host.lifecycle and host.network_changed: one event for every Session. *)
HostReports(event) ==
    /\ up /\ Idle
    /\ sess' = [p \in Peer |-> IF p \in Known THEN Told(sess[p], event, {}) ELSE sess[p]]
    /\ UNCHANGED <<orphans, iface, journal, op, up>>

-----------------------------------------------------------------------------
(* What happens beside a submission. *)

(* Core::begin_shutdown, from any thread: the tunnels go at once; a submission *)
(* in flight is not stopped and finishes against the entries it finds.         *)
Shutdown ==
    /\ up
    /\ up' = FALSE
    /\ sess' = [p \in Peer |-> TornDown(sess[p])]
    /\ UNCHANGED <<orphans, iface, journal, op>>

InstallKeying(p) ==
    /\ up
    /\ sess' = [sess EXCEPT ![p].known = TRUE, ![p].keyed = TRUE]
    /\ UNCHANGED <<orphans, iface, journal, op, up>>

(* Core::tick: each Session's timers, with no guard and no context. *)
TickSession(p) ==
    /\ up
    /\ Due(sess[p].rt) # {}
    /\ \E next \in Tick(sess[p].rt, {}, NoContext) : sess' = [sess EXCEPT ![p].rt = next]
    /\ UNCHANGED <<orphans, iface, journal, op, up>>

(* deliver_resume: a resume datagram the pump set aside, for a parked Session. *)
ResumeOnWire(p) ==
    /\ up
    /\ sess[p].pumped /\ sess[p].rt.state = Parked
    /\ \E g \in {{"path_plausibly_survived"}, {"rekey_window_exceeded"}, {}} :
           sess' = [sess EXCEPT ![p] = Told(@, Event("RESUME"), g)]
    /\ UNCHANGED <<orphans, iface, journal, op, up>>

PassTime ==
    /\ up
    /\ \E p \in Peer : \E t \in Armed(sess[p].rt) : sess[p].rt.left[t] > 0
    /\ sess' = [p \in Peer |-> [sess[p] EXCEPT !.rt = Elapse(@)]]
    /\ UNCHANGED <<orphans, iface, journal, op, up>>

Proceed ==
    \/ Negotiate \/ HandshakeOk \/ HandshakeRefused \/ Start \/ Reached
    \/ FailedAttempt \/ Recorded \/ DialNext \/ PassOver \/ Arm

Next ==
    \/ \E p \in Peer : Connect(p) \/ Disconnect(p) \/ InstallKeying(p)
                           \/ TickSession(p) \/ ResumeOnWire(p)
    \/ \E event \in HostEvent : HostReports(event)
    \/ NetUp \/ NetDown \/ Shutdown \/ PassTime
    \/ Proceed \/ Relay

Spec == Init /\ [][Next]_vars

(* A submission's thread runs, and its wait on the peer ends by T_CONNECT.   *)
(* The relay's answer is the one wait without a bound: nothing is assumed    *)
(* of it, nor of the clock, the host or the platform.                        *)
FairSpec == Spec /\ WF_vars(Proceed)

-----------------------------------------------------------------------------
(* The table is well formed. *)
TypeOK ==
    /\ \A p \in Peer :
           /\ IsRuntime(sess[p].rt)
           /\ sess[p] \in [known : BOOLEAN, rt : {sess[p].rt}, keyed : BOOLEAN,
                           sockets : BOOLEAN, candidates : BOOLEAN,
                           tunnel : BOOLEAN, pumped : BOOLEAN]
           /\ sess[p].pumped => sess[p].tunnel
    /\ orphans \in [Peer -> 0 .. MaxOrphans]
    /\ iface \in BOOLEAN /\ up \in BOOLEAN
    /\ journal \subseteq Known

(* A Session the machine calls carrying has a live tunnel behind it: STEADY, *)
(* DEGRADED and MIGRATING are never a belief without a key.                  *)
CarryingHasTunnel ==
    up => \A p \in Peer :
              PhaseOf(sess[p].rt.state) = "CARRYING" => sess[p].tunnel

(* No pump of the table outlives the interface it writes to: net.down stops  *)
(* every carriage before the handle goes, and none starts without one.       *)
PumpHasInterface == \A p \in Peer : sess[p].pumped => iface

(* A connect leaves no Session half way: with no submission in flight the    *)
(* handshake has been decided one way or the other.                          *)
ConnectDecides ==
    Idle => \A p \in Peer : sess[p].rt.state \notin {Negotiating, Connecting}

(* Key material lent to a handshake comes back on every outcome: a peer that *)
(* was ever keyed is keyed whenever no submission is in flight, whether its  *)
(* handshakes succeed or fail and whatever tears its tunnels down.           *)
KeysComeBack == \A p \in Peer : [](sess[p].keyed => [](Idle => sess[p].keyed))

(* A submission returns, whatever the peers and the platform refuse, however *)
(* many peers it dials, unless it waits for a relay: open_relay has no timer *)
(* around its exchange, so a relay that is silent keeps it.                  *)
SubmissionReturns == ~Idle ~> (Idle \/ op.at = "RELAY")

(* execute/mod.rs:563-564: "The pump stops here, before the transition is    *)
(* published, so a caller that observes DISCONNECTED cannot then observe a   *)
(* packet."                                                                  *)
DisconnectedIsSilent ==
    \A p \in Peer :
        sess[p].rt.state = Disconnected => ~sess[p].pumped /\ orphans[p] = 0
=============================================================================
