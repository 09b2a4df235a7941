----------------------------- MODULE Carriage -----------------------------
(* Sealed records from one device to another, on the direct path and       *)
(* through a relay, over a network that loses, repeats and reorders.       *)
(*                                                                         *)
(* The sender seals each packet under its tunnel's next counter            *)
(* (twinvpn-tunnel engine.rs) and sends it straight to the peer            *)
(* (datapath Pump) or as a DATA frame of its relay leg (execute            *)
(* carriage.rs, relay/leg.rs).  The relay authenticates the frame under    *)
(* the counter it works out, and sends it on under a counter of its own    *)
(* (services/relay forward.rs).  The receiver authenticates the leg frame  *)
(* the same way and opens the record, behind both of the tunnel's windows. *)
(* Tunnels are made by the handshake of execute/handshake.rs, the sender   *)
(* being its initiator; every handshake the responder answers has its own  *)
(* keys.  A MAC or an AEAD verifies when its reader uses the counter and   *)
(* the key it was made with.                                               *)
EXTENDS ReplayWindow, FiniteSets

CONSTANTS
    MaxAttempts,    \* bound on the handshakes the initiator begins
    MaxKeys,        \* bound on the handshakes the responder answers
    MaxLegCounter,  \* bound on the counters the sender's leg issues
    MaxInFlight     \* bound on the datagrams in flight

ASSUME CarriageConstants ==
    {MaxAttempts, MaxKeys, MaxLegCounter, MaxInFlight} \subseteq Nat \ {0}

NoTunnel == 0
TunnelKey == NoTunnel .. MaxKeys
Counter == 0 .. RejectAfter - 1
LegCounter == 0 .. MaxLegCounter

VARIABLES
    attempt,    \* the handshake the initiator waits on, or 0
    sender,     \* the sender's tunnel: its key and the counters issued
    legSent,    \* counters the sender's leg has issued
    relayIn,    \* the relay's window on the sender's half-flow
    relayOut,   \* the counter of the last frame to the receiver's half-flow
    legIn,      \* the receiver's window on its leg
    receiver,   \* the receiver's tunnel: its key and two windows
    opened,     \* opened[k, c]: times record c of key k was written out
    keys,       \* handshakes the responder has answered
    begun,      \* handshakes the initiator has begun
    net         \* datagrams in flight

vars == <<attempt, sender, legSent, relayIn, relayOut, legIn, receiver, opened,
          keys, begun, net>>

Record == [key : 1 .. MaxKeys, counter : Counter]
Frame == [hop : {"up", "down"}, low : 0 .. Turn - 1, full : LegCounter, record : Record]
Datagram == Frame \cup [hop : {"direct"}, record : Record]
                  \cup [hop : {"INIT"}, attempt : 1 .. MaxAttempts]
                  \cup [hop : {"RESP"}, attempt : 1 .. MaxAttempts, key : 1 .. MaxKeys]

NewTunnel(k) == [key |-> k, engine |-> NewEngineWindow, inner |-> NewKeysWindow]

TypeOK ==
    /\ attempt \in 0 .. MaxAttempts
    /\ sender \in [key : TunnelKey, sent : 0 .. RejectAfter]
    /\ legSent \in 0 .. MaxLegCounter + 1
    /\ relayOut \in LegCounter
    /\ {relayIn.highest, legIn.highest} \subseteq LegCounter
    /\ relayIn.behind \cup legIn.behind \subseteq 0 .. LegWidth - 1
    /\ receiver.key \in TunnelKey
    /\ {receiver.engine.highest, receiver.inner.highest} \subseteq Counter
    /\ {receiver.engine.map, receiver.inner.map} \subseteq Bitmap
    /\ opened \in [Record -> Nat]
    /\ keys \in TunnelKey /\ begun \in 0 .. MaxAttempts
    /\ net \subseteq Datagram

\* The leg's first counter went to its BIND.
Init ==
    /\ attempt = 0 /\ begun = 0
    /\ sender = [key |-> NoTunnel, sent |-> 0]
    /\ legSent = 1
    /\ relayIn = NewLegWindow
    /\ relayOut = 0
    /\ legIn = NewLegWindow
    /\ receiver = NewTunnel(NoTunnel)
    /\ opened = [r \in Record |-> 0]
    /\ keys = 0
    /\ net = {}

----------------------------------------------------------------------------
(* The network.                                                            *)

Sends(d) == net' = net \cup {d} /\ Cardinality(net \cup {d}) <= MaxInFlight

\* d is taken off the network, or stays to arrive again.
Receives(d) == net' \in {net, net \ {d}}

\* d is received and e goes out.
Relays(d, e) ==
    /\ net' \in {net \cup {e}, (net \ {d}) \cup {e}}
    /\ Cardinality(net') <= MaxInFlight

Lose ==
    /\ \E d \in net : net' = net \ {d}
    /\ UNCHANGED <<attempt, sender, legSent, relayIn, relayOut, legIn, receiver,
                   opened, keys, begun>>

----------------------------------------------------------------------------
(* The handshake.                                                          *)

Initiate ==
    /\ begun < MaxAttempts
    /\ begun' = begun + 1 /\ attempt' = begun'
    /\ Sends([hop |-> "INIT", attempt |-> begun'])
    /\ UNCHANGED <<sender, legSent, relayIn, relayOut, legIn, receiver, opened, keys>>

\* Mutant of Respond: the tunnel that stands is bound again with new windows.
RespondAgain(d) ==
    /\ d.hop = "INIT" /\ keys < MaxKeys
    /\ keys' = IF keys = 0 THEN 1 ELSE keys
    /\ receiver' = NewTunnel(keys')
    /\ Relays(d, [hop |-> "RESP", attempt |-> d.attempt, key |-> keys'])
    /\ UNCHANGED <<attempt, sender, legSent, relayIn, relayOut, legIn, opened, begun>>

\* The responder has its tunnel as soon as it has answered, and answers an
\* initiation of any age.
Respond(d) ==
    /\ d.hop = "INIT" /\ keys < MaxKeys
    /\ keys' = keys + 1
    /\ receiver' = NewTunnel(keys')
    /\ Relays(d, [hop |-> "RESP", attempt |-> d.attempt, key |-> keys'])
    /\ UNCHANGED <<attempt, sender, legSent, relayIn, relayOut, legIn, opened, begun>>

\* A response that echoes this attempt's index makes the tunnel; any other ends
\* the attempt.
Complete(d) ==
    /\ d.hop = "RESP" /\ attempt # 0
    /\ attempt' = 0
    /\ sender' = IF d.attempt = attempt THEN [key |-> d.key, sent |-> 0] ELSE sender
    /\ Receives(d)
    /\ UNCHANGED <<legSent, relayIn, relayOut, legIn, receiver, opened, keys, begun>>

----------------------------------------------------------------------------
(* The sender.                                                             *)

\* The next counter, below the ceiling.
Seals ==
    /\ sender.key # NoTunnel /\ sender.sent < RejectAfter
    /\ sender' = [sender EXCEPT !.sent = @ + 1]

Sealed == [key |-> sender.key, counter |-> sender.sent]

SendDirect ==
    /\ Seals
    /\ Sends([hop |-> "direct", record |-> Sealed])
    /\ UNCHANGED <<attempt, legSent, relayIn, relayOut, legIn, receiver, opened, keys, begun>>

TakesLegCounter == legSent <= MaxLegCounter /\ legSent' = legSent + 1

SendRelayed ==
    /\ Seals
    /\ TakesLegCounter
    /\ Sends([hop |-> "up", low |-> Low(legSent), full |-> legSent, record |-> Sealed])
    /\ UNCHANGED <<attempt, relayIn, relayOut, legIn, receiver, opened, keys, begun>>

\* A frame of the leg that carries no record takes a counter too, and so does
\* a run of them that is lost.
SendControl ==
    /\ TakesLegCounter
    /\ UNCHANGED <<attempt, sender, relayIn, relayOut, legIn, receiver, opened,
                   keys, begun, net>>

----------------------------------------------------------------------------
(* The relay: authenticate, admit, and send on under the egress counter.   *)

\* The counter a window makes of a frame, when that is the counter the MAC is
\* over.
Reads(w, d) == Reconstruct(w, d.low) = d.full

Forward(d) ==
    /\ d.hop = "up" /\ relayOut < MaxLegCounter
    /\ Reads(relayIn, d) /\ LegTakes(relayIn, d.full)
    /\ relayIn' = LegTaken(relayIn, d.full)
    /\ relayOut' = relayOut + 1
    /\ Relays(d, [hop |-> "down", low |-> Low(relayOut'), full |-> relayOut',
                  record |-> d.record])
    /\ UNCHANGED <<attempt, sender, legSent, legIn, receiver, opened, keys, begun>>

----------------------------------------------------------------------------
(* The receiver.                                                           *)

\* A record for the tunnel that stands, new to both windows, is written to the
\* interface.
Opens(r) ==
    /\ r.key = receiver.key
    /\ EngineTakes(receiver.engine, r.counter) /\ KeysTake(receiver.inner, r.counter)
    /\ receiver' = [receiver EXCEPT !.engine = EngineTaken(@, r.counter),
                                    !.inner = KeysTaken(@, r.counter)]
    /\ opened' = [opened EXCEPT ![r] = @ + 1]

\* Another tunnel's record, or one a window refuses, is dropped.
Refuses(r) ==
    /\ \/ r.key # receiver.key
       \/ ~ EngineTakes(receiver.engine, r.counter)
       \/ ~ KeysTake(receiver.inner, r.counter)
    /\ UNCHANGED <<receiver, opened>>

ReceiveDirect(d) ==
    /\ d.hop = "direct"
    /\ Opens(d.record) \/ Refuses(d.record)
    /\ Receives(d)
    /\ UNCHANGED <<attempt, sender, legSent, relayIn, relayOut, legIn, keys, begun>>

ReceiveRelayed(d) ==
    /\ d.hop = "down"
    /\ Reads(legIn, d) /\ LegTakes(legIn, d.full)
    /\ legIn' = LegTaken(legIn, d.full)
    /\ Opens(d.record) \/ Refuses(d.record)
    /\ Receives(d)
    /\ UNCHANGED <<attempt, sender, legSent, relayIn, relayOut, keys, begun>>

\* A leg frame that does not authenticate, or was admitted before, goes
\* nowhere and moves no window: Lose.

----------------------------------------------------------------------------

Next ==
    \/ Initiate \/ SendDirect \/ SendRelayed \/ SendControl \/ Lose
    \/ \E d \in net :
        \/ Respond(d) \/ Complete(d)
        \/ Forward(d)
        \/ ReceiveDirect(d) \/ ReceiveRelayed(d)

Spec == Init /\ [][Next]_vars

----------------------------------------------------------------------------
(* Properties.                                                             *)

\* No packet is written to the interface twice, whatever the network repeats,
\* whichever path a record took and however often a tunnel is made again
\* (engine.rs open, handshake_completed; handshake.rs drive).
OpenedOnce == \A r \in Record : opened[r] <= 1

\* A frame less than half a turn from the newest its reader has admitted is
\* read under the counter it was sent with, in either turn; so is one of the
\* first turn where nothing has been admitted (frame.rs reconstruct).
ReadTruly(w, d) ==
    \/ w.seen /\ d.full < w.highest + Half /\ w.highest < d.full + Half
    \/ ~ w.seen /\ d.full < Turn
LegCountersAgree ==
    \A d \in net :
        /\ d.hop = "up" /\ ReadTruly(relayIn, d) => Reads(relayIn, d)
        /\ d.hop = "down" /\ ReadTruly(legIn, d) => Reads(legIn, d)
=============================================================================
