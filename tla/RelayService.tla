--------------------------- MODULE RelayService ---------------------------
(***************************************************************************)
(* A relay and the sockets that open carriages through it: the relay's     *)
(* datagram loop (services/relay/src/{loop_udp,pump,admit,token}.rs) over  *)
(* the tables of RelayTable, the device's open_relay, which blocks its     *)
(* Session until the relay answers (twinvpn-core execute/carriage.rs and   *)
(* relay/{transport,leg}.rs), and a network that loses, duplicates, delays *)
(* and reorders the datagrams between them.                                *)
(*                                                                         *)
(* A handshake is answered once per token: the token's jti goes into the   *)
(* relay's replay cache.  The pair_tag bucket a BIND carries is compared   *)
(* with the relay's own.  Cookies, MACs and frame layout are abstracted: a *)
(* frame is readable when it was made under the key its reader holds.  So  *)
(* are the ephemeral keys that tie a HANDSHAKE_RESP to the HANDSHAKE_INIT  *)
(* it answers: of two handshakes with one token, either may be answered.   *)
(***************************************************************************)
EXTENDS RelayTable

CONSTANTS
    Token, TokensOf,        \* the capability tokens installed for each peer
    Watched,                \* the peers whose device is modelled
    TagOf,                  \* the tag each of them shares with its partner
    OtherKey,               \* the key of every other peer's leg
    DeviceBucket, RelayBuckets, Skew,   \* the bucket a BIND names, those the
                                        \* relay's clock may read
    Faults,                 \* whether the network and the relay may fail
    MaxToRelay, MaxToDevice \* bounds on the datagrams in flight each way

None == "none"

ASSUME ServiceConstants ==
    /\ Watched \subseteq Peer /\ OtherKey \in Key
    /\ TokensOf \in [Watched -> (SUBSET Token) \ {{}}] /\ TagOf \in [Watched -> Tag]
    /\ {DeviceBucket, Skew, MaxToRelay, MaxToDevice} \subseteq Nat /\ RelayBuckets \subseteq Nat
    /\ Faults \in BOOLEAN

VARIABLES
    spent,      \* the jti the relay's replay cache holds
    device,     \* device[p]: the carriage p's Session holds or is opening
    token,      \* token[p]: the token installed for p
    net         \* datagrams in flight

vars == <<tableVars, spent, device, token, net>>

\* Where open_relay is: waiting for HANDSHAKE_RESP, waiting for the answer to
\* its BIND, or returned with the leg recorded.  Only the Session that called
\* it runs meanwhile.
\* A carriage keeps the token it was asked for with.
Opening == {"handshake", "binding"}
NoCarriage == [phase |-> "closed", token |-> None, key |-> None, flow |-> 0]
Device ==
    {NoCarriage}
        \cup [phase : {"handshake"}, token : Token, key : {None}, flow : {0}]
        \cup [phase : {"binding"}, token : Token, key : Key, flow : {0}]
        \cup [phase : {"open"}, token : Token, key : Key, flow : FlowId]

ServiceTypeOK ==
    /\ TypeOK
    /\ spent \subseteq Token
    /\ device \in [Watched -> Device]
    /\ token \in [Watched -> Token]

ServiceInit ==
    /\ Init
    /\ spent = {}
    /\ device = [p \in Watched |-> NoCarriage]
    /\ token \in [Watched -> Token] /\ \A p \in Watched : token[p] \in TokensOf[p]
    /\ net = {}

----------------------------------------------------------------------------
(* Datagrams.                                                              *)

InitFrame(p) == [kind |-> "INIT", peer |-> p, token |-> token[p]]
RespFrame(p, t, k) == [kind |-> "RESP", peer |-> p, token |-> t, key |-> k]
BindFrame(p) == [kind |-> "BIND", peer |-> p]
BoundFrame(p, k, f) == [kind |-> "BOUND", peer |-> p, key |-> k, flow |-> f]
StatusFrame(p, k) == [kind |-> "STATUS", peer |-> p, key |-> k]

ToRelay(flight) == {m \in flight : m.kind \in {"INIT", "BIND"}}

Crowded(flight) ==
    \/ Cardinality(ToRelay(flight)) > MaxToRelay
    \/ Cardinality(flight \ ToRelay(flight)) > MaxToDevice

\* A faulty network keeps any of what is sent; past the bounds it keeps none.
Fits(flight, sent) ==
    {flight \cup s : s \in {r \in SUBSET sent :
        /\ Faults \/ r = sent
        /\ r = {} \/ ~ Crowded(flight \cup r)}}

\* m arrives and sent leave; a faulty network may deliver m again.
Arrives(m, sent) ==
    net' \in Fits(net \ {m}, sent) \cup (IF Faults THEN Fits(net, sent) ELSE {})

Leaves(sent) == net' \in Fits(net, sent)

----------------------------------------------------------------------------
(* The relay's receive loop.                                               *)

\* A handshake derives a key that nothing p may still read was made under.
FreshKey(p, k) ==
    /\ legs[p].key # k
    /\ device[p].key # k
    /\ \A m \in net : m.peer = p /\ m.kind \in {"RESP", "BOUND", "STATUS"} => m.key # k

\* Mutant of AnswerInit: the replay cache is not asked.
AnswerInitAgain(m) ==
    /\ spent' = spent \cup {m.token}
    /\ \E k \in Key \ {OtherKey} :
        /\ FreshKey(m.peer, k)
        /\ \/ Establish(m.peer, k) /\ Arrives(m, {RespFrame(m.peer, m.token, k)})
           \/ ~ RoomForLeg(m.peer) /\ Arrives(m, {}) /\ UNCHANGED tableVars

\* HANDSHAKE_INIT: the token is verified last against the replay cache, the
\* leg recorded, and the device answered; a refusal is silent.
AnswerInit(m) ==
    /\ m.token \notin spent
    /\ spent' = spent \cup {m.token}
    /\ \E k \in Key \ {OtherKey} :
        /\ FreshKey(m.peer, k)
        /\ \/ Establish(m.peer, k) /\ Arrives(m, {RespFrame(m.peer, m.token, k)})
           \/ ~ RoomForLeg(m.peer) /\ Arrives(m, {}) /\ UNCHANGED tableVars

IgnoreInit(m) ==
    /\ m.token \in spent
    /\ Arrives(m, {})
    /\ UNCHANGED <<tableVars, spent>>

DeliverInit(m) ==
    /\ m.kind = "INIT"
    /\ AnswerInit(m) \/ IgnoreInit(m)
    /\ UNCHANGED <<device, token>>

BucketAccepted(now) == DeviceBucket >= now - Skew /\ DeviceBucket <= now + Skew

\* The BOUND owed to the half-flow that was waiting, if its leg still stands.
Announcement(h) ==
    {BoundFrame(q, legs[q].key, h.flow) : q \in {r \in Watched : r = h.peer /\ HasLeg(r)}}

\* BIND: the bucket, then the engine, and an answer under the peer's leg.
Binds(m, p, t) ==
    \E f \in FlowId :
        \/ OpenSlot(p, t, f) /\ Arrives(m, {BoundFrame(p, legs[p].key, f)})
        \/ /\ JoinSlot(p, t, f)
           /\ Arrives(m, {BoundFrame(p, legs[p].key, f)} \cup Announcement(pending[t]))

Refuses(m, p, t) ==
    /\ \E withinRate \in BOOLEAN : RefuseBind(p, t, withinRate)
    /\ Arrives(m, {StatusFrame(p, legs[p].key)})

WrongBucket(m, p) == Heard(p) /\ Arrives(m, {StatusFrame(p, legs[p].key)})

AnswerBind(m, p, t) ==
    \E now \in RelayBuckets :
        \/ BucketAccepted(now) /\ (Binds(m, p, t) \/ Refuses(m, p, t))
        \/ ~ BucketAccepted(now) /\ WrongBucket(m, p)

DeliverBind(m) ==
    /\ m.kind = "BIND"
    /\ \/ AnswerBind(m, m.peer, TagOf[m.peer])
       \/ ~ HasLeg(m.peer) /\ Arrives(m, {}) /\ UNCHANGED tableVars
    /\ UNCHANGED <<spent, device, token>>

\* DATA from p, handled as it is sent: forwarded, answered with a
\* RELAY_STATUS because the egress subject is over its bitrate, or dropped.
SameKey(p) == device[p].key = legs[p].key
SendData(p) ==
    /\ device[p].phase = "open"
    /\ \/ SameKey(p) /\ Forward(p, device[p].flow)
       \/ Heard(p)
       \/ ~ HasLeg(p) /\ UNCHANGED tableVars
    /\ UNCHANGED <<spent, device, token, net>>

----------------------------------------------------------------------------
(* The device: open_relay holds its Session from the first datagram it     *)
(* sends to the answer it waits for.  Every attempt of a Session uses its  *)
(* first socket, so what an earlier attempt left in flight still arrives.  *)

OpenRelay(p) ==
    /\ device[p].phase = "closed"
    /\ device' = [device EXCEPT ![p] =
                    [NoCarriage EXCEPT !.phase = "handshake", !.token = token[p]]]
    /\ Leaves({InitFrame(p)})
    /\ UNCHANGED <<tableVars, spent, token>>

Drops(p) == [device EXCEPT ![p] = NoCarriage]

\* Before each receive the deadline is read, and has passed or has not; it
\* does not end a receive that waits.
NextReceive(p) == device' \in {device, Drops(p)}

\* HANDSHAKE_RESP: the leg is up, and the BIND leaves before the next receive.
Completes(p, m) ==
    /\ m.kind = "RESP" /\ m.token = device[p].token
    /\ \/ device' = [device EXCEPT ![p] = [@ EXCEPT !.phase = "binding", !.key = m.key]]
       \/ device' = Drops(p)
    /\ Arrives(m, {BindFrame(p)})

\* HANDSHAKE_RESP to an earlier handshake does not decrypt, and ends this one.
Mismatches(p, m) ==
    /\ m.kind = "RESP"
    /\ device' = Drops(p)
    /\ Arrives(m, {})

\* Anything else sends the loop round, and HANDSHAKE_INIT with it.
Resends(p, m) ==
    /\ m.kind # "RESP"
    /\ NextReceive(p)
    /\ Arrives(m, {InitFrame(p)})

DuringHandshake(p, m) ==
    /\ device[p].phase = "handshake"
    /\ Completes(p, m) \/ Mismatches(p, m) \/ Resends(p, m)

Readable(p, m) == m.kind \in {"BOUND", "STATUS"} /\ m.key = device[p].key

Records(p, m) ==
    [device EXCEPT ![p] = [@ EXCEPT !.phase = "open", !.flow = m.flow]]

DuringBind(p, m) ==
    /\ device[p].phase = "binding"
    /\ \/ Readable(p, m) /\ m.kind = "BOUND" /\ device' = Records(p, m)
       \/ Readable(p, m) /\ m.kind = "STATUS" /\ device' = Drops(p)
       \/ ~ Readable(p, m) /\ NextReceive(p)
    /\ Arrives(m, {})

WhileOpen(p, m) ==
    /\ device[p].phase = "open"
    /\ device' = IF Readable(p, m) /\ m.kind = "BOUND" THEN Records(p, m) ELSE device
    /\ Arrives(m, {})

Unread(p, m) == device[p].phase = "closed" /\ Arrives(m, {}) /\ UNCHANGED device

DeliverToDevice(m) ==
    /\ m.kind \in {"RESP", "BOUND", "STATUS"}
    /\ \/ DuringHandshake(m.peer, m)
       \/ DuringBind(m.peer, m)
       \/ WhileOpen(m.peer, m)
       \/ Unread(m.peer, m)
    /\ UNCHANGED <<tableVars, spent, token>>

\* Any other datagram reaches the socket open_relay reads, a COOKIE_CHALLENGE
\* among them, which begins the handshake again with the same token.
Stray(p) ==
    /\ Faults
    /\ \/ device[p].phase = "handshake" /\ Leaves({InitFrame(p)})
       \/ device[p].phase = "binding" /\ UNCHANGED net
    /\ NextReceive(p)
    /\ UNCHANGED <<tableVars, spent, token>>

\* A send the leg refused is a hard leg signal, and with no standby the leg
\* is dropped; closing the Session drops it too.
DropLeg(p) ==
    /\ device[p].phase = "open"
    /\ device' = Drops(p)
    /\ UNCHANGED <<tableVars, spent, token, net>>

InstallAccess(p) ==
    /\ device[p].phase \notin Opening
    /\ \E k \in TokensOf[p] : k # token[p] /\ token' = [token EXCEPT ![p] = k]
    /\ UNCHANGED <<tableVars, spent, device, net>>

----------------------------------------------------------------------------

\* What the table does on its own.  No deployed loop calls the collectors.
Housekeeping ==
    /\ CollectLegs \/ CollectTable \/ BeginDrain \/ Tick
    /\ UNCHANGED <<spent, device, token, net>>

RelayRestarts ==
    /\ Faults
    /\ Restart
    /\ spent' = {}
    /\ UNCHANGED <<device, token, net>>

\* A peer whose device is not modelled: what its datagrams do to the tables,
\* on whatever tag, and what the relay tells a modelled partner of it.
OtherPeer(p) ==
    /\ \/ Establish(p, OtherKey) /\ UNCHANGED net
       \/ \E t \in Tag, f \in FlowId : OpenSlot(p, t, f) /\ UNCHANGED net
       \/ \E t \in Tag, f \in FlowId :
            /\ JoinSlot(p, t, f)
            /\ Leaves(Announcement(pending[t]))
    /\ UNCHANGED <<spent, device, token>>

DeviceStep(p) == OpenRelay(p) \/ SendData(p) \/ DropLeg(p)
                    \/ InstallAccess(p) \/ Stray(p)
Deliver(m) == DeliverInit(m) \/ DeliverBind(m) \/ DeliverToDevice(m)

Next ==
    \/ \E p \in Watched : DeviceStep(p)
    \/ \E p \in Peer \ Watched : OtherPeer(p)
    \/ \E m \in net : Deliver(m)
    \/ Housekeeping
    \/ RelayRestarts

Spec == ServiceInit /\ [][Next]_vars

----------------------------------------------------------------------------
(* Properties.                                                             *)

\* What a device sends on the flow it holds leaves only on the tag the device
\* shares with its partner, whatever the relay has collected, reassigned or
\* forgotten since it answered (pump.rs forward_data).
CarriesOnItsTag ==
    \A p \in Watched :
        /\ device[p].phase = "open" /\ SameKey(p)
        /\ Carries(p, device[p].flow)
        => byFlow[device[p].flow] = TagOf[p]

\* While a device holds a leg open and the relay holds the same one, nothing
\* but the relay's own collection or restart ends it, and no other leg is put
\* in its place, unless a HANDSHAKE_INIT of an earlier attempt is delivered
\* late that was made with a token the relay has not yet seen: of the
\* HANDSHAKE_INITs made with this leg's own token, in this attempt or an
\* earlier one, however repeated or delayed, none replaces it (token.rs
\* verify, replay.rs admit, leg.rs establish).
LiveLegStands ==
    [][\A p \in Watched :
        device[p].phase = "open" /\ SameKey(p) =>
            \/ legs'[p].key \in {legs[p].key, NoLeg.key}
            \/ \E m \in net : /\ m.kind = "INIT" /\ m.peer = p
                             /\ m.token # device[p].token
                             /\ m.token \in spent' \ spent]_vars
=============================================================================
