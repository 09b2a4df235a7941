---------------------------- MODULE RelayTable ----------------------------
(***************************************************************************)
(* The tables one relay instance keeps in memory and nowhere else          *)
(* (services/relay/src): the established legs and their per-prefix counts  *)
(* (leg.rs), the pending slots, bound pairs and flow index (flow.rs), the  *)
(* per-subject flow accounting (resource.rs) and the drain (engine.rs).    *)
(*                                                                         *)
(* A peer is a transport address; a subject is the relay_sub its token     *)
(* names.  Instants are ages that stop at the lifetime they are compared   *)
(* with, so the model has no clock to bound.  A token bucket's verdict is  *)
(* an argument: any verdict is possible at any time.                       *)
(***************************************************************************)
EXTENDS Integers, FiniteSets

CONSTANTS
    Peer,           \* transport addresses
    Tag,            \* pair tags
    Subject, SubjectOf,     \* the subject each peer's token names
    Prefix, PrefixOf,       \* the /24 or /48 each peer is in
    Key,            \* leg keys a handshake can derive
    MaxLegs, MaxPerPrefix,  \* leg ceilings
    MaxSubjects, MaxFlows,  \* subjects tracked, half-flows of one subject
    MaxHalfFlows,   \* relay-wide half-flow ceiling
    LastFlowId,     \* 2^32 - 1 in the code
    PendingTtl, IdleTtl, LegIdle

NoLeg  == [key |-> "none"]
NoHalf == [flow |-> 0]
NoPair == [a |-> NoHalf, b |-> NoHalf]
NoTag  == "no tag"

\* Addresses and tags have a fixed width, so there are finitely many.
ASSUME RelayConstants ==
    /\ IsFiniteSet(Peer) /\ IsFiniteSet(Tag)
    /\ SubjectOf \in [Peer -> Subject] /\ PrefixOf \in [Peer -> Prefix]
    /\ {MaxLegs, MaxPerPrefix, MaxSubjects, MaxHalfFlows} \subseteq Nat \ {0}
    /\ {MaxFlows, PendingTtl, IdleTtl, LegIdle} \subseteq Nat
    /\ PendingTtl <= IdleTtl
    /\ LastFlowId \in Nat /\ LastFlowId >= MaxHalfFlows
    /\ NoTag \notin Tag /\ "none" \notin Key

VARIABLES
    legs,       \* legs[p]: the established leg of p, or NoLeg
    perPrefix,  \* perPrefix[x]: how many legs the registry counts in x
    pending,    \* pending[t]: the half-flow waiting on t, or NoHalf
    bound,      \* bound[t]: the two joined half-flows of t, or NoPair
    byFlow,     \* byFlow[f]: the tag flow f belongs to, or NoTag
    nextFlow,   \* the next flow id to try
    tracked,    \* the subjects the limiter has an entry for
    flows,      \* flows[s]: half-flows the limiter charges to s
    drain,      \* a drain has begun
    announced   \* the flows the drain was announced to

tableVars == <<legs, perPrefix, pending, bound, byFlow, nextFlow, tracked,
               flows, drain, announced>>

FlowId == 1 .. LastFlowId
Half   == [flow : FlowId, peer : Peer, idle : 0 .. IdleTtl]
Leg    == [key : Key, idle : 0 .. LegIdle]

TypeOK ==
    /\ legs \in [Peer -> Leg \cup {NoLeg}]
    /\ perPrefix \in [Prefix -> Nat]
    /\ pending \in [Tag -> Half \cup {NoHalf}]
    /\ bound \in [Tag -> [a : Half, b : Half] \cup {NoPair}]
    /\ byFlow \in [FlowId -> Tag \cup {NoTag}]
    /\ nextFlow \in FlowId
    /\ tracked \subseteq Subject
    /\ flows \in [Subject -> Nat]
    /\ drain \in BOOLEAN
    /\ announced \subseteq FlowId

Init ==
    /\ legs = [p \in Peer |-> NoLeg]
    /\ perPrefix = [x \in Prefix |-> 0]
    /\ pending = [t \in Tag |-> NoHalf]
    /\ bound = [t \in Tag |-> NoPair]
    /\ byFlow = [f \in FlowId |-> NoTag]
    /\ nextFlow = 1
    /\ tracked = {}
    /\ flows = [s \in Subject |-> 0]
    /\ drain = FALSE
    /\ announced = {}

----------------------------------------------------------------------------
(* What the tables hold.                                                   *)

HasLeg(p) == legs[p] # NoLeg
Waiting(t) == pending[t] # NoHalf
Joined(t) == bound[t] # NoPair

\* The half-flows of tag t, pending or bound.
HalvesOf(t) ==
    (IF Waiting(t) THEN {pending[t]} ELSE {})
        \cup (IF Joined(t) THEN {bound[t].a, bound[t].b} ELSE {})

FlowsOf(t) == {h.flow : h \in HalvesOf(t)}

HalfFlowCount ==
    Cardinality({t \in Tag : Waiting(t)}) + 2 * Cardinality({t \in Tag : Joined(t)})

\* The flow that f's frames leave on, and the peer they leave to.
Egress(pair, f) == IF pair.a.flow = f THEN pair.b ELSE pair.a
Ingress(pair, f) == IF pair.a.flow = f THEN pair.a ELSE pair.b

\* The first id free at or after nextFlow, ids wrapping from the last to 1.
Distance(f) == (f - nextFlow) % LastFlowId

\* Mutant of Allocated: the counter is taken as it is.
AllocatedBlindly(f) == f = nextFlow

Allocated(f) ==
    /\ byFlow[f] = NoTag
    /\ \A g \in FlowId : Distance(g) < Distance(f) => byFlow[g] # NoTag

Older(age, limit) == IF age < limit THEN age + 1 ELSE age

----------------------------------------------------------------------------
(* The leg registry.                                                       *)

\* A completed handshake from p: a leg is replaced freely and added only
\* under both ceilings.
RoomForLeg(p) ==
    \/ HasLeg(p)
    \/ /\ Cardinality({q \in Peer : HasLeg(q)}) < MaxLegs
       /\ perPrefix[PrefixOf[p]] < MaxPerPrefix

\* Mutant of Counted: a replaced leg counts again.
CountedAgain(p) == [perPrefix EXCEPT ![PrefixOf[p]] = @ + 1]

Counted(p) == [perPrefix EXCEPT ![PrefixOf[p]] = IF HasLeg(p) THEN @ ELSE @ + 1]

Establish(p, k) ==
    /\ RoomForLeg(p)
    /\ legs' = [legs EXCEPT ![p] = [key |-> k, idle |-> 0]]
    /\ perPrefix' = Counted(p)
    /\ UNCHANGED <<pending, bound, byFlow, nextFlow, tracked, flows, drain, announced>>

Touched(p) == [legs EXCEPT ![p].idle = 0]

\* A frame from an established leg that changes nothing else.
Heard(p) ==
    /\ HasLeg(p)
    /\ legs' = Touched(p)
    /\ UNCHANGED <<perPrefix, pending, bound, byFlow, nextFlow, tracked, flows,
                   drain, announced>>

ExpiredLegs == {p \in Peer : HasLeg(p) /\ legs[p].idle >= LegIdle}

CollectLegs ==
    /\ legs' = [p \in Peer |-> IF p \in ExpiredLegs THEN NoLeg ELSE legs[p]]
    /\ perPrefix' = [x \in Prefix |->
            perPrefix[x] - Cardinality({p \in ExpiredLegs : PrefixOf[p] = x})]
    /\ UNCHANGED <<pending, bound, byFlow, nextFlow, tracked, flows, drain, announced>>

----------------------------------------------------------------------------
(* BIND: the limiter admits it, then the table pairs it.                   *)

SubjectFits(s) == s \in tracked \/ Cardinality(tracked) < MaxSubjects
UnderFlowLimit(s) == flows[s] < MaxFlows
TableFull == HalfFlowCount >= MaxHalfFlows

Admits(s, withinRate) == SubjectFits(s) /\ UnderFlowLimit(s) /\ withinRate

\* Mutant of Charged: the flow is admitted and not counted.
ChargedNothing(s) == flows

Charged(s) == [flows EXCEPT ![s] = @ + 1]

NewHalf(p, f) == [flow |-> f, peer |-> p, idle |-> 0]

\* The state a BIND that got past the limiter leaves around the slot.
Charge(p, t, f) ==
    /\ byFlow' = [byFlow EXCEPT ![f] = t]
    /\ nextFlow' = (f % LastFlowId) + 1
    /\ tracked' = tracked \cup {SubjectOf[p]}
    /\ flows' = Charged(SubjectOf[p])
    /\ legs' = Touched(p)
    /\ UNCHANGED <<perPrefix, drain, announced>>

\* The first BIND on a tag: a pending slot.
OpenSlot(p, t, f) ==
    /\ HasLeg(p)
    /\ ~ drain
    /\ Admits(SubjectOf[p], TRUE)
    /\ ~ Joined(t) /\ ~ TableFull /\ ~ Waiting(t)
    /\ Allocated(f)
    /\ pending' = [pending EXCEPT ![t] = NewHalf(p, f)]
    /\ Charge(p, t, f)
    /\ UNCHANGED bound

\* Mutant of JoinSlot: a slot opened before the drain is joined under it.
JoinSlotDraining(p, t, f) ==
    /\ HasLeg(p)
    /\ Admits(SubjectOf[p], TRUE)
    /\ ~ Joined(t) /\ ~ TableFull /\ Waiting(t)
    /\ Allocated(f)
    /\ bound' = [bound EXCEPT ![t] = [a |-> pending[t], b |-> NewHalf(p, f)]]
    /\ pending' = [pending EXCEPT ![t] = NoHalf]
    /\ Charge(p, t, f)

\* The second: the waiting half-flow and the arriving one are joined.
JoinSlot(p, t, f) ==
    /\ HasLeg(p)
    /\ ~ drain
    /\ Admits(SubjectOf[p], TRUE)
    /\ ~ Joined(t) /\ ~ TableFull /\ Waiting(t)
    /\ Allocated(f)
    /\ bound' = [bound EXCEPT ![t] = [a |-> pending[t], b |-> NewHalf(p, f)]]
    /\ pending' = [pending EXCEPT ![t] = NoHalf]
    /\ Charge(p, t, f)

\* Refused once the limiter has charged it, and the charge taken back; an
\* entry that comes back to no flows is dropped.
Released(s) == IF flows[s] = 0 THEN tracked \ {s} ELSE tracked \cup {s}

RefusedByTable(p, t) ==
    /\ Admits(SubjectOf[p], TRUE)
    /\ Joined(t) \/ TableFull
    /\ tracked' = Released(SubjectOf[p])

\* Refused by the limiter, which keeps the entry it created.
RefusedByLimiter(p, withinRate) ==
    /\ ~ Admits(SubjectOf[p], withinRate)
    /\ tracked' = IF SubjectFits(SubjectOf[p]) THEN tracked \cup {SubjectOf[p]} ELSE tracked

RefuseBind(p, t, withinRate) ==
    /\ HasLeg(p)
    /\ \/ drain /\ UNCHANGED tracked
       \/ ~ drain /\ RefusedByLimiter(p, withinRate)
       \/ ~ drain /\ withinRate /\ RefusedByTable(p, t)
    /\ legs' = Touched(p)
    /\ UNCHANGED <<perPrefix, pending, bound, byFlow, nextFlow, flows, drain, announced>>

----------------------------------------------------------------------------
(* DATA.                                                                   *)

\* Mutant of Carries: the frame's source is not compared with the half-flow's.
CarriesAnySource(p, f) ==
    /\ HasLeg(p)
    /\ byFlow[f] # NoTag
    /\ Joined(byFlow[f])
    /\ HasLeg(Egress(bound[byFlow[f]], f).peer)

\* A frame from p on flow f has a way out: f is half of a bound pair, the
\* half is p's own, and the far side still has a leg.
Carries(p, f) ==
    /\ HasLeg(p)
    /\ byFlow[f] # NoTag
    /\ Joined(byFlow[f])
    /\ Ingress(bound[byFlow[f]], f).peer = p
    /\ HasLeg(Egress(bound[byFlow[f]], f).peer)

Active(pair) == [pair EXCEPT !.a.idle = 0, !.b.idle = 0]

Forward(p, f) ==
    /\ Carries(p, f)
    /\ legs' = Touched(p)
    /\ bound' = [bound EXCEPT ![byFlow[f]] = Active(@)]
    /\ UNCHANGED <<perPrefix, pending, byFlow, nextFlow, tracked, flows, drain, announced>>

----------------------------------------------------------------------------
(* Time, the collector, drain and restart.                                 *)

ExpiredSlots == {t \in Tag : Waiting(t) /\ pending[t].idle >= PendingTtl}
ExpiredPairs == {t \in Tag : /\ Joined(t)
                             /\ bound[t].a.idle >= IdleTtl
                             /\ bound[t].b.idle >= IdleTtl}

\* Half-flows are dropped from the table and its index; the limiter is not
\* told.
CollectTable ==
    /\ pending' = [t \in Tag |-> IF t \in ExpiredSlots THEN NoHalf ELSE pending[t]]
    /\ bound' = [t \in Tag |-> IF t \in ExpiredPairs THEN NoPair ELSE bound[t]]
    /\ byFlow' = [f \in FlowId |->
            IF \/ \E t \in ExpiredSlots : f = pending[t].flow
               \/ \E t \in ExpiredPairs : f \in {bound[t].a.flow, bound[t].b.flow}
            THEN NoTag ELSE byFlow[f]]
    /\ UNCHANGED <<legs, perPrefix, nextFlow, tracked, flows, drain, announced>>

BoundFlows == UNION {FlowsOf(t) : t \in {u \in Tag : Joined(u)}}

\* A second call changes nothing.
BeginDrain ==
    /\ ~ drain
    /\ drain' = TRUE
    /\ announced' = BoundFlows
    /\ UNCHANGED <<legs, perPrefix, pending, bound, byFlow, nextFlow, tracked, flows>>

\* The process is replaced: nothing was ever written anywhere.
Restart ==
    /\ legs' = [p \in Peer |-> NoLeg]
    /\ perPrefix' = [x \in Prefix |-> 0]
    /\ pending' = [t \in Tag |-> NoHalf]
    /\ bound' = [t \in Tag |-> NoPair]
    /\ byFlow' = [f \in FlowId |-> NoTag]
    /\ nextFlow' = 1
    /\ tracked' = {}
    /\ flows' = [s \in Subject |-> 0]
    /\ drain' = FALSE
    /\ announced' = {}

AgedHalf(h) == [h EXCEPT !.idle = Older(@, IdleTtl)]

Tick ==
    /\ legs' = [p \in Peer |-> IF HasLeg(p)
                                 THEN [legs[p] EXCEPT !.idle = Older(@, LegIdle)]
                                 ELSE NoLeg]
    /\ pending' = [t \in Tag |-> IF Waiting(t) THEN AgedHalf(pending[t]) ELSE NoHalf]
    /\ bound' = [t \in Tag |-> IF Joined(t)
                                 THEN [a |-> AgedHalf(bound[t].a), b |-> AgedHalf(bound[t].b)]
                                 ELSE NoPair]
    /\ UNCHANGED <<perPrefix, byFlow, nextFlow, tracked, flows, drain, announced>>

TableNext ==
    \/ \E p \in Peer :
        \/ \E k \in Key : Establish(p, k)
        \/ Heard(p)
        \/ \E t \in Tag, f \in FlowId : OpenSlot(p, t, f) \/ JoinSlot(p, t, f)
        \/ \E t \in Tag, withinRate \in BOOLEAN : RefuseBind(p, t, withinRate)
        \/ \E f \in FlowId : Forward(p, f)
    \/ CollectLegs
    \/ CollectTable
    \/ BeginDrain
    \/ Restart
    \/ Tick

TableSpec == Init /\ [][TableNext]_tableVars

----------------------------------------------------------------------------
(* Properties.                                                             *)

\* The index and the table name each other: a flow id is indexed under the
\* one tag that holds it, and no half-flow shares its id with another, across
\* collection, restart and ids wrapping (flow.rs bind, collect,
\* allocate_flow_id).
FlowIndexAgrees ==
    /\ \A t \in Tag, f \in FlowId : byFlow[f] = t <=> f \in FlowsOf(t)
    /\ \A t \in Tag : Joined(t) => ~ Waiting(t) /\ bound[t].a.flow # bound[t].b.flow

\* The per-prefix counts are the legs the registry holds: replacing a leg
\* counts nothing, expiring one gives its place back, and the ceilings hold
\* (leg.rs establish, collect, release_prefix).
PrefixCountsLegs ==
    /\ \A x \in Prefix :
        /\ perPrefix[x] = Cardinality({p \in Peer : HasLeg(p) /\ PrefixOf[p] = x})
        /\ perPrefix[x] <= MaxPerPrefix
    /\ Cardinality({p \in Peer : HasLeg(p)}) <= MaxLegs

\* Every half-flow the relay holds is charged to its subject, so a subject's
\* half-flows never pass the limit the relay enforces on the count, and the
\* table never passes its own (resource.rs admit_bind, release_flow).
HalvesOfSubject(s) ==
    {h \in UNION {HalvesOf(t) : t \in Tag} : SubjectOf[h.peer] = s}
EveryFlowCharged ==
    /\ \A s \in Subject :
        /\ Cardinality(HalvesOfSubject(s)) <= flows[s] /\ flows[s] <= MaxFlows
        /\ flows[s] > 0 => s \in tracked
    /\ HalfFlowCount <= MaxHalfFlows

\* Every flow still bound under a drain was told its deadline (engine.rs
\* begin_drain, bind).
DrainReachesEveryFlow == drain => BoundFlows \subseteq announced
=============================================================================
