------------------------- MODULE RelayService_proof -------------------------
(***************************************************************************)
(* Proofs about the relay.  First its tables alone (RelayTable), for every *)
(* set of peers and tags and every ceiling: the type invariant, the index, *)
(* the drain, the leg counts and the flow accounting.  Then the service    *)
(* with its devices and its network (RelayService), for every set of       *)
(* tokens and keys, every clock and every fault: the service's steps are   *)
(* steps of the tables, so what is proved of the tables holds here; data   *)
(* leaves on its own tag; a live leg is not replaced.                      *)
(***************************************************************************)
EXTENDS RelayService, FiniteSetTheorems, TLAPS

(***************************************************************************)
(* The tables.                                                              *)
(***************************************************************************)

\* What a BIND that got past the limiter does to the table, whichever slot it
\* fills.
Binding(p, t, f) == OpenSlot(p, t, f) \/ JoinSlot(p, t, f)

-----------------------------------------------------------------------------
(* Records of one kind are never the placeholder of that kind.             *)

LEMMA Placeholders ==
    /\ NoHalf \notin Half
    /\ NoPair \notin [a : Half, b : Half]
    /\ NoLeg \notin Leg
<1>1. NoHalf \notin Half
  BY DEF NoHalf, Half, FlowId
<1>2. NoPair \notin [a : Half, b : Half]
  BY <1>1 DEF NoPair
<1>3. NoLeg \notin Leg
  BY RelayConstants DEF NoLeg, Leg
<1> QED
  BY <1>1, <1>2, <1>3

LEMMA NewHalfType == \A p \in Peer, f \in FlowId : NewHalf(p, f) \in Half
  BY RelayConstants DEF NewHalf, Half

LEMMA AgedHalfType ==
    \A h \in Half : /\ AgedHalf(h) \in Half
                    /\ AgedHalf(h).flow = h.flow /\ AgedHalf(h).peer = h.peer
<1> TAKE h \in Half
<1>1. Older(h.idle, IdleTtl) \in 0 .. IdleTtl
  BY RelayConstants DEF Half, Older
<1> QED
  BY <1>1 DEF AgedHalf, Half

LEMMA ActiveType ==
    \A pair \in [a : Half, b : Half] :
        /\ Active(pair) \in [a : Half, b : Half]
        /\ Active(pair).a.flow = pair.a.flow /\ Active(pair).a.peer = pair.a.peer
        /\ Active(pair).b.flow = pair.b.flow /\ Active(pair).b.peer = pair.b.peer
<1> TAKE pair \in [a : Half, b : Half]
<1> DEFINE Reset(h) == [h EXCEPT !.idle = 0]
<1>1. \A h \in Half : /\ Reset(h) \in Half
                      /\ Reset(h).flow = h.flow /\ Reset(h).peer = h.peer
  BY RelayConstants DEF Half
<1>2. Active(pair) = [pair EXCEPT !.a = Reset(pair.a), !.b = Reset(pair.b)]
  BY DEF Active, Half
<1>3. pair.a \in Half /\ pair.b \in Half
  OBVIOUS
<1> HIDE DEF Reset
<1>4. Active(pair).a = Reset(pair.a) /\ Active(pair).b = Reset(pair.b)
  BY <1>2
<1>5. Active(pair) \in [a : Half, b : Half]
  BY <1>1, <1>2, <1>3
<1> QED
  BY <1>1, <1>3, <1>4, <1>5

LEMMA NextFlowType == \A f \in FlowId : (f % LastFlowId) + 1 \in FlowId
<1> TAKE f \in FlowId
<1>1. LastFlowId \in Nat /\ LastFlowId > 0 /\ f \in Int
  BY RelayConstants DEF FlowId
<1>2. f % LastFlowId \in 0 .. LastFlowId - 1
  BY <1>1
<1> QED
  BY <1>1, <1>2 DEF FlowId

LEMMA TouchedType ==
    ASSUME TypeOK, NEW p \in Peer, HasLeg(p)
    PROVE  /\ Touched(p) \in [Peer -> Leg \cup {NoLeg}]
           /\ \A q \in Peer : Touched(p)[q] # NoLeg <=> HasLeg(q)
<1>1. legs[p] \in Leg
  BY DEF TypeOK, HasLeg
<1>2. [legs[p] EXCEPT !.idle = 0] \in Leg
  BY <1>1, RelayConstants DEF Leg
<1> QED
  BY <1>2, Placeholders DEF Touched, TypeOK, HasLeg

-----------------------------------------------------------------------------
(* Type correctness.                                                       *)

LEMMA InitTyped == Init => TypeOK
<1>1. 1 \in FlowId
  BY RelayConstants DEF FlowId
<1>2. Init => drain \in BOOLEAN
  BY DEF Init
<1>3. Init => /\ legs \in [Peer -> Leg \cup {NoLeg}]
              /\ perPrefix \in [Prefix -> Nat]
              /\ pending \in [Tag -> Half \cup {NoHalf}]
              /\ bound \in [Tag -> [a : Half, b : Half] \cup {NoPair}]
              /\ byFlow \in [FlowId -> Tag \cup {NoTag}]
              /\ nextFlow \in FlowId
              /\ tracked \subseteq Subject
              /\ flows \in [Subject -> Nat]
              /\ announced \subseteq FlowId
  BY <1>1 DEF Init
<1> QED
  BY <1>2, <1>3 DEF TypeOK

\* A restart leaves the tables as they are created.
LEMMA RestartIsInit == Restart => Init'
  BY DEF Restart, Init

LEMMA InitTypedNext == Init' => TypeOK'
  BY InitTyped, PTL

LEMMA BindingTyped ==
    ASSUME TypeOK, NEW p \in Peer, NEW t \in Tag, NEW f \in FlowId, Binding(p, t, f)
    PROVE  TypeOK'
<1>1. /\ HasLeg(p) /\ Charge(p, t, f)
      /\ SubjectOf[p] \in Subject /\ NewHalf(p, f) \in Half
  BY NewHalfType, RelayConstants DEF Binding, OpenSlot, JoinSlot
<1>2. /\ legs' \in [Peer -> Leg \cup {NoLeg}]
      /\ perPrefix' \in [Prefix -> Nat]
      /\ byFlow' \in [FlowId -> Tag \cup {NoTag}]
      /\ nextFlow' \in FlowId
      /\ tracked' \subseteq Subject
      /\ flows' \in [Subject -> Nat]
      /\ drain' \in BOOLEAN
      /\ announced' \subseteq FlowId
  BY <1>1, TouchedType, NextFlowType DEF TypeOK, Charge, Charged
<1>3. /\ pending' \in [Tag -> Half \cup {NoHalf}]
      /\ bound' \in [Tag -> [a : Half, b : Half] \cup {NoPair}]
  <2>1. CASE OpenSlot(p, t, f)
    BY <2>1, <1>1 DEF OpenSlot, TypeOK
  <2>2. CASE JoinSlot(p, t, f)
    <3>1. pending[t] \in Half
      BY <2>2 DEF JoinSlot, Waiting, TypeOK
    <3>2. [a |-> pending[t], b |-> NewHalf(p, f)] \in [a : Half, b : Half]
      BY <3>1, <1>1
    <3> QED
      BY <2>2, <3>2 DEF JoinSlot, TypeOK
  <2> QED
    BY <2>1, <2>2 DEF Binding
<1> QED
  BY <1>2, <1>3 DEF TypeOK

(* How the collector moves the leg counts: the legs of x that stay are     *)
(* those it had, less those that expired, so a count never goes under 0.   *)

LegsIn(x) == {p \in Peer : HasLeg(p) /\ PrefixOf[p] = x}
ExpiredIn(x) == {p \in ExpiredLegs : PrefixOf[p] = x}

LEMMA CountedSets ==
    /\ \A x : /\ IsFiniteSet(LegsIn(x)) /\ IsFiniteSet(LegsIn(x)')
              /\ IsFiniteSet(ExpiredIn(x))
              /\ Cardinality(LegsIn(x)) \in Nat /\ Cardinality(LegsIn(x)') \in Nat
              /\ Cardinality(ExpiredIn(x)) \in Nat
    /\ IsFiniteSet({p \in Peer : HasLeg(p)}) /\ IsFiniteSet({p \in Peer : HasLeg(p)'})
    /\ Cardinality({p \in Peer : HasLeg(p)}) \in Nat
    /\ Cardinality({p \in Peer : HasLeg(p)'}) \in Nat
<1>1. \A S : S \subseteq Peer => IsFiniteSet(S) /\ Cardinality(S) \in Nat
  BY FS_Subset, FS_CardinalityType, RelayConstants
<1> QED
  BY <1>1 DEF LegsIn, ExpiredIn, ExpiredLegs

LEMMA CollectCounts ==
    ASSUME TypeOK, PrefixCountsLegs, CollectLegs, NEW x \in Prefix
    PROVE  perPrefix'[x] = Cardinality(LegsIn(x)')
<1>1. \A p \in Peer : HasLeg(p)' <=> HasLeg(p) /\ p \notin ExpiredLegs
  BY DEF CollectLegs, HasLeg, ExpiredLegs
<1>2. LegsIn(x)' = LegsIn(x) \ ExpiredIn(x)
  BY <1>1 DEF LegsIn, ExpiredIn
<1>3. LegsIn(x) \cap ExpiredIn(x) = ExpiredIn(x)
  BY DEF LegsIn, ExpiredIn, ExpiredLegs
<1>4. Cardinality(LegsIn(x)') = Cardinality(LegsIn(x)) - Cardinality(ExpiredIn(x))
  BY <1>2, <1>3, CountedSets, FS_Difference
<1>5. perPrefix[x] = Cardinality(LegsIn(x))
  BY DEF PrefixCountsLegs, LegsIn
<1>6. perPrefix'[x] = perPrefix[x] - Cardinality(ExpiredIn(x))
  BY DEF CollectLegs, ExpiredIn
<1> QED
  BY <1>4, <1>5, <1>6

LEMMA TypeStep ==
    ASSUME TypeOK, PrefixCountsLegs, [TableNext]_tableVars
    PROVE  TypeOK'
<1>1. ASSUME NEW p \in Peer, NEW k \in Key, Establish(p, k)
      PROVE  TypeOK'
  <2>1. PrefixOf[p] \in Prefix /\ perPrefix[PrefixOf[p]] \in Nat
    BY RelayConstants DEF TypeOK
  <2>2. perPrefix' \in [Prefix -> Nat]
    BY <1>1, <2>1 DEF Establish, Counted, TypeOK
  <2>3. [key |-> k, idle |-> 0] \in Leg
    BY RelayConstants DEF Leg
  <2>4. legs' \in [Peer -> Leg \cup {NoLeg}]
    BY <1>1, <2>3 DEF Establish, TypeOK
  <2> QED
    BY <1>1, <2>2, <2>4 DEF Establish, TypeOK
<1>2. ASSUME NEW p \in Peer, Heard(p)
      PROVE  TypeOK'
  BY <1>2, TouchedType DEF Heard, TypeOK
<1>3. ASSUME NEW p \in Peer, NEW t \in Tag, NEW f \in FlowId, Binding(p, t, f)
      PROVE  TypeOK'
  BY <1>3, BindingTyped
<1>4. ASSUME NEW p \in Peer, NEW t \in Tag, NEW withinRate \in BOOLEAN,
             RefuseBind(p, t, withinRate)
      PROVE  TypeOK'
  <2>1. SubjectOf[p] \in Subject
    BY RelayConstants
  <2>2. tracked' \subseteq Subject
    BY <1>4, <2>1 DEF RefuseBind, RefusedByLimiter, RefusedByTable, Released, TypeOK
  <2> QED
    BY <1>4, <2>2, TouchedType DEF RefuseBind, TypeOK
<1>5. ASSUME NEW p \in Peer, NEW f \in FlowId, Forward(p, f)
      PROVE  TypeOK'
  <2>1. byFlow[f] \in Tag /\ HasLeg(p) /\ bound[byFlow[f]] \in [a : Half, b : Half]
    BY <1>5 DEF Forward, Carries, Joined, TypeOK
  <2>2. bound' \in [Tag -> [a : Half, b : Half] \cup {NoPair}]
    BY <1>5, <2>1, ActiveType DEF Forward, TypeOK
  <2> QED
    BY <1>5, <2>1, <2>2, TouchedType DEF Forward, TypeOK
<1>6. ASSUME CollectLegs
      PROVE  TypeOK'
  <2>1. \A x \in Prefix : perPrefix'[x] \in Nat
    BY <1>6, CollectCounts, CountedSets
  <2>2. perPrefix' \in [Prefix -> Nat]
    BY <1>6, <2>1 DEF CollectLegs
  <2>3. legs' \in [Peer -> Leg \cup {NoLeg}]
    BY <1>6 DEF CollectLegs, TypeOK
  <2> QED
    BY <1>6, <2>2, <2>3 DEF CollectLegs, TypeOK
<1>7. ASSUME CollectTable
      PROVE  TypeOK'
  BY <1>7, Zenon DEF CollectTable, TypeOK
<1>8. ASSUME BeginDrain
      PROVE  TypeOK'
  <2>1. \A t \in Tag : FlowsOf(t) \subseteq FlowId
    BY DEF FlowsOf, HalvesOf, Waiting, Joined, TypeOK, Half
  <2>2. announced' \subseteq FlowId
    BY <1>8, <2>1 DEF BeginDrain, BoundFlows
  <2>3. drain' \in BOOLEAN
    BY <1>8 DEF BeginDrain
  <2> QED
    BY <1>8, <2>2, <2>3 DEF BeginDrain, TypeOK
<1>9. ASSUME Restart
      PROVE  TypeOK'
  BY <1>9, RestartIsInit, InitTypedNext
<1>10. ASSUME Tick
       PROVE  TypeOK'
  <2>1. \A p \in Peer : HasLeg(p) => [legs[p] EXCEPT !.idle = Older(@, LegIdle)] \in Leg
    BY RelayConstants DEF HasLeg, TypeOK, Leg, Older
  <2>2. \A t \in Tag : Waiting(t) => AgedHalf(pending[t]) \in Half
    BY AgedHalfType DEF Waiting, TypeOK
  <2>3. \A t \in Tag : Joined(t) =>
            [a |-> AgedHalf(bound[t].a), b |-> AgedHalf(bound[t].b)] \in [a : Half, b : Half]
    BY AgedHalfType DEF Joined, TypeOK
  <2> QED
    BY <1>10, <2>1, <2>2, <2>3 DEF Tick, TypeOK
<1>11. ASSUME UNCHANGED tableVars
       PROVE  TypeOK'
  BY <1>11 DEF tableVars, TypeOK
<1> QED
  BY <1>1, <1>2, <1>3, <1>4, <1>5, <1>6, <1>7, <1>8, <1>9, <1>10, <1>11
     DEF TableNext, Binding

-----------------------------------------------------------------------------
(* The legs and their counts.                                              *)

LEMMA InitCounts == Init => PrefixCountsLegs
<1> SUFFICES ASSUME Init
             PROVE  PrefixCountsLegs
  OBVIOUS
<1>1. {p \in Peer : HasLeg(p)} = {}
  BY DEF Init, HasLeg
<1>2. \A x \in Prefix : {p \in Peer : HasLeg(p) /\ PrefixOf[p] = x} = {} /\ perPrefix[x] = 0
  BY <1>1 DEF Init
<1> QED
  BY <1>1, <1>2, FS_EmptySet, RelayConstants DEF PrefixCountsLegs

LEMMA InitCountsNext == Init' => PrefixCountsLegs'
  BY InitCounts, PTL

\* The same peers have a leg after the step, and the counts did not move.
LEMMA SameLegs ==
    ASSUME PrefixCountsLegs, \A p \in Peer : HasLeg(p)' <=> HasLeg(p),
           UNCHANGED perPrefix
    PROVE  PrefixCountsLegs'
<1>1. {p \in Peer : HasLeg(p)'} = {p \in Peer : HasLeg(p)}
  OBVIOUS
<1>2. \A x : LegsIn(x)' = LegsIn(x)
  BY DEF LegsIn
<1> QED
  BY <1>1, <1>2 DEF PrefixCountsLegs, LegsIn

LEMMA TouchedKeepsLegs ==
    ASSUME TypeOK, NEW p \in Peer, HasLeg(p), legs' = Touched(p)
    PROVE  \A q \in Peer : HasLeg(q)' <=> HasLeg(q)
  BY TouchedType DEF HasLeg

\* A new leg is counted in its own prefix once, under both ceilings.
LEMMA EstablishCounts ==
    ASSUME TypeOK, PrefixCountsLegs, NEW p \in Peer, NEW k \in Key, Establish(p, k)
    PROVE  PrefixCountsLegs'
<1> DEFINE All == {q \in Peer : HasLeg(q)}
           x0 == PrefixOf[p]
<1>1. \A q \in Peer : HasLeg(q)' <=> HasLeg(q) \/ q = p
  <2>1. [key |-> k, idle |-> 0] # NoLeg
    BY RelayConstants DEF NoLeg
  <2> QED
    BY <2>1 DEF Establish, HasLeg, TypeOK
<1>2. CASE HasLeg(p)
  <2>1. perPrefix' = perPrefix
    BY <1>2 DEF Establish, Counted, TypeOK
  <2> QED
    BY <1>1, <1>2, <2>1, SameLegs
<1>3. CASE ~ HasLeg(p)
  <2>1. All' = All \cup {p} /\ p \notin All
    BY <1>1, <1>3
  <2>2. LegsIn(x0)' = LegsIn(x0) \cup {p} /\ p \notin LegsIn(x0)
    BY <1>1, <1>3 DEF LegsIn
  <2>3. \A x \in Prefix \ {x0} : LegsIn(x)' = LegsIn(x)
    BY <1>1 DEF LegsIn
  <2>4. Cardinality(All') = Cardinality(All) + 1 /\ Cardinality(All) < MaxLegs
    BY <2>1, <1>3, CountedSets, FS_AddElement DEF Establish, RoomForLeg
  <2>5. Cardinality(LegsIn(x0)') = Cardinality(LegsIn(x0)) + 1
    BY <2>2, CountedSets, FS_AddElement
  <2>6. /\ x0 \in Prefix /\ perPrefix[x0] < MaxPerPrefix
        /\ perPrefix' = [perPrefix EXCEPT ![x0] = perPrefix[x0] + 1]
    BY <1>3, RelayConstants DEF Establish, RoomForLeg, Counted
  <2>7. \A x \in Prefix : perPrefix[x] = Cardinality(LegsIn(x)) /\ perPrefix[x] <= MaxPerPrefix
    BY DEF PrefixCountsLegs, LegsIn
  <2>8. \A x \in Prefix : perPrefix'[x] = Cardinality(LegsIn(x)') /\ perPrefix'[x] <= MaxPerPrefix
    BY <2>3, <2>5, <2>6, <2>7, RelayConstants DEF TypeOK
  <2> QED
    BY <2>4, <2>8, CountedSets, RelayConstants DEF PrefixCountsLegs, LegsIn
<1> QED
  BY <1>2, <1>3

LEMMA CollectKeepsCounts ==
    ASSUME TypeOK, PrefixCountsLegs, CollectLegs
    PROVE  PrefixCountsLegs'
<1>1. \A p \in Peer : HasLeg(p)' => HasLeg(p)
  BY DEF CollectLegs, HasLeg, ExpiredLegs
<1>2. Cardinality({p \in Peer : HasLeg(p)'}) <= Cardinality({p \in Peer : HasLeg(p)})
  BY <1>1, CountedSets, FS_Subset
<1>3. \A x \in Prefix : Cardinality(LegsIn(x)') <= Cardinality(LegsIn(x))
  BY <1>1, CountedSets, FS_Subset DEF LegsIn
<1>4. \A x \in Prefix : perPrefix[x] = Cardinality(LegsIn(x)) /\ perPrefix[x] <= MaxPerPrefix
  BY DEF PrefixCountsLegs, LegsIn
<1>5. \A x \in Prefix : perPrefix'[x] = Cardinality(LegsIn(x)') /\ perPrefix'[x] <= MaxPerPrefix
  BY <1>3, <1>4, CollectCounts, CountedSets, RelayConstants
<1> QED
  BY <1>2, <1>5, CountedSets, RelayConstants DEF PrefixCountsLegs, LegsIn

LEMMA CountsStep ==
    ASSUME TypeOK, PrefixCountsLegs, [TableNext]_tableVars
    PROVE  PrefixCountsLegs'
<1>1. ASSUME NEW p \in Peer, NEW k \in Key, Establish(p, k)
      PROVE  PrefixCountsLegs'
  BY <1>1, EstablishCounts
<1>2. ASSUME NEW p \in Peer, Heard(p)
      PROVE  PrefixCountsLegs'
  BY <1>2, TouchedKeepsLegs, SameLegs DEF Heard
<1>3. ASSUME NEW p \in Peer, NEW t \in Tag, NEW f \in FlowId, Binding(p, t, f)
      PROVE  PrefixCountsLegs'
  BY <1>3, TouchedKeepsLegs, SameLegs DEF Binding, OpenSlot, JoinSlot, Charge
<1>4. ASSUME NEW p \in Peer, NEW t \in Tag, NEW withinRate \in BOOLEAN,
             RefuseBind(p, t, withinRate)
      PROVE  PrefixCountsLegs'
  BY <1>4, TouchedKeepsLegs, SameLegs DEF RefuseBind
<1>5. ASSUME NEW p \in Peer, NEW f \in FlowId, Forward(p, f)
      PROVE  PrefixCountsLegs'
  BY <1>5, TouchedKeepsLegs, SameLegs DEF Forward, Carries
<1>6. ASSUME CollectLegs
      PROVE  PrefixCountsLegs'
  BY <1>6, CollectKeepsCounts
<1>7. ASSUME CollectTable \/ BeginDrain \/ UNCHANGED tableVars
      PROVE  PrefixCountsLegs'
  BY <1>7, SameLegs DEF CollectTable, BeginDrain, tableVars, HasLeg
<1>8. ASSUME Restart
      PROVE  PrefixCountsLegs'
  BY <1>8, RestartIsInit, InitCountsNext
<1>9. ASSUME Tick
      PROVE  PrefixCountsLegs'
  <2>1. \A p \in Peer : HasLeg(p) => [legs[p] EXCEPT !.idle = Older(@, LegIdle)] \in Leg
    BY RelayConstants DEF HasLeg, TypeOK, Leg, Older
  <2>2. \A p \in Peer : HasLeg(p)' <=> HasLeg(p)
    BY <1>9, <2>1, Placeholders DEF Tick, HasLeg
  <2> QED
    BY <1>9, <2>2, SameLegs DEF Tick
<1> QED
  BY <1>1, <1>2, <1>3, <1>4, <1>5, <1>6, <1>7, <1>8, <1>9 DEF TableNext, Binding

\* No table ever holds anything but what its type says.
THEOREM TableTypeCorrect == TableSpec => []TypeOK
  BY InitTyped, InitCounts, TypeStep, CountsStep, PTL DEF TableSpec

\* The per-prefix counts are the legs the registry holds, and both ceilings
\* hold, however handshakes, collections and restarts interleave (leg.rs
\* establish, collect, release_prefix).
THEOREM PrefixCountsLegsAlways == TableSpec => []PrefixCountsLegs
  BY InitTyped, InitCounts, TypeStep, CountsStep, PTL DEF TableSpec

-----------------------------------------------------------------------------
(* The flow index.  Whether a tag holds a flow is read off its slot and its *)
(* pair; a step is judged by what it does to that and to byFlow.           *)

HeldWaiting(t, f) == Waiting(t) /\ pending[t].flow = f
HeldJoined(t, f) == Joined(t) /\ f \in {bound[t].a.flow, bound[t].b.flow}
Held(t, f) == HeldWaiting(t, f) \/ HeldJoined(t, f)

\* A tag is waiting or joined, never both, and its halves' flows differ.
OneState ==
    \A t \in Tag : Joined(t) => ~ Waiting(t) /\ bound[t].a.flow # bound[t].b.flow

LEMMA FlowsAreHeld ==
    /\ \A t, f : f \in FlowsOf(t) <=> Held(t, f)
    /\ \A t, f : f \in FlowsOf(t)' <=> Held(t, f)'
  BY DEF FlowsOf, HalvesOf, Held, HeldWaiting, HeldJoined

LEMMA IndexByHeld ==
    /\ FlowIndexAgrees <=> OneState /\ \A t \in Tag, f \in FlowId : byFlow[f] = t <=> Held(t, f)
    /\ FlowIndexAgrees' <=>
        OneState' /\ \A t \in Tag, f \in FlowId : byFlow'[f] = t <=> Held(t, f)'
  BY FlowsAreHeld DEF FlowIndexAgrees, OneState

LEMMA HeldFlowType ==
    ASSUME TypeOK, NEW t \in Tag, NEW f, Held(t, f)
    PROVE  f \in FlowId
  BY DEF TypeOK, Held, HeldWaiting, HeldJoined, Waiting, Joined, Half

LEMMA InitIndex == Init => FlowIndexAgrees
<1>1. Init => OneState /\ \A t \in Tag, f \in FlowId : byFlow[f] # t /\ ~ Held(t, f)
  BY RelayConstants DEF Init, OneState, Held, HeldWaiting, HeldJoined, Waiting, Joined
<1> QED
  BY <1>1, IndexByHeld

LEMMA InitIndexNext == Init' => FlowIndexAgrees'
  BY InitIndex, PTL

\* Peer p's half-flow f is in the slot or the pair of t.
HalfHeld(t, f, p) ==
    \/ Waiting(t) /\ pending[t].flow = f /\ pending[t].peer = p
    \/ Joined(t) /\ bound[t].a.flow = f /\ bound[t].a.peer = p
    \/ Joined(t) /\ bound[t].b.flow = f /\ bound[t].b.peer = p

LEMMA HeldByAPeer ==
    /\ TypeOK => \A t \in Tag : \A f : Held(t, f) <=> \E p \in Peer : HalfHeld(t, f, p)
    /\ TypeOK' => \A t \in Tag : \A f : Held(t, f)' <=> \E p \in Peer : HalfHeld(t, f, p)'
<1>1. ASSUME TypeOK, NEW t \in Tag, NEW f
      PROVE  Held(t, f) <=> \E p \in Peer : HalfHeld(t, f, p)
  BY <1>1 DEF TypeOK, Held, HeldWaiting, HeldJoined, Waiting, Joined, HalfHeld, Half
<1>2. ASSUME TypeOK', NEW t \in Tag, NEW f
      PROVE  Held(t, f)' <=> \E p \in Peer : HalfHeld(t, f, p)'
  BY <1>2 DEF TypeOK, Held, HeldWaiting, HeldJoined, Waiting, Joined, HalfHeld, Half
<1> QED
  BY <1>1, <1>2

\* A step that leaves every half-flow where it is, and the index.
KeepsHalves ==
    /\ UNCHANGED byFlow
    /\ \A t \in Tag :
        /\ Waiting(t)' <=> Waiting(t)
        /\ Joined(t)' <=> Joined(t)
        /\ Waiting(t) => /\ pending'[t].flow = pending[t].flow
                         /\ pending'[t].peer = pending[t].peer
        /\ Joined(t) => /\ bound'[t].a.flow = bound[t].a.flow
                        /\ bound'[t].a.peer = bound[t].a.peer
                        /\ bound'[t].b.flow = bound[t].b.flow
                        /\ bound'[t].b.peer = bound[t].b.peer

LEMMA KeptHalves ==
    ASSUME KeepsHalves
    PROVE  /\ \A t \in Tag : \A f : Held(t, f)' <=> Held(t, f)
           /\ \A t \in Tag : \A f, p : HalfHeld(t, f, p)' <=> HalfHeld(t, f, p)
  BY DEF KeepsHalves, Held, HeldWaiting, HeldJoined, HalfHeld

LEMMA KeptIndex ==
    ASSUME FlowIndexAgrees, KeepsHalves
    PROVE  FlowIndexAgrees'
<1>1. OneState'
  BY IndexByHeld DEF OneState, KeepsHalves
<1> QED
  BY <1>1, KeptHalves, IndexByHeld DEF KeepsHalves

LEMMA BindingIndexes ==
    ASSUME TypeOK, FlowIndexAgrees,
           NEW p \in Peer, NEW t \in Tag, NEW f \in FlowId, Binding(p, t, f)
    PROVE  /\ FlowIndexAgrees'
           /\ \A u \in Tag : \A g, q :
                HalfHeld(u, g, q)' <=> HalfHeld(u, g, q) \/ (u = t /\ g = f /\ q = p)
<1>1. /\ NewHalf(p, f) \in Half /\ NewHalf(p, f) # NoHalf
      /\ NewHalf(p, f).flow = f /\ NewHalf(p, f).peer = p
      /\ NoHalf \notin Half /\ NoPair \notin [a : Half, b : Half]
  BY NewHalfType, Placeholders DEF NewHalf
<1>2. \A u \in Tag : ~ Held(u, f)
  BY IndexByHeld, RelayConstants DEF Binding, OpenSlot, JoinSlot, Allocated
<1>3. ~ Joined(t) /\ byFlow' = [byFlow EXCEPT ![f] = t]
  BY DEF Binding, OpenSlot, JoinSlot, Charge
<1>4. /\ OneState'
      /\ \A u \in Tag : \A g : Held(u, g)' <=> Held(u, g) \/ (u = t /\ g = f)
      /\ \A u \in Tag : \A g, q :
            HalfHeld(u, g, q)' <=> HalfHeld(u, g, q) \/ (u = t /\ g = f /\ q = p)
  <2>1. CASE OpenSlot(p, t, f)
    <3>1. /\ pending' = [pending EXCEPT ![t] = NewHalf(p, f)] /\ bound' = bound
          /\ ~ Waiting(t)
      BY <2>1 DEF OpenSlot
    <3> QED
      BY <1>1, <1>3, <3>1, IndexByHeld
         DEF TypeOK, OneState, Held, HeldWaiting, HeldJoined, HalfHeld, Waiting, Joined
  <2>2. CASE JoinSlot(p, t, f)
    <3> DEFINE pair == [a |-> pending[t], b |-> NewHalf(p, f)]
    <3>1. /\ pending' = [pending EXCEPT ![t] = NoHalf] /\ bound' = [bound EXCEPT ![t] = pair]
          /\ Waiting(t)
      BY <2>2 DEF JoinSlot
    <3>2. pair \in [a : Half, b : Half] /\ pair # NoPair /\ pending[t].flow # f
      BY <1>1, <1>2, <3>1 DEF TypeOK, Waiting, Held, HeldWaiting
    <3>3. \A u \in Tag \ {t} : /\ pending'[u] = pending[u] /\ bound'[u] = bound[u]
      BY <3>1 DEF TypeOK
    <3>4. pending'[t] = NoHalf /\ bound'[t] = pair
      BY <3>1 DEF TypeOK
    <3>5. /\ pair.a.flow = pending[t].flow /\ pair.a.peer = pending[t].peer
          /\ pair.b.flow = f /\ pair.b.peer = p
      BY <1>1
    <3> HIDE DEF pair
    <3> QED
      BY <1>3, <3>1, <3>2, <3>3, <3>4, <3>5, IndexByHeld
         DEF OneState, Held, HeldWaiting, HeldJoined, HalfHeld, Waiting, Joined
  <2> QED
    BY <2>1, <2>2 DEF Binding
<1>5. \A u \in Tag, g \in FlowId : byFlow'[g] = u <=> Held(u, g)'
  BY <1>2, <1>3, <1>4, IndexByHeld DEF TypeOK
<1> QED
  BY <1>4, <1>5, IndexByHeld

LEMMA ForwardKeeps ==
    ASSUME TypeOK, NEW p \in Peer, NEW f \in FlowId, Forward(p, f)
    PROVE  KeepsHalves
<1>1. byFlow[f] \in Tag /\ bound[byFlow[f]] \in [a : Half, b : Half]
  BY DEF Forward, Carries, Joined, TypeOK
<1>2. /\ bound' = [bound EXCEPT ![byFlow[f]] = Active(bound[byFlow[f]])]
      /\ UNCHANGED <<pending, byFlow>>
  BY DEF Forward
<1>3. Active(bound[byFlow[f]]) # NoPair
  BY <1>1, ActiveType, Placeholders
<1>4. bound'[byFlow[f]] = Active(bound[byFlow[f]]) /\ Joined(byFlow[f])
  BY <1>1, <1>2 DEF TypeOK, Forward, Carries
<1>5. \A t \in Tag : t # byFlow[f] => bound'[t] = bound[t]
  BY <1>1, <1>2 DEF TypeOK
<1> QED
  BY <1>1, <1>2, <1>3, <1>4, <1>5, ActiveType DEF Waiting, Joined, KeepsHalves

LEMMA TickKeeps ==
    ASSUME TypeOK, Tick
    PROVE  KeepsHalves
<1>1. \A t \in Tag : /\ Waiting(t) => pending[t] \in Half
                     /\ Joined(t) => bound[t].a \in Half /\ bound[t].b \in Half
  BY DEF TypeOK, Waiting, Joined
<1>2. \A t \in Tag : Waiting(t) => /\ pending'[t] = AgedHalf(pending[t])
                                   /\ AgedHalf(pending[t]) \in Half
  BY <1>1, AgedHalfType DEF Tick
<1>3. \A t \in Tag : Joined(t) => /\ bound'[t].a = AgedHalf(bound[t].a)
                                  /\ bound'[t].b = AgedHalf(bound[t].b)
                                  /\ AgedHalf(bound[t].a) \in Half
  BY <1>1, AgedHalfType DEF Tick
<1>4. \A t \in Tag : /\ Waiting(t)' <=> Waiting(t)
                     /\ Joined(t)' <=> Joined(t)
  BY <1>2, <1>3, Placeholders DEF Tick, Waiting, Joined, NoPair
<1> QED
  BY <1>1, <1>2, <1>3, <1>4, AgedHalfType DEF Tick, KeepsHalves

LEMMA OthersKeep ==
    ASSUME \/ \E p \in Peer, k \in Key : Establish(p, k)
           \/ \E p \in Peer : Heard(p)
           \/ \E p \in Peer, t \in Tag, withinRate \in BOOLEAN : RefuseBind(p, t, withinRate)
           \/ CollectLegs \/ BeginDrain \/ UNCHANGED tableVars
    PROVE  UNCHANGED <<pending, bound, byFlow, flows>> /\ KeepsHalves
<1>1. UNCHANGED <<pending, bound, byFlow, flows>>
  BY DEF Establish, Heard, RefuseBind, CollectLegs, BeginDrain, tableVars
<1> QED
  BY <1>1 DEF KeepsHalves, Waiting, Joined

\* The collector drops a slot or a pair together with its flows' entries.
LEMMA CollectIndexes ==
    ASSUME TypeOK, FlowIndexAgrees, CollectTable
    PROVE  /\ FlowIndexAgrees'
           /\ \A t \in Tag : \A f : Held(t, f)' => Held(t, f)
           /\ \A t \in Tag : \A f, p : HalfHeld(t, f, p)' => HalfHeld(t, f, p)
           /\ \A t \in Tag : /\ Waiting(t)' => Waiting(t)
                             /\ Joined(t)' => Joined(t) /\ bound'[t] = bound[t]
<1> DEFINE Dropped(t) == t \in ExpiredSlots \/ t \in ExpiredPairs
<1>1. \A t \in Tag : /\ Waiting(t)' <=> Waiting(t) /\ ~ Dropped(t)
                     /\ Joined(t)' <=> Joined(t) /\ ~ Dropped(t)
                     /\ Waiting(t)' => pending'[t] = pending[t]
                     /\ Joined(t)' => bound'[t] = bound[t]
  BY IndexByHeld DEF CollectTable, Waiting, Joined, OneState, ExpiredSlots, ExpiredPairs
<1>2. \A t \in Tag : \A f : Held(t, f)' <=> Held(t, f) /\ ~ Dropped(t)
  BY <1>1 DEF Held, HeldWaiting, HeldJoined
<1>3. \A f \in FlowId : byFlow'[f] =
        IF \E t \in Tag : Dropped(t) /\ Held(t, f) THEN NoTag ELSE byFlow[f]
  BY IndexByHeld DEF CollectTable, OneState, ExpiredSlots, ExpiredPairs, Held, HeldWaiting, HeldJoined
<1>4. OneState'
  BY <1>1, IndexByHeld DEF OneState
<1>5. \A t \in Tag : \A f, p : HalfHeld(t, f, p)' => HalfHeld(t, f, p)
  BY <1>1 DEF HalfHeld
<1> HIDE DEF Dropped
<1>6. \A t \in Tag, f \in FlowId : byFlow'[f] = t <=> Held(t, f)'
  BY <1>2, <1>3, IndexByHeld, RelayConstants
<1> QED
  BY <1>1, <1>2, <1>4, <1>5, <1>6, IndexByHeld

LEMMA IndexStep ==
    ASSUME TypeOK, FlowIndexAgrees, [TableNext]_tableVars
    PROVE  FlowIndexAgrees'
<1>1. ASSUME NEW p \in Peer, NEW t \in Tag, NEW f \in FlowId, Binding(p, t, f)
      PROVE  FlowIndexAgrees'
  BY <1>1, BindingIndexes
<1>2. ASSUME NEW p \in Peer, NEW f \in FlowId, Forward(p, f)
      PROVE  FlowIndexAgrees'
  BY <1>2, ForwardKeeps, KeptIndex
<1>3. CASE Tick
  BY <1>3, TickKeeps, KeptIndex
<1>4. CASE CollectTable
  BY <1>4, CollectIndexes
<1>5. CASE Restart
  BY <1>5, RestartIsInit, InitIndexNext
<1>6. CASE \/ \E p \in Peer, k \in Key : Establish(p, k)
           \/ \E p \in Peer : Heard(p)
           \/ \E p \in Peer, t \in Tag, withinRate \in BOOLEAN : RefuseBind(p, t, withinRate)
           \/ CollectLegs \/ BeginDrain \/ UNCHANGED tableVars
  BY <1>6, OthersKeep, KeptIndex
<1> QED
  BY <1>1, <1>2, <1>3, <1>4, <1>5, <1>6 DEF TableNext, Binding

\* The index and the table name each other, and no two half-flows share an id,
\* across allocation, joining, collection, restart and ids wrapping (flow.rs
\* bind, collect, allocate_flow_id).
THEOREM FlowIndexAgreesAlways == TableSpec => []FlowIndexAgrees
<1>1. Init => TypeOK /\ PrefixCountsLegs /\ FlowIndexAgrees
  BY InitTyped, InitCounts, InitIndex
<1>2. /\ TypeOK /\ PrefixCountsLegs /\ FlowIndexAgrees /\ [TableNext]_tableVars
      => (TypeOK /\ PrefixCountsLegs /\ FlowIndexAgrees)'
  BY TypeStep, CountsStep, IndexStep
<1> QED
  BY <1>1, <1>2, PTL DEF TableSpec

-----------------------------------------------------------------------------
(* The drain.                                                              *)

LEMMA BoundFlowsAreHeld ==
    /\ \A f : f \in BoundFlows <=> \E t \in Tag : Joined(t) /\ Held(t, f)
    /\ \A f : f \in BoundFlows' <=> \E t \in Tag : Joined(t)' /\ Held(t, f)'
  BY FlowsAreHeld DEF BoundFlows

\* No new pair and no new flow in one: what is announced stays enough.
LEMMA FewerBound ==
    ASSUME DrainReachesEveryFlow, UNCHANGED <<drain, announced>>,
           \A t \in Tag : \A f : Joined(t)' /\ Held(t, f)' => Joined(t) /\ Held(t, f)
    PROVE  DrainReachesEveryFlow'
  BY BoundFlowsAreHeld DEF DrainReachesEveryFlow

LEMMA DrainStep ==
    ASSUME TypeOK, FlowIndexAgrees, DrainReachesEveryFlow, [TableNext]_tableVars
    PROVE  DrainReachesEveryFlow'
<1>1. ASSUME NEW p \in Peer, NEW t \in Tag, NEW f \in FlowId, Binding(p, t, f)
      PROVE  DrainReachesEveryFlow'
  BY <1>1 DEF Binding, OpenSlot, JoinSlot, Charge, DrainReachesEveryFlow
<1>2. CASE BeginDrain
  <2>1. BoundFlows' = BoundFlows
    BY <1>2 DEF BeginDrain, BoundFlows, FlowsOf, HalvesOf, Waiting, Joined
  <2> QED
    BY <1>2, <2>1 DEF BeginDrain, DrainReachesEveryFlow
<1>3. CASE Restart
  BY <1>3 DEF Restart, DrainReachesEveryFlow
<1>4. CASE CollectTable
  <2>1. \A t \in Tag : \A f : Joined(t)' /\ Held(t, f)' => Joined(t) /\ Held(t, f)
    <3>1. \A t \in Tag : \A f : Held(t, f)' => Held(t, f)
      BY <1>4, CollectIndexes
    <3>2. \A t \in Tag : Joined(t)' => Joined(t)
      BY <1>4, CollectIndexes
    <3> QED
      BY <3>1, <3>2
  <2> QED
    BY <1>4, <2>1, FewerBound DEF CollectTable
<1>5. ASSUME KeepsHalves, UNCHANGED <<drain, announced>>
      PROVE  DrainReachesEveryFlow'
  BY <1>5, KeptHalves, FewerBound DEF KeepsHalves
<1>6. ASSUME NEW p \in Peer, NEW f \in FlowId, Forward(p, f)
      PROVE  DrainReachesEveryFlow'
  BY <1>5, <1>6, ForwardKeeps DEF Forward
<1>7. CASE Tick
  BY <1>5, <1>7, TickKeeps DEF Tick
<1>8. CASE \/ \E p \in Peer, k \in Key : Establish(p, k)
           \/ \E p \in Peer : Heard(p)
           \/ \E p \in Peer, t \in Tag, withinRate \in BOOLEAN : RefuseBind(p, t, withinRate)
           \/ CollectLegs \/ UNCHANGED tableVars
  <2>1. UNCHANGED <<drain, announced>>
    BY <1>8 DEF Establish, Heard, RefuseBind, CollectLegs, tableVars
  <2> QED
    BY <1>5, <1>8, <2>1, OthersKeep
<1> QED
  BY <1>1, <1>2, <1>3, <1>4, <1>6, <1>7, <1>8 DEF TableNext, Binding

\* Every flow still bound under a drain was announced it, whatever was joined,
\* collected or refused since it began (engine.rs begin_drain, bind).
THEOREM DrainReachesEveryFlowAlways == TableSpec => []DrainReachesEveryFlow
<1>1. Init => DrainReachesEveryFlow
  BY DEF Init, DrainReachesEveryFlow
<1>2. /\ TypeOK /\ FlowIndexAgrees /\ DrainReachesEveryFlow /\ [TableNext]_tableVars
      => DrainReachesEveryFlow'
  BY DrainStep
<1> QED
  BY <1>1, <1>2, TableTypeCorrect, FlowIndexAgreesAlways, PTL DEF TableSpec

-----------------------------------------------------------------------------
(* The accounting.  Two halves never share a flow, so a subject's halves   *)
(* are counted by the flows they hold.                                     *)

FlowsOfSubject(s) ==
    {f \in FlowId : \E t \in Tag, p \in Peer : HalfHeld(t, f, p) /\ SubjectOf[p] = s}

LEMMA FlowSetsFinite ==
    \A S : S \subseteq FlowId => IsFiniteSet(S) /\ Cardinality(S) \in Nat
<1>1. IsFiniteSet(FlowId)
  BY FS_Interval, RelayConstants DEF FlowId
<1> QED
  BY <1>1, FS_Subset, FS_CardinalityType

LEMMA TagSetsFinite ==
    \A S : S \subseteq Tag => IsFiniteSet(S) /\ Cardinality(S) \in Nat
  BY FS_Subset, FS_CardinalityType, RelayConstants

LEMMA HalvesCountedByFlow ==
    ASSUME TypeOK, FlowIndexAgrees, NEW s \in Subject
    PROVE  /\ IsFiniteSet(HalvesOfSubject(s))
           /\ Cardinality(HalvesOfSubject(s)) <= Cardinality(FlowsOfSubject(s))
<1> DEFINE H == HalvesOfSubject(s)
           F == FlowsOfSubject(s)
           g == [h \in H |-> h.flow]
<1>1. \A h \in H : \E t \in Tag : h \in HalvesOf(t) /\ SubjectOf[h.peer] = s
  BY DEF HalvesOfSubject
<1>2. \A t \in Tag : \A h \in HalvesOf(t) : h \in Half /\ HalfHeld(t, h.flow, h.peer)
  BY DEF HalvesOf, HalfHeld, TypeOK, Waiting, Joined
<1>3. \A h \in H : h.flow \in F
  BY <1>1, <1>2 DEF FlowsOfSubject, Half
<1>4. \A t \in Tag : \A h \in HalvesOf(t) : Held(t, h.flow)
  BY DEF HalvesOf, Held, HeldWaiting, HeldJoined
<1>5. \A t, u \in Tag : \A h \in HalvesOf(t), j \in HalvesOf(u) : h.flow = j.flow => t = u
  BY <1>2, <1>4, IndexByHeld DEF Half
<1>6. \A t \in Tag : \A h, j \in HalvesOf(t) : h.flow = j.flow => h = j
  BY IndexByHeld DEF HalvesOf, OneState
<1>7. \A h, j \in H : h.flow = j.flow => h = j
  BY <1>1, <1>5, <1>6
<1>8. g \in Injection(H, F)
  BY <1>3, <1>7 DEF Injection, IsInjective
<1>9. F \subseteq FlowId
  BY DEF FlowsOfSubject
<1> HIDE DEF H, F, g
<1>10. IsFiniteSet(F)
  BY <1>9, FlowSetsFinite
<1>11. IsFiniteSet(H) /\ Cardinality(H) <= Cardinality(F)
  BY <1>8, <1>10, FS_Injection
<1> QED
  BY <1>11 DEF H, F

\* What the accounting keeps: by flows for each subject, and of the whole table.
Charges ==
    /\ \A s \in Subject : /\ Cardinality(FlowsOfSubject(s)) <= flows[s]
                          /\ flows[s] <= MaxFlows
                          /\ flows[s] > 0 => s \in tracked
    /\ HalfFlowCount <= MaxHalfFlows

LEMMA ChargesEveryFlow ==
    ASSUME TypeOK, FlowIndexAgrees, Charges
    PROVE  EveryFlowCharged
<1>1. ASSUME NEW s \in Subject
      PROVE  /\ Cardinality(HalvesOfSubject(s)) <= flows[s]
             /\ flows[s] <= MaxFlows /\ (flows[s] > 0 => s \in tracked)
  <2>1. /\ IsFiniteSet(HalvesOfSubject(s))
        /\ Cardinality(HalvesOfSubject(s)) <= Cardinality(FlowsOfSubject(s))
    BY HalvesCountedByFlow
  <2>2. Cardinality(HalvesOfSubject(s)) \in Nat
    BY <2>1, FS_CardinalityType
  <2>3. Cardinality(FlowsOfSubject(s)) \in Nat
    BY FlowSetsFinite DEF FlowsOfSubject
  <2> QED
    BY <2>1, <2>2, <2>3 DEF Charges, TypeOK
<1> QED
  BY <1>1 DEF EveryFlowCharged, Charges

LEMMA InitCharges == Init => Charges
<1> SUFFICES ASSUME Init
             PROVE  Charges
  OBVIOUS
<1>1. \A t \in Tag : ~ Waiting(t) /\ ~ Joined(t)
  BY DEF Init, Waiting, Joined
<1>2. \A s : FlowsOfSubject(s) = {}
  BY <1>1 DEF FlowsOfSubject, HalfHeld
<1>3. {t \in Tag : Waiting(t)} = {} /\ {t \in Tag : Joined(t)} = {}
  BY <1>1
<1>4. HalfFlowCount = 0 + 2 * 0
  BY <1>3, FS_EmptySet DEF HalfFlowCount
<1>5. HalfFlowCount <= MaxHalfFlows
  BY <1>4, RelayConstants
<1> QED
  BY SMTT(40), <1>2, <1>5, FS_EmptySet, RelayConstants DEF Init, Charges

LEMMA InitChargesNext == Init' => Charges'
  BY InitCharges, PTL

\* No half-flow appears, the counters stand, and an entry is dropped only when
\* it counts nothing.
LEMMA NoNewHalves ==
    ASSUME TypeOK, Charges, UNCHANGED flows,
           \A s \in Subject : s \in tracked => s \in tracked' \/ flows[s] = 0,
           \A t \in Tag : \A f, p : HalfHeld(t, f, p)' => HalfHeld(t, f, p),
           \A t \in Tag : (Waiting(t)' => Waiting(t)) /\ (Joined(t)' => Joined(t))
    PROVE  Charges'
<1>1. \A s : FlowsOfSubject(s)' \subseteq FlowsOfSubject(s)
  BY DEF FlowsOfSubject
<1>2. \A s : /\ IsFiniteSet(FlowsOfSubject(s))
             /\ Cardinality(FlowsOfSubject(s)) \in Nat
             /\ Cardinality(FlowsOfSubject(s)') \in Nat
  BY FlowSetsFinite DEF FlowsOfSubject
<1>3. \A s : Cardinality(FlowsOfSubject(s)') <= Cardinality(FlowsOfSubject(s))
  BY <1>1, <1>2, FS_Subset
<1> DEFINE W == {t \in Tag : Waiting(t)}
           J == {t \in Tag : Joined(t)}
<1>4. /\ IsFiniteSet(W) /\ Cardinality(W) \in Nat /\ Cardinality(W') \in Nat /\ W' \subseteq W
      /\ IsFiniteSet(J) /\ Cardinality(J) \in Nat /\ Cardinality(J') \in Nat /\ J' \subseteq J
  BY TagSetsFinite
<1>5. Cardinality(W') <= Cardinality(W) /\ Cardinality(J') <= Cardinality(J)
  BY <1>4, FS_Subset
<1>6. HalfFlowCount' <= MaxHalfFlows
  BY <1>4, <1>5, RelayConstants DEF HalfFlowCount, Charges
<1> QED
  BY <1>2, <1>3, <1>6 DEF Charges, TypeOK

LEMMA BindingCharges ==
    ASSUME TypeOK, FlowIndexAgrees, Charges,
           NEW p \in Peer, NEW t \in Tag, NEW f \in FlowId, Binding(p, t, f)
    PROVE  Charges'
<1> DEFINE s0 == SubjectOf[p]
           W == {u \in Tag : Waiting(u)}
           J == {u \in Tag : Joined(u)}
<1>1. /\ s0 \in Subject /\ flows[s0] < MaxFlows /\ ~ TableFull
      /\ flows' = [flows EXCEPT ![s0] = flows[s0] + 1]
      /\ tracked' = tracked \cup {s0}
  BY RelayConstants
     DEF Binding, OpenSlot, JoinSlot, Charge, Charged, Admits, UnderFlowLimit
<1>2. \A s : /\ IsFiniteSet(FlowsOfSubject(s)) /\ Cardinality(FlowsOfSubject(s)) \in Nat
             /\ Cardinality(FlowsOfSubject(s)') \in Nat
  BY FlowSetsFinite DEF FlowsOfSubject
<1>3. FlowsOfSubject(s0)' = FlowsOfSubject(s0) \cup {f}
  BY BindingIndexes DEF FlowsOfSubject
<1>4. \A s \in Subject \ {s0} : FlowsOfSubject(s)' = FlowsOfSubject(s)
  BY BindingIndexes DEF FlowsOfSubject
<1>5. Cardinality(FlowsOfSubject(s0)') <= Cardinality(FlowsOfSubject(s0)) + 1
  <2> DEFINE S == FlowsOfSubject(s0)
  <2>1. IsFiniteSet(S) /\ Cardinality(S) \in Nat
    BY <1>2
  <2> HIDE DEF S
  <2>2. CASE f \in S
    <3>1. FlowsOfSubject(s0)' = S
      BY <1>3, <2>2 DEF S
    <3>2. Cardinality(FlowsOfSubject(s0)') = Cardinality(S)
      BY <3>1, Zenon
    <3> QED
      BY <2>1, <3>2 DEF S
  <2>3. CASE f \notin S
    <3>1. Cardinality(S \cup {f}) = Cardinality(S) + 1
      BY <2>1, <2>3, FS_AddElement
    <3>2. Cardinality(FlowsOfSubject(s0)') = Cardinality(S \cup {f})
      BY <1>3, Zenon DEF S
    <3> QED
      BY <2>1, <3>1, <3>2 DEF S
  <2> QED
    BY <2>2, <2>3
<1>6. /\ IsFiniteSet(W) /\ Cardinality(W) \in Nat /\ Cardinality(W') \in Nat
      /\ IsFiniteSet(J) /\ Cardinality(J) \in Nat /\ Cardinality(J') \in Nat
  BY TagSetsFinite
<1>7. /\ NewHalf(p, f) # NoHalf
      /\ [a |-> pending[t], b |-> NewHalf(p, f)] # NoPair
  BY NewHalfType, Placeholders DEF NoPair
<1>8. HalfFlowCount' = HalfFlowCount + 1
  <2>1. CASE OpenSlot(p, t, f)
    <3>1. W' = W \cup {t} /\ t \notin W /\ J' = J
      BY <2>1, <1>7 DEF OpenSlot, Waiting, Joined, TypeOK
    <3>2. Cardinality(W') = Cardinality(W) + 1
      BY <3>1, <1>6, FS_AddElement
    <3> QED
      BY <3>1, <3>2, <1>6 DEF HalfFlowCount
  <2>2. CASE JoinSlot(p, t, f)
    <3>1. W' = W \ {t} /\ t \in W /\ J' = J \cup {t} /\ t \notin J
      BY <2>2, <1>7 DEF JoinSlot, Waiting, Joined, TypeOK
    <3>2. Cardinality(W \ {t}) = Cardinality(W) - 1
      BY <3>1, <1>6, FS_RemoveElement
    <3>3. Cardinality(J \cup {t}) = Cardinality(J) + 1
      BY <3>1, <1>6, FS_AddElement
    <3>4. Cardinality(W') = Cardinality(W) - 1 /\ Cardinality(J') = Cardinality(J) + 1
      BY <3>1, <3>2, <3>3
    <3> HIDE DEF W, J
    <3>5. Cardinality(W') + 2 * Cardinality(J') = Cardinality(W) + 2 * Cardinality(J) + 1
      BY <3>4, <1>6
    <3> QED
      BY <3>5 DEF HalfFlowCount, W, J
  <2> QED
    BY <2>1, <2>2 DEF Binding
<1>9. HalfFlowCount' <= MaxHalfFlows
  BY <1>1, <1>6, <1>8, RelayConstants DEF TableFull, HalfFlowCount
<1>10. \A s \in Subject : /\ Cardinality(FlowsOfSubject(s)') <= flows'[s]
                          /\ flows'[s] <= MaxFlows
                          /\ flows'[s] > 0 => s \in tracked'
  BY <1>1, <1>2, <1>4, <1>5, RelayConstants DEF Charges, TypeOK
<1> QED
  BY <1>9, <1>10 DEF Charges

LEMMA ChargesStep ==
    ASSUME TypeOK, FlowIndexAgrees, Charges, [TableNext]_tableVars
    PROVE  Charges'
<1>1. ASSUME NEW p \in Peer, NEW t \in Tag, NEW f \in FlowId, Binding(p, t, f)
      PROVE  Charges'
  BY <1>1, BindingCharges
<1>2. ASSUME KeepsHalves, UNCHANGED flows,
             \A s \in Subject : s \in tracked => s \in tracked' \/ flows[s] = 0
      PROVE  Charges'
  BY <1>2, KeptHalves, NoNewHalves DEF KeepsHalves
<1>3. ASSUME NEW p \in Peer, NEW f \in FlowId, Forward(p, f)
      PROVE  Charges'
  BY <1>2, <1>3, ForwardKeeps DEF Forward
<1>4. CASE Tick
  BY <1>2, <1>4, TickKeeps DEF Tick
<1>5. CASE CollectTable
  <2>1. \A t \in Tag : \A f, p : HalfHeld(t, f, p)' => HalfHeld(t, f, p)
    BY <1>5, CollectIndexes
  <2>2. \A t \in Tag : (Waiting(t)' => Waiting(t)) /\ (Joined(t)' => Joined(t))
    BY <1>5, CollectIndexes
  <2>3. UNCHANGED <<flows, tracked>>
    BY <1>5 DEF CollectTable
  <2> QED
    BY <2>1, <2>2, <2>3, NoNewHalves
<1>6. CASE Restart
  BY <1>6, RestartIsInit, InitChargesNext
<1>7. ASSUME NEW p \in Peer, NEW t \in Tag, NEW withinRate \in BOOLEAN,
             RefuseBind(p, t, withinRate)
      PROVE  Charges'
  <2>1. KeepsHalves /\ UNCHANGED flows
    BY <1>7, OthersKeep
  <2>2. \A s \in Subject : s \in tracked => s \in tracked' \/ flows[s] = 0
    BY <1>7 DEF RefuseBind, RefusedByLimiter, RefusedByTable, Released
  <2> QED
    BY <1>2, <2>1, <2>2
<1>8. CASE \/ \E p \in Peer, k \in Key : Establish(p, k)
           \/ \E p \in Peer : Heard(p)
           \/ CollectLegs \/ BeginDrain \/ UNCHANGED tableVars
  <2>1. KeepsHalves /\ UNCHANGED flows
    BY <1>8, OthersKeep
  <2>2. UNCHANGED tracked
    BY <1>8 DEF Establish, Heard, CollectLegs, BeginDrain, tableVars
  <2> QED
    BY <1>2, <2>1, <2>2
<1> QED
  BY <1>1, <1>3, <1>4, <1>5, <1>6, <1>7, <1>8 DEF TableNext, Binding

\* Every half-flow the relay holds is charged to its subject and no ceiling is
\* passed, through refusals that take their charge back, collections that do
\* not tell the limiter, and restarts (resource.rs admit_bind, release_flow).
THEOREM EveryFlowChargedAlways == TableSpec => []EveryFlowCharged
<1>1. TypeOK /\ FlowIndexAgrees /\ Charges /\ [TableNext]_tableVars => Charges'
  BY ChargesStep
<1>2. TypeOK /\ FlowIndexAgrees /\ Charges => EveryFlowCharged
  BY ChargesEveryFlow
<1> QED
  BY <1>1, <1>2, InitCharges, TableTypeCorrect, FlowIndexAgreesAlways, PTL DEF TableSpec

-----------------------------------------------------------------------------
(***************************************************************************)
(* The service.                                                             *)
(***************************************************************************)

Frame ==
    [kind : {"INIT"}, peer : Watched, token : Token]
        \cup [kind : {"RESP"}, peer : Watched, token : Token, key : Key]
        \cup [kind : {"BIND"}, peer : Watched]
        \cup [kind : {"BOUND"}, peer : Watched, key : Key, flow : FlowId]
        \cup [kind : {"STATUS"}, peer : Watched, key : Key]

Typed == ServiceTypeOK /\ net \subseteq Frame

-----------------------------------------------------------------------------
(* What is in flight after a step was in flight, or was sent by it.        *)

LEMMA FitsWithin ==
    ASSUME NEW flight, NEW sent, NEW after \in Fits(flight, sent)
    PROVE  after \subseteq flight \cup sent
  BY DEF Fits

LEMMA ArrivesWithin ==
    ASSUME NEW m, NEW sent, Arrives(m, sent)
    PROVE  net' \subseteq net \cup sent
<1>1. net' \in Fits(net \ {m}, sent) \/ net' \in Fits(net, sent)
  BY DEF Arrives
<1> QED
  BY <1>1, FitsWithin

LEMMA LeavesWithin ==
    ASSUME NEW sent, Leaves(sent)
    PROVE  net' \subseteq net \cup sent
  BY FitsWithin DEF Leaves

LEMMA LegKeys ==
    ASSUME TypeOK, NEW p \in Peer
    PROVE  /\ HasLeg(p) => legs[p].key \in Key
           /\ ~ HasLeg(p) => legs[p].key = "none"
           /\ legs[p].key # "none" => HasLeg(p)
  BY RelayConstants DEF TypeOK, HasLeg, Leg, NoLeg

LEMMA TouchedKeys ==
    ASSUME TypeOK, NEW q \in Peer, legs' = Touched(q)
    PROVE  \A p \in Peer : legs'[p].key = legs[p].key
  BY DEF Touched, TypeOK, Leg, NoLeg

-----------------------------------------------------------------------------
(* Every step of the service is a step of the tables or leaves them alone. *)

LEMMA BindsIsBinding ==
    ASSUME NEW m, NEW p \in Peer, NEW t \in Tag, Binds(m, p, t)
    PROVE  \E f \in FlowId : Binding(p, t, f)
  BY DEF Binds, Binding

LEMMA TablesStep ==
    ASSUME Typed, [Next]_vars
    PROVE  [TableNext]_tableVars
<1>1. ASSUME NEW p \in Watched, DeviceStep(p)
      PROVE  [TableNext]_tableVars
  <2>1. CASE SendData(p)
    <3>1. p \in Peer /\ device[p].flow \in FlowId
      BY <2>1, ServiceConstants DEF SendData, Typed, ServiceTypeOK, Device, NoCarriage
    <3> QED
      BY <2>1, <3>1 DEF SendData, TableNext
  <2> QED
    BY <1>1, <2>1 DEF DeviceStep, OpenRelay, DropLeg, InstallAccess, Stray
<1>2. ASSUME NEW p \in Peer \ Watched, OtherPeer(p)
      PROVE  [TableNext]_tableVars
  BY <1>2, ServiceConstants DEF OtherPeer, TableNext
<1>3. ASSUME NEW m \in net, Deliver(m)
      PROVE  [TableNext]_tableVars
  <2>1. m.peer \in Peer /\ TagOf[m.peer] \in Tag
    BY ServiceConstants DEF Typed, Frame
  <2>2. CASE DeliverInit(m)
    BY <2>1, <2>2 DEF DeliverInit, AnswerInit, IgnoreInit, TableNext
  <2>3. CASE DeliverBind(m)
    BY <2>1, <2>3
       DEF DeliverBind, AnswerBind, Binds, Refuses, WrongBucket, TableNext
  <2>4. CASE DeliverToDevice(m)
    BY <2>4 DEF DeliverToDevice
  <2> QED
    BY <1>3, <2>2, <2>3, <2>4 DEF Deliver
<1>4. CASE Housekeeping
  BY <1>4 DEF Housekeeping, TableNext
<1>5. CASE RelayRestarts
  BY <1>5 DEF RelayRestarts, TableNext
<1>6. CASE UNCHANGED vars
  BY <1>6 DEF vars
<1> QED
  BY <1>1, <1>2, <1>3, <1>4, <1>5, <1>6 DEF Next

-----------------------------------------------------------------------------
(* Type correctness of the devices, the tokens and the network.            *)

LEMMA FramesTyped ==
    /\ \A p \in Watched, k \in Key, f \in FlowId : BoundFrame(p, k, f) \in Frame
    /\ \A p \in Watched, k \in Key : StatusFrame(p, k) \in Frame
    /\ \A p \in Watched, t \in Token, k \in Key : RespFrame(p, t, k) \in Frame
    /\ \A p \in Watched : BindFrame(p) \in Frame /\ (token[p] \in Token => InitFrame(p) \in Frame)
  BY DEF BoundFrame, StatusFrame, RespFrame, BindFrame, InitFrame, Frame

LEMMA AnnouncementTyped ==
    ASSUME TypeOK, NEW h \in Half
    PROVE  Announcement(h) \subseteq Frame
<1>1. \A q \in Watched : HasLeg(q) => legs[q].key \in Key
  BY LegKeys, ServiceConstants
<1>2. h.flow \in FlowId
  BY DEF Half
<1> QED
  BY <1>1, <1>2, FramesTyped DEF Announcement

LEMMA DropsTyped ==
    ASSUME Typed, NEW p \in Watched
    PROVE  /\ Drops(p) \in [Watched -> Device]
           /\ \A q \in Watched : Drops(p)[q] = IF q = p THEN NoCarriage ELSE device[q]
  BY DEF Drops, NoCarriage, Device, None, Typed, ServiceTypeOK

\* What one step of device p does to the devices, whoever delivered to it.
LEMMA ReceiveTyped ==
    ASSUME Typed, NEW p \in Watched, NEW m \in net, m.peer = p,
           DuringHandshake(p, m) \/ DuringBind(p, m) \/ WhileOpen(p, m) \/ Unread(p, m)
    PROVE  /\ device' \in [Watched -> Device]
           /\ net' \subseteq Frame
<1>1. m \in Frame /\ net \subseteq Frame /\ device \in [Watched -> Device] /\ token[p] \in Token
  BY DEF Typed, ServiceTypeOK
<1>2. NextReceive(p) => device' \in [Watched -> Device]
  BY <1>1, DropsTyped DEF NextReceive
<1>3. CASE DuringHandshake(p, m)
  <2>1. CASE Completes(p, m)
    <3>1. m.key \in Key
      BY <1>1, <2>1 DEF Frame, Completes
    <3>2. [device[p] EXCEPT !.phase = "binding", !.key = m.key] \in Device
      <4>1. device[p] \in [phase : {"handshake"}, token : Token, key : {None}, flow : {0}]
        BY <1>1, <1>3 DEF Device, NoCarriage, DuringHandshake
      <4>2. [device[p] EXCEPT !.phase = "binding", !.key = m.key]
              \in [phase : {"binding"}, token : Token, key : Key, flow : {0}]
        BY <3>1, <4>1
      <4> QED
        BY <4>2 DEF Device
    <3>3. device' \in [Watched -> Device]
      BY <1>1, <2>1, <3>2, DropsTyped DEF Completes
    <3>4. net' \subseteq net \cup {BindFrame(p)}
      BY <2>1, ArrivesWithin DEF Completes
    <3> QED
      BY <1>1, <3>3, <3>4, FramesTyped
  <2>2. CASE Mismatches(p, m)
    <3>1. net' \subseteq net
      BY <2>2, ArrivesWithin DEF Mismatches
    <3> QED
      BY <1>1, <2>2, <3>1, DropsTyped DEF Mismatches
  <2>3. CASE Resends(p, m)
    <3>1. net' \subseteq net \cup {InitFrame(p)}
      BY <2>3, ArrivesWithin DEF Resends
    <3> QED
      BY <1>1, <1>2, <2>3, <3>1, FramesTyped DEF Resends
  <2> QED
    BY <1>3, <2>1, <2>2, <2>3 DEF DuringHandshake
<1>4. ASSUME Readable(p, m), m.kind = "BOUND", device[p].phase \in {"binding", "open"}
      PROVE  Records(p, m) \in [Watched -> Device]
  <2>1. m.flow \in FlowId /\ device[p].key \in Key
    BY <1>1, <1>4 DEF Frame, Device, NoCarriage
  <2>2. [device[p] EXCEPT !.phase = "open", !.flow = m.flow] \in Device
    <3>1. device[p] \in [phase : {"binding", "open"}, token : Token, key : Key, flow : Nat]
      BY <1>1, <1>4 DEF Device, NoCarriage, FlowId
    <3>2. [device[p] EXCEPT !.phase = "open", !.flow = m.flow]
            \in [phase : {"open"}, token : Token, key : Key, flow : FlowId]
      BY <2>1, <3>1
    <3> QED
      BY <3>2 DEF Device
  <2> QED
    BY <1>1, <2>2 DEF Records
<1>5. CASE DuringBind(p, m)
  <2>1. net' \subseteq net
    BY <1>5, ArrivesWithin DEF DuringBind
  <2> QED
    BY <1>1, <1>2, <1>4, <1>5, <2>1, DropsTyped DEF DuringBind
<1>6. CASE WhileOpen(p, m)
  <2>1. net' \subseteq net
    BY <1>6, ArrivesWithin DEF WhileOpen
  <2> QED
    BY <1>1, <1>4, <1>6, <2>1 DEF WhileOpen
<1>7. CASE Unread(p, m)
  <2>1. net' \subseteq net
    BY <1>7, ArrivesWithin DEF Unread
  <2> QED
    BY <1>1, <1>7, <2>1 DEF Unread
<1> QED
  BY <1>3, <1>5, <1>6, <1>7

LEMMA DeviceStepTyped ==
    ASSUME Typed, NEW p \in Watched, DeviceStep(p)
    PROVE  /\ device' \in [Watched -> Device] /\ token' \in [Watched -> Token]
           /\ spent' \subseteq Token /\ net' \subseteq Frame
<1>1. /\ net \subseteq Frame /\ device \in [Watched -> Device]
      /\ token \in [Watched -> Token] /\ spent \subseteq Token
  BY DEF Typed, ServiceTypeOK
<1>2. [NoCarriage EXCEPT !.phase = "handshake", !.token = token[p]] \in Device
  BY <1>1 DEF NoCarriage, Device, None
<1>3. CASE OpenRelay(p)
  <2>1. net' \subseteq net \cup {InitFrame(p)}
    BY <1>3, LeavesWithin DEF OpenRelay
  <2> QED
    BY <1>1, <1>2, <1>3, <2>1, FramesTyped DEF OpenRelay
<1>4. CASE SendData(p)
  BY <1>1, <1>4 DEF SendData
<1>5. CASE DropLeg(p)
  BY <1>1, <1>5, DropsTyped DEF DropLeg
<1>6. CASE InstallAccess(p)
  BY <1>1, <1>6, ServiceConstants DEF InstallAccess
<1>7. CASE Stray(p)
  <2>1. net' \subseteq net \cup {InitFrame(p)}
    BY <1>7, LeavesWithin DEF Stray
  <2> QED
    BY <1>1, <1>7, <2>1, FramesTyped, DropsTyped DEF Stray, NextReceive
<1> QED
  BY <1>3, <1>4, <1>5, <1>6, <1>7 DEF DeviceStep

\* The relay's answers: the frames it sends, and nothing of the device.
LEMMA AnswersTyped ==
    ASSUME Typed, NEW m \in net, DeliverInit(m) \/ DeliverBind(m)
    PROVE  /\ net' \subseteq Frame /\ spent' \subseteq Token
           /\ UNCHANGED <<device, token>>
<1> DEFINE p == m.peer
<1>1. /\ m \in Frame /\ net \subseteq Frame /\ spent \subseteq Token /\ TypeOK
      /\ p \in Watched /\ p \in Peer
  BY ServiceConstants DEF Typed, ServiceTypeOK, Frame
<1>2. /\ HasLeg(p) => legs[p].key \in Key
      /\ TagOf[p] \in Tag
  BY <1>1, LegKeys, ServiceConstants
<1>3. ASSUME NEW sent \in SUBSET Frame, Arrives(m, sent)
      PROVE  net' \subseteq Frame
  BY <1>1, <1>3, ArrivesWithin
<1>4. CASE DeliverInit(m)
  <2>1. m.token \in Token
    BY <1>1, <1>4 DEF DeliverInit, Frame
  <2>2. Arrives(m, {}) \/ \E k \in Key : Arrives(m, {RespFrame(p, m.token, k)})
    BY <1>4 DEF DeliverInit, AnswerInit, IgnoreInit
  <2>3. \A k \in Key : {RespFrame(p, m.token, k)} \in SUBSET Frame
    BY <1>1, <2>1, FramesTyped
  <2>4. net' \subseteq Frame
    BY <1>3, <2>2, <2>3
  <2> QED
    BY <1>1, <1>4, <2>1, <2>4 DEF DeliverInit, AnswerInit, IgnoreInit
<1>5. CASE DeliverBind(m)
  <2>1. ASSUME Binds(m, p, TagOf[p])
        PROVE  net' \subseteq Frame
    <3>1. PICK f \in FlowId :
            \/ OpenSlot(p, TagOf[p], f) /\ Arrives(m, {BoundFrame(p, legs[p].key, f)})
            \/ /\ JoinSlot(p, TagOf[p], f)
               /\ Arrives(m, {BoundFrame(p, legs[p].key, f)} \cup Announcement(pending[TagOf[p]]))
      BY <2>1 DEF Binds
    <3>2. BoundFrame(p, legs[p].key, f) \in Frame
      BY <1>1, <1>2, <3>1, FramesTyped DEF OpenSlot, JoinSlot
    <3>3. ASSUME JoinSlot(p, TagOf[p], f)
          PROVE  Announcement(pending[TagOf[p]]) \subseteq Frame
      <4>1. pending[TagOf[p]] \in Half
        BY <1>1, <1>2, <3>3 DEF JoinSlot, TypeOK, Waiting
      <4> QED
        BY <1>1, <4>1, AnnouncementTyped
    <3> QED
      BY <1>3, <3>1, <3>2, <3>3
  <2>2. ASSUME Refuses(m, p, TagOf[p]) \/ WrongBucket(m, p)
        PROVE  net' \subseteq Frame
    <3>1. HasLeg(p) /\ Arrives(m, {StatusFrame(p, legs[p].key)})
      BY <2>2 DEF Refuses, WrongBucket, RefuseBind, Heard
    <3>2. {StatusFrame(p, legs[p].key)} \in SUBSET Frame
      BY <1>1, <1>2, <3>1, FramesTyped
    <3> QED
      BY <1>3, <3>1, <3>2
  <2>3. net' \subseteq Frame
    BY <1>3, <1>5, <2>1, <2>2 DEF DeliverBind, AnswerBind
  <2> QED
    BY <1>1, <1>5, <2>3 DEF DeliverBind
<1> QED
  BY <1>4, <1>5

LEMMA OtherPeerTyped ==
    ASSUME Typed, NEW p \in Peer \ Watched, OtherPeer(p)
    PROVE  net' \subseteq Frame /\ UNCHANGED <<spent, device, token>>
<1>1. net \subseteq Frame /\ TypeOK
  BY DEF Typed, ServiceTypeOK
<1>2. ASSUME NEW t \in Tag, NEW f \in FlowId, JoinSlot(p, t, f), Leaves(Announcement(pending[t]))
      PROVE  net' \subseteq Frame
  <2>1. pending[t] \in Half
    BY <1>1, <1>2 DEF JoinSlot, TypeOK, Waiting
  <2>2. Announcement(pending[t]) \subseteq Frame
    BY <1>1, <2>1, AnnouncementTyped
  <2> QED
    BY <1>1, <1>2, <2>2, LeavesWithin
<1> QED
  BY <1>1, <1>2 DEF OtherPeer

LEMMA ServiceTypeStep ==
    ASSUME Typed, PrefixCountsLegs, [Next]_vars
    PROVE  Typed'
<1>1. TypeOK'
  BY TablesStep, TypeStep DEF Typed, ServiceTypeOK
<1>2. /\ net' \subseteq Frame /\ spent' \subseteq Token
      /\ device' \in [Watched -> Device] /\ token' \in [Watched -> Token]
  <2> USE DEF Typed, ServiceTypeOK
  <2>1. ASSUME NEW p \in Watched, DeviceStep(p)
        PROVE  <1>2
    BY <2>1, DeviceStepTyped
  <2>2. ASSUME NEW p \in Peer \ Watched, OtherPeer(p)
        PROVE  <1>2
    BY <2>2, OtherPeerTyped
  <2>3. ASSUME NEW m \in net, Deliver(m)
        PROVE  <1>2
    <3>1. CASE DeliverToDevice(m)
      <4>1. m.peer \in Watched
        BY DEF Frame
      <4> QED
        BY <3>1, <4>1, ReceiveTyped DEF DeliverToDevice
    <3> QED
      BY <2>3, <3>1, AnswersTyped DEF Deliver
  <2>4. CASE Housekeeping
    BY <2>4 DEF Housekeeping
  <2>5. CASE RelayRestarts
    BY <2>5 DEF RelayRestarts
  <2>6. CASE UNCHANGED vars
    BY <2>6 DEF vars
  <2> QED
    BY <2>1, <2>2, <2>3, <2>4, <2>5, <2>6 DEF Next
<1> QED
  BY <1>1, <1>2 DEF Typed, ServiceTypeOK

LEMMA ServiceInitTyped == ServiceInit => Typed
<1>1. NoCarriage \in Device
  BY DEF NoCarriage, Device, None
<1> QED
  BY <1>1, InitTyped, ServiceConstants DEF ServiceInit, Typed, ServiceTypeOK

LEMMA TypedAlways == Spec => [](Typed /\ PrefixCountsLegs)
<1>1. ServiceInit => Typed /\ PrefixCountsLegs
  BY ServiceInitTyped, InitCounts DEF ServiceInit
<1>2. Typed /\ PrefixCountsLegs /\ [Next]_vars => (Typed /\ PrefixCountsLegs)'
  BY ServiceTypeStep, TablesStep, CountsStep DEF Typed, ServiceTypeOK
<1> QED
  BY <1>1, <1>2, PTL DEF Spec

\* The devices, their tokens and the relay's replay cache never hold anything
\* but what their types say.
THEOREM ServiceTypeCorrect == Spec => []ServiceTypeOK
<1>1. Typed => ServiceTypeOK
  BY DEF Typed
<1> QED
  BY <1>1, TypedAlways, PTL

\* The service implements the tables: whatever the network and the devices do,
\* the tables only take the steps RelayTable gives them (loop_udp.rs, pump.rs
\* and admit.rs over leg.rs, flow.rs and engine.rs), so every theorem about
\* TableSpec is a theorem about the relay a device meets.
THEOREM ServiceKeepsTables == Spec => TableSpec
<1>1. ServiceInit => Init
  BY DEF ServiceInit
<1>2. Typed /\ PrefixCountsLegs /\ [Next]_vars => [TableNext]_tableVars
  BY TablesStep
<1> QED
  BY <1>1, <1>2, TypedAlways, PTL DEF Spec, TableSpec

-----------------------------------------------------------------------------
(* A half-flow of a watched peer is only ever on the tag of that peer.     *)

HalvesOnTheirTag == \A t \in Tag, f \in FlowId, p \in Watched : HalfHeld(t, f, p) => TagOf[p] = t

LEMMA OnTagTableStep ==
    ASSUME TypeOK, FlowIndexAgrees, HalvesOnTheirTag,
           CollectTable \/ CollectLegs \/ BeginDrain \/ Tick \/ Restart
              \/ (\E p \in Peer, k \in Key : Establish(p, k))
              \/ (\E p \in Peer : Heard(p))
              \/ (\E p \in Peer, t \in Tag, withinRate \in BOOLEAN : RefuseBind(p, t, withinRate))
              \/ (\E p \in Peer, f \in FlowId : Forward(p, f))
              \/ (\E p \in Peer, t \in Tag, f \in FlowId :
                    Binding(p, t, f) /\ (p \in Watched => t = TagOf[p]))
              \/ UNCHANGED tableVars
    PROVE  HalvesOnTheirTag'
<1>0. Watched \subseteq Peer
  BY ServiceConstants
<1>1. ASSUME KeepsHalves
      PROVE  HalvesOnTheirTag'
  BY <1>0, <1>1, KeptHalves DEF HalvesOnTheirTag
<1>2. ASSUME NEW p \in Peer, NEW t \in Tag, NEW f \in FlowId, Binding(p, t, f),
             p \in Watched => t = TagOf[p]
      PROVE  HalvesOnTheirTag'
  BY <1>0, <1>2, BindingIndexes DEF HalvesOnTheirTag
<1>3. CASE CollectTable
  BY <1>0, <1>3, CollectIndexes DEF HalvesOnTheirTag
<1>4. CASE Restart
  BY <1>4 DEF Restart, HalvesOnTheirTag, HalfHeld, Waiting, Joined
<1>5. CASE Tick
  BY <1>1, <1>5, TickKeeps
<1>6. ASSUME NEW p \in Peer, NEW f \in FlowId, Forward(p, f)
      PROVE  HalvesOnTheirTag'
  BY <1>1, <1>6, ForwardKeeps
<1> QED
  BY <1>1, <1>2, <1>3, <1>4, <1>5, <1>6, OthersKeep

LEMMA OnTagStep ==
    ASSUME Typed, FlowIndexAgrees, HalvesOnTheirTag, [Next]_vars
    PROVE  HalvesOnTheirTag'
<1> USE DEF Typed, ServiceTypeOK
<1>1. ASSUME NEW p \in Watched, DeviceStep(p)
      PROVE  HalvesOnTheirTag'
  <2>1. CASE SendData(p)
    <3>1. p \in Peer /\ device[p].flow \in FlowId
      BY <2>1, ServiceConstants DEF SendData, Device, NoCarriage
    <3> QED
      BY <2>1, <3>1, OnTagTableStep DEF SendData
  <2> QED
    BY <1>1, <2>1, OnTagTableStep DEF DeviceStep, OpenRelay, DropLeg, InstallAccess, Stray
<1>2. ASSUME NEW p \in Peer \ Watched, OtherPeer(p)
      PROVE  HalvesOnTheirTag'
  BY <1>2, OnTagTableStep, ServiceConstants DEF OtherPeer, Binding
<1>3. ASSUME NEW m \in net, Deliver(m)
      PROVE  HalvesOnTheirTag'
  <2>1. m.peer \in Peer /\ TagOf[m.peer] \in Tag
    BY ServiceConstants DEF Frame
  <2>2. CASE DeliverInit(m)
    BY <2>1, <2>2, OnTagTableStep DEF DeliverInit, AnswerInit, IgnoreInit
  <2>3. CASE DeliverBind(m)
    <3>1. ASSUME Binds(m, m.peer, TagOf[m.peer])
          PROVE  HalvesOnTheirTag'
      BY <2>1, <3>1, BindsIsBinding, OnTagTableStep
    <3>2. ASSUME Refuses(m, m.peer, TagOf[m.peer]) \/ WrongBucket(m, m.peer)
          PROVE  HalvesOnTheirTag'
      BY <2>1, <3>2, OnTagTableStep DEF Refuses, WrongBucket
    <3> QED
      BY <2>3, <3>1, <3>2, OnTagTableStep DEF DeliverBind, AnswerBind
  <2>4. CASE DeliverToDevice(m)
    BY <2>4, OnTagTableStep DEF DeliverToDevice
  <2> QED
    BY <1>3, <2>2, <2>3, <2>4 DEF Deliver
<1>4. CASE Housekeeping
  BY <1>4, OnTagTableStep DEF Housekeeping
<1>5. CASE RelayRestarts
  BY <1>5, OnTagTableStep DEF RelayRestarts
<1>6. CASE UNCHANGED vars
  BY <1>6, OnTagTableStep DEF vars
<1> QED
  BY <1>1, <1>2, <1>3, <1>4, <1>5, <1>6 DEF Next

LEMMA OnTagCarries ==
    ASSUME Typed, HalvesOnTheirTag
    PROVE  CarriesOnItsTag
<1> SUFFICES ASSUME NEW p \in Watched, device[p].phase = "open", Carries(p, device[p].flow)
             PROVE  byFlow[device[p].flow] = TagOf[p]
  BY DEF CarriesOnItsTag
<1> DEFINE f == device[p].flow
           t == byFlow[f]
<1>1. f \in FlowId /\ p \in Peer
  BY ServiceConstants DEF Typed, ServiceTypeOK, Device, NoCarriage
<1>2. t \in Tag /\ Joined(t) /\ bound[t] \in [a : Half, b : Half]
  BY <1>1 DEF Carries, Typed, ServiceTypeOK, TypeOK, Joined
<1>3. Ingress(bound[t], f).peer = p
  BY DEF Carries
<1>4. \E g \in FlowId : HalfHeld(t, g, p)
  BY <1>2, <1>3 DEF Ingress, HalfHeld, Half
<1> QED
  BY <1>1, <1>2, <1>4 DEF HalvesOnTheirTag

\* Data leaves only on the tag a device shares with its partner, whatever the
\* relay collected, reassigned or forgot since the device was answered (pump.rs
\* forward_data).
THEOREM CarriesOnItsTagAlways == Spec => []CarriesOnItsTag
<1>1. ServiceInit => HalvesOnTheirTag
  BY DEF ServiceInit, Init, HalvesOnTheirTag, HalfHeld, Waiting, Joined
<1>2. Typed /\ FlowIndexAgrees /\ HalvesOnTheirTag /\ [Next]_vars => HalvesOnTheirTag'
  BY OnTagStep
<1>3. Typed /\ HalvesOnTheirTag => CarriesOnItsTag
  BY OnTagCarries
<1> QED
  BY <1>1, <1>2, <1>3, TypedAlways, ServiceKeepsTables, FlowIndexAgreesAlways, PTL DEF Spec

-----------------------------------------------------------------------------
(* No other leg takes the place of one in use but by a token of its own.   *)
(* The leg a device holds or may be told of was set up by a HANDSHAKE_INIT *)
(* made with the token the device, or the response, names, and that token  *)
(* is spent for as long as the relay holds the leg.                        *)

Responses(p) == {m \in net : m.kind = "RESP" /\ m.peer = p}

TokenSpent(p) ==
    legs[p].key # None =>
        /\ device[p].key = legs[p].key => device[p].token \in spent
        /\ \A m \in Responses(p) : m.key = legs[p].key => m.token \in spent

LegInvariant == \A p \in Watched : TokenSpent(p)

\* A step that sets up no leg for p and sends p no HANDSHAKE_RESP.
Undisturbed(p) ==
    /\ legs'[p].key \in {legs[p].key, None}
    /\ spent \subseteq spent'
    /\ Responses(p)' \subseteq Responses(p)
    /\ \/ device'[p].key = None
       \/ device'[p].key = device[p].key /\ device'[p].token = device[p].token
       \/ \E m \in Responses(p) : m.key = device'[p].key /\ m.token = device'[p].token

LEMMA UndisturbedKeeps ==
    ASSUME NEW p \in Watched, TokenSpent(p), Undisturbed(p)
    PROVE  TokenSpent(p)'
  BY DEF TokenSpent, Undisturbed

\* Frames a step may send to or for one peer, as the other peers see them.
LEMMA FrameFields ==
    /\ \A p : InitFrame(p).peer = p /\ InitFrame(p).kind = "INIT"
    /\ \A p, t, k : /\ RespFrame(p, t, k).peer = p /\ RespFrame(p, t, k).kind = "RESP"
                    /\ RespFrame(p, t, k).token = t /\ RespFrame(p, t, k).key = k
    /\ \A p : BindFrame(p).kind = "BIND"
    /\ \A p, k, f : BoundFrame(p, k, f).kind = "BOUND"
    /\ \A p, k : StatusFrame(p, k).kind = "STATUS"
    /\ \A h : \A m \in Announcement(h) : m.kind = "BOUND"
  BY DEF InitFrame, RespFrame, BindFrame, BoundFrame, StatusFrame, Announcement

\* Every table step but the set-up of a leg leaves a leg its key, or ends it.
LEMMA TableKeepsKeys ==
    ASSUME TypeOK,
           CollectTable \/ CollectLegs \/ BeginDrain \/ Tick
              \/ (\E p \in Peer : Heard(p))
              \/ (\E p \in Peer, t \in Tag, withinRate \in BOOLEAN : RefuseBind(p, t, withinRate))
              \/ (\E p \in Peer, f \in FlowId : Forward(p, f))
              \/ (\E p \in Peer, t \in Tag, f \in FlowId : Binding(p, t, f))
              \/ UNCHANGED tableVars
    PROVE  \A p \in Peer : legs'[p].key \in {legs[p].key, None}
<1>1. CASE \E q \in Peer : legs' = Touched(q)
  BY <1>1, TouchedKeys
<1>2. CASE UNCHANGED legs
  BY <1>2
<1>3. CASE CollectLegs
  BY <1>3 DEF CollectLegs, NoLeg, None
<1>4. CASE Tick
  <2>1. \A p \in Peer : HasLeg(p) => [legs[p] EXCEPT !.idle = Older(@, LegIdle)].key = legs[p].key
    BY DEF TypeOK, HasLeg, Leg
  <2> QED
    BY <1>4, <2>1 DEF Tick, NoLeg, None
<1>5. CollectTable \/ BeginDrain \/ UNCHANGED tableVars => UNCHANGED legs
  BY DEF CollectTable, BeginDrain, tableVars
<1>6. ASSUME NEW p \in Peer, Heard(p) PROVE legs' = Touched(p)
  BY <1>6 DEF Heard
<1>7. ASSUME NEW p \in Peer, NEW t \in Tag, NEW withinRate \in BOOLEAN, RefuseBind(p, t, withinRate)
      PROVE  legs' = Touched(p) \/ UNCHANGED legs
  BY <1>7 DEF RefuseBind
<1>8. ASSUME NEW p \in Peer, NEW f \in FlowId, Forward(p, f)
      PROVE  legs' = Touched(p) \/ UNCHANGED legs
  BY <1>8 DEF Forward
<1>9. ASSUME NEW p \in Peer, NEW t \in Tag, NEW f \in FlowId, Binding(p, t, f)
      PROVE  legs' = Touched(p) \/ UNCHANGED legs
  BY <1>9 DEF Binding, OpenSlot, JoinSlot, Charge
<1> QED
  BY <1>1, <1>2, <1>3, <1>4, <1>5, <1>6, <1>7, <1>8, <1>9

LEMMA EstablishOther ==
    ASSUME TypeOK, NEW q \in Peer, NEW k \in Key, Establish(q, k)
    PROVE  /\ \A p \in Peer \ {q} : legs'[p] = legs[p]
           /\ legs'[q].key = k
  BY DEF Establish, TypeOK

LEMMA DeviceStepUndisturbed ==
    ASSUME Typed, NEW q \in Watched, DeviceStep(q), NEW p \in Watched
    PROVE  Undisturbed(p)
<1>1. p \in Peer /\ q \in Peer /\ TypeOK /\ device \in [Watched -> Device]
  BY ServiceConstants DEF Typed, ServiceTypeOK
<1>2. ASSUME net' \subseteq net \cup {InitFrame(q)}
      PROVE  Responses(p)' \subseteq Responses(p)
  BY <1>2, FrameFields DEF Responses
<1>3. CASE OpenRelay(q)
  <2>1. Responses(p)' \subseteq Responses(p)
    BY <1>2, <1>3, LeavesWithin DEF OpenRelay
  <2>2. device'[p].key = None \/ device'[p] = device[p]
    <3> DEFINE asking == [NoCarriage EXCEPT !.phase = "handshake", !.token = token[q]]
    <3>1. asking.key = None
      BY DEF NoCarriage
    <3>2. device' = [device EXCEPT ![q] = asking]
      BY <1>3 DEF OpenRelay
    <3> QED
      BY <1>1, <3>1, <3>2
  <2> QED
    BY <1>3, <2>1, <2>2 DEF OpenRelay, Undisturbed, tableVars
<1>4. CASE SendData(q)
  <2>1. device[q].flow \in FlowId
    BY <1>1, <1>4 DEF SendData, Device, NoCarriage
  <2>2. legs'[p].key \in {legs[p].key, None}
    BY <1>1, <1>4, <2>1, TableKeepsKeys DEF SendData
  <2> QED
    BY <1>4, <2>2 DEF SendData, Undisturbed, Responses
<1>5. CASE DropLeg(q)
  BY <1>1, <1>5, DropsTyped DEF DropLeg, Undisturbed, tableVars, NoCarriage, Responses
<1>6. CASE InstallAccess(q)
  BY <1>6 DEF InstallAccess, Undisturbed, tableVars, Responses
<1>7. CASE Stray(q)
  <2>1. net' \subseteq net \cup {InitFrame(q)}
    BY <1>7, LeavesWithin DEF Stray
  <2>2. device'[p] \in {device[p], NoCarriage}
    BY <1>7, DropsTyped DEF Stray, NextReceive
  <2> QED
    BY <1>2, <1>7, <2>1, <2>2 DEF Stray, Undisturbed, tableVars, NoCarriage
<1> QED
  BY <1>3, <1>4, <1>5, <1>6, <1>7 DEF DeviceStep

LEMMA ReceiveUndisturbed ==
    ASSUME Typed, NEW m \in net, DeliverToDevice(m), NEW p \in Watched
    PROVE  Undisturbed(p)
<1> DEFINE q == m.peer
<1>1. p \in Peer /\ q \in Watched /\ TypeOK /\ device \in [Watched -> Device]
  BY ServiceConstants DEF Typed, ServiceTypeOK, Frame
<1>2. UNCHANGED <<legs, spent, token>>
  BY DEF DeliverToDevice, tableVars
<1>3. ASSUME NEW sent, Arrives(m, sent), \A n \in sent : n.kind # "RESP"
      PROVE  Responses(p)' \subseteq Responses(p)
  BY <1>3, ArrivesWithin DEF Responses
<1>4. Responses(p)' \subseteq Responses(p)
  BY <1>3, FrameFields DEF DeliverToDevice, DuringHandshake, Completes, Mismatches, Resends,
                           DuringBind, WhileOpen, Unread
<1>5. ASSUME \/ device'[p] = NoCarriage
             \/ device'[p].key = device[p].key /\ device'[p].token = device[p].token
      PROVE  Undisturbed(p)
  BY <1>2, <1>4, <1>5 DEF Undisturbed, NoCarriage
<1>6. device' \in {device, Drops(q)} => Undisturbed(p)
  BY <1>1, <1>5, DropsTyped
<1>7. CASE DuringHandshake(q, m) /\ device' \notin {device, Drops(q)}
  <2> DEFINE up == [device[q] EXCEPT !.phase = "binding", !.key = m.key]
  <2>1. /\ m \in Responses(q) /\ m.token = device[q].token
        /\ device' = [device EXCEPT ![q] = up]
    BY <1>7 DEF DuringHandshake, Completes, Mismatches, Resends, NextReceive, Responses
  <2>2. up.key = m.key /\ up.token = device[q].token
    BY <1>1 DEF Device, NoCarriage
  <2> HIDE DEF up
  <2>3. device'[p] = IF p = q THEN up ELSE device[p]
    BY <1>1, <2>1
  <2> QED
    BY <1>2, <1>4, <1>5, <2>1, <2>2, <2>3 DEF Undisturbed
<1>8. CASE DuringBind(q, m) \/ WhileOpen(q, m) \/ Unread(q, m)
  <2>1. device' \in {device, Drops(q), Records(q, m)}
    BY <1>8 DEF DuringBind, WhileOpen, Unread, NextReceive
  <2>2. Records(q, m)[p].key = device[p].key /\ Records(q, m)[p].token = device[p].token
    BY <1>1 DEF Records, Device, NoCarriage
  <2> QED
    BY <1>5, <1>6, <2>1, <2>2
<1>9. \/ DuringHandshake(q, m) \/ DuringBind(q, m) \/ WhileOpen(q, m) \/ Unread(q, m)
  BY DEF DeliverToDevice
<1> QED
  BY <1>6, <1>7, <1>8, <1>9

\* The relay sets up a leg for the peer of a HANDSHAKE_INIT whose token was
\* not spent, answers under a key of its own, and spends the token.
SetsUpLeg(p, k) ==
    /\ \E m \in net :
        /\ m.kind = "INIT" /\ m.peer = p
        /\ m.token \notin spent /\ spent' = spent \cup {m.token}
        /\ net' \subseteq net \cup {RespFrame(p, m.token, k)}
    /\ legs'[p].key = k /\ FreshKey(p, k)
    /\ UNCHANGED device

LEMMA AnswersUndisturbed ==
    ASSUME Typed, NEW m \in net, DeliverInit(m) \/ DeliverBind(m), NEW p \in Watched
    PROVE  Undisturbed(p) \/ \E k \in Key : SetsUpLeg(p, k)
<1> DEFINE q == m.peer
<1>1. p \in Peer /\ q \in Watched /\ q \in Peer /\ TypeOK /\ TagOf[q] \in Tag
  BY ServiceConstants DEF Typed, ServiceTypeOK, Frame
<1>2. ASSUME Responses(p)' \subseteq Responses(p), legs'[p].key \in {legs[p].key, None},
             spent \subseteq spent', UNCHANGED device
      PROVE  Undisturbed(p)
  BY <1>2 DEF Undisturbed
<1>3. ASSUME NEW sent, Arrives(m, sent), \A n \in sent : n.kind # "RESP" \/ n.peer # p
      PROVE  Responses(p)' \subseteq Responses(p)
  BY <1>3, ArrivesWithin DEF Responses
<1>4. CASE DeliverInit(m)
  <2>1. UNCHANGED device /\ spent \subseteq spent' /\ m.kind = "INIT"
    BY <1>4 DEF DeliverInit, AnswerInit, IgnoreInit
  <2>2. ASSUME Arrives(m, {}), UNCHANGED tableVars
        PROVE  Undisturbed(p)
    BY <1>2, <1>3, <2>1, <2>2 DEF tableVars
  <2>3. ASSUME NEW k \in Key, Establish(q, k), FreshKey(q, k),
               Arrives(m, {RespFrame(q, m.token, k)}),
               m.token \notin spent, spent' = spent \cup {m.token}
        PROVE  Undisturbed(p) \/ SetsUpLeg(p, k)
    <3>1. net' \subseteq net \cup {RespFrame(q, m.token, k)}
      BY <2>3, ArrivesWithin
    <3>2. CASE p = q
      BY <1>1, <2>1, <2>3, <3>1, <3>2, EstablishOther DEF SetsUpLeg
    <3>3. CASE p # q
      BY <1>1, <1>2, <1>3, <2>1, <2>3, <3>3, EstablishOther, FrameFields
    <3> QED
      BY <3>2, <3>3
  <2> QED
    BY <1>4, <2>2, <2>3 DEF DeliverInit, AnswerInit, IgnoreInit
<1>5. CASE DeliverBind(m)
  <2>1. UNCHANGED <<device, spent>>
    BY <1>5 DEF DeliverBind
  <2>2. ASSUME Binds(m, q, TagOf[q])
        PROVE  Undisturbed(p)
    <3>1. legs'[p].key \in {legs[p].key, None}
      BY <1>1, <2>2, BindsIsBinding, TableKeepsKeys
    <3>2. PICK f \in FlowId :
            \/ Arrives(m, {BoundFrame(q, legs[q].key, f)})
            \/ Arrives(m, {BoundFrame(q, legs[q].key, f)} \cup Announcement(pending[TagOf[q]]))
      BY <2>2 DEF Binds
    <3>3. \A n \in {BoundFrame(q, legs[q].key, f)} \cup Announcement(pending[TagOf[q]]) :
            n.kind # "RESP"
      BY FrameFields
    <3>4. Responses(p)' \subseteq Responses(p)
      BY <1>3, <3>2, <3>3
    <3> QED
      BY <1>2, <2>1, <3>1, <3>4
  <2>3. ASSUME Refuses(m, q, TagOf[q]) \/ WrongBucket(m, q)
        PROVE  Undisturbed(p)
    <3>1. legs'[p].key \in {legs[p].key, None}
      BY <1>1, <2>3, TableKeepsKeys DEF Refuses, WrongBucket
    <3>2. Arrives(m, {StatusFrame(q, legs[q].key)})
      BY <2>3 DEF Refuses, WrongBucket
    <3>3. Responses(p)' \subseteq Responses(p)
      BY <1>3, <3>2, FrameFields
    <3> QED
      BY <1>2, <2>1, <3>1, <3>3
  <2>4. ASSUME Arrives(m, {}), UNCHANGED tableVars
        PROVE  Undisturbed(p)
    BY <1>2, <1>3, <2>1, <2>4 DEF tableVars
  <2> QED
    BY <1>5, <2>2, <2>3, <2>4 DEF DeliverBind, AnswerBind
<1> QED
  BY <1>4, <1>5

LEMMA OtherPeerUndisturbed ==
    ASSUME Typed, NEW q \in Peer \ Watched, OtherPeer(q), NEW p \in Watched
    PROVE  Undisturbed(p)
<1>1. p \in Peer /\ p # q /\ TypeOK
  BY ServiceConstants DEF Typed, ServiceTypeOK
<1>2. legs'[p].key \in {legs[p].key, None}
  <2>1. CASE Establish(q, OtherKey)
    BY <1>1, <2>1, EstablishOther, ServiceConstants
  <2>2. CASE \E t \in Tag, f \in FlowId : Binding(q, t, f)
    BY <1>1, <2>2, TableKeepsKeys
  <2> QED
    BY <2>1, <2>2 DEF OtherPeer, Binding
<1>3. Responses(p)' \subseteq Responses(p)
  <2>1. ASSUME NEW t \in Tag, Leaves(Announcement(pending[t]))
        PROVE  <1>3
    BY <2>1, LeavesWithin, FrameFields DEF Responses
  <2> QED
    BY <2>1 DEF OtherPeer, Responses
<1> QED
  BY <1>2, <1>3 DEF OtherPeer, Undisturbed

\* Each step, as one watched peer sees it.
LEMMA StepKinds ==
    ASSUME Typed, [Next]_vars, NEW p \in Watched
    PROVE  \/ Undisturbed(p)
           \/ \E k \in Key : SetsUpLeg(p, k)
           \/ RelayRestarts
<1>1. TypeOK /\ p \in Peer
  BY ServiceConstants DEF Typed, ServiceTypeOK
<1>2. CASE Housekeeping \/ UNCHANGED vars
  <2>1. legs'[p].key \in {legs[p].key, None}
    BY <1>1, <1>2, TableKeepsKeys DEF Housekeeping, vars
  <2> QED
    BY <1>2, <2>1 DEF Housekeeping, vars, Undisturbed, Responses
<1>3. ASSUME NEW q \in Watched, DeviceStep(q)
      PROVE  Undisturbed(p)
  BY <1>3, DeviceStepUndisturbed
<1>4. ASSUME NEW m \in net, Deliver(m)
      PROVE  Undisturbed(p) \/ \E k \in Key : SetsUpLeg(p, k)
  BY <1>4, AnswersUndisturbed, ReceiveUndisturbed DEF Deliver
<1>5. ASSUME NEW q \in Peer \ Watched, OtherPeer(q)
      PROVE  Undisturbed(p)
  BY <1>5, OtherPeerUndisturbed
<1> QED
  BY <1>2, <1>3, <1>4, <1>5 DEF Next

LEMMA RestartEndsLegs ==
    ASSUME RelayRestarts, NEW p \in Peer
    PROVE  legs'[p].key = NoLeg.key
  BY DEF RelayRestarts, Restart

LEMMA LegInvariantStep ==
    ASSUME Typed, LegInvariant, [Next]_vars
    PROVE  LegInvariant'
<1> SUFFICES ASSUME NEW p \in Watched
             PROVE  TokenSpent(p)'
  BY DEF LegInvariant
<1>1. TokenSpent(p) /\ p \in Peer
  BY ServiceConstants DEF LegInvariant
<1>2. CASE Undisturbed(p)
  BY <1>1, <1>2, UndisturbedKeeps
<1>3. ASSUME NEW k \in Key, SetsUpLeg(p, k)
      PROVE  TokenSpent(p)'
  <2>1. PICK m \in net : /\ spent' = spent \cup {m.token}
                         /\ net' \subseteq net \cup {RespFrame(p, m.token, k)}
    BY <1>3 DEF SetsUpLeg
  <2>2. /\ legs'[p].key = k /\ device'[p].key # k
        /\ \A n \in Responses(p) : n.key # k
    BY <1>3 DEF SetsUpLeg, FreshKey, Responses
  <2>3. \A n \in Responses(p)' : n \in Responses(p) \/ n = RespFrame(p, m.token, k)
    BY <2>1 DEF Responses
  <2>4. \A n \in Responses(p)' : n.key = k => n.token \in spent'
    BY <2>1, <2>2, <2>3, FrameFields
  <2> QED
    BY <2>2, <2>4 DEF TokenSpent
<1>4. CASE RelayRestarts
  BY <1>1, <1>4, RestartEndsLegs DEF TokenSpent, NoLeg, None
<1> QED
  BY <1>2, <1>3, <1>4, StepKinds

LEMMA LiveLegStep ==
    ASSUME Typed, LegInvariant, [Next]_vars, NEW p \in Watched,
           device[p].phase = "open", SameKey(p)
    PROVE  \/ legs'[p].key \in {legs[p].key, NoLeg.key}
           \/ \E m \in net : /\ m.kind = "INIT" /\ m.peer = p
                             /\ m.token # device[p].token
                             /\ m.token \in spent' \ spent
<1>1. p \in Peer /\ device[p] \in Device /\ TokenSpent(p)
  BY ServiceConstants DEF LegInvariant, Typed, ServiceTypeOK
<1>2. device[p].token \in spent
  <2>1. device[p].key \in Key /\ device[p].key # None
    BY <1>1, RelayConstants DEF Device, NoCarriage, None
  <2> QED
    BY <1>1, <2>1 DEF TokenSpent, SameKey
<1>3. ASSUME NEW k \in Key, SetsUpLeg(p, k)
      PROVE  \E m \in net : /\ m.kind = "INIT" /\ m.peer = p
                            /\ m.token # device[p].token
                            /\ m.token \in spent' \ spent
  BY <1>2, <1>3 DEF SetsUpLeg
<1> QED
  BY <1>1, <1>3, RestartEndsLegs, StepKinds DEF Undisturbed, NoLeg, None

\* While a device and the relay hold the same leg, the relay's collection or
\* restart ends it, and nothing else replaces it but a late HANDSHAKE_INIT of
\* an earlier attempt made with another token: none made with the leg's own
\* does, however the network lost, delayed, reordered or repeated it (token.rs
\* verify, replay.rs admit, leg.rs establish).
THEOREM LiveLegStandsAlways == Spec => LiveLegStands
<1>1. ServiceInit => LegInvariant
  BY ServiceConstants DEF ServiceInit, LegInvariant, TokenSpent, Init, NoLeg, None
<1>2. Typed /\ LegInvariant /\ [Next]_vars => LegInvariant'
  BY LegInvariantStep
<1>3. Typed /\ LegInvariant /\ [Next]_vars =>
        [\A p \in Watched : device[p].phase = "open" /\ SameKey(p) =>
            \/ legs'[p].key \in {legs[p].key, NoLeg.key}
            \/ \E m \in net : /\ m.kind = "INIT" /\ m.peer = p
                             /\ m.token # device[p].token
                             /\ m.token \in spent' \ spent]_vars
  BY LiveLegStep
<1> QED
  BY <1>1, <1>2, <1>3, TypedAlways, PTL DEF Spec, LiveLegStands
=============================================================================
