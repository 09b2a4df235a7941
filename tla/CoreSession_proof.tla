-------------------------- MODULE CoreSession_proof --------------------------
(***************************************************************************)
(* Proofs about CoreSession: for every set of peers, every length of the   *)
(* timers, every code a handshake may be refused with and every event of   *)
(* the host's, whatever comes between two steps of a connect.              *)
(***************************************************************************)
EXTENDS CoreSession, SessionMachine_proof, WellFoundedInduction

(***************************************************************************)
(* The rows a submission counts on: what answers its triggers where they   *)
(* are meant to be answered, and that something does.                      *)
(***************************************************************************)
Answers(r) ==
    /\ Event("NEGOTIATION_OK") \in r.on /\ Negotiating \in r.from => r.to = Connecting
    /\ Event("NEGOTIATION_FAIL") \in r.on /\ Negotiating \in r.from => r.to = Unparked
    /\ \A c : With("HANDSHAKE_OK", c) \in r.on /\ Connecting \in r.from
           => r.to = Steady(c)
    /\ Event("HANDSHAKE_FAIL") \in r.on /\ Connecting \in r.from => r.to = Unparked
    /\ Event("DISCONNECT_REQUESTED") \in r.on
           => r.to = Disconnected /\ (Blocked \in r.from => "authenticated_disarm" \in r.need)

LEMMA TriggersApart ==
    /\ \A k : Event(k).kind = k /\ Event(k).arg = NoArg
    /\ \A k, x : With(k, x).kind = k /\ With(k, x).arg = x
    /\ \A id : Timer(id).kind = "TIMER"
  BY DEF Event, With, Timer

LEMMA EstablishmentAnswers == \A r \in Establishment : Answers(r)
  BY Names, TriggersApart DEF Establishment, Row, Answers

LEMMA MobilityAnswers == \A r \in Mobility : Answers(r)
  BY Names, TriggersApart DEF Mobility, Row, Answers, MigrationEnd, Death, Carrying,
     AllSteady, AllDegraded, AllMigrating

LEMMA QualityAnswers == \A r \in Quality : Answers(r)
  BY Names, TriggersApart DEF Quality, Row, Answers, AllDegraded

LEMMA RecoveryAnswers == \A r \in Recovery : Answers(r)
  BY Names, TriggersApart DEF Recovery, Row, Answers, AllReconnecting

LEMMA EnforcementAnswers == \A r \in Enforcement : Answers(r)
  BY Names, TriggersApart DEF Enforcement, Row, Answers

LEMMA LifecycleAnswers == \A r \in Lifecycle : Answers(r)
  BY Names, TriggersApart DEF Lifecycle, Row, Answers

LEMMA TableAnswers == \A r \in Table : Answers(r)
  BY EstablishmentAnswers, MobilityAnswers, QualityAnswers, RecoveryAnswers,
     EnforcementAnswers, LifecycleAnswers DEF Table

LEMMA RowNumbers == \A r \in Table : r.row \in Nat
<1>1. \A r \in Establishment \cup Mobility : r.row \in Nat
  BY DEF Establishment, Mobility, Row
<1>2. \A r \in Quality \cup Recovery : r.row \in Nat
  BY DEF Quality, Recovery, Row
<1>3. \A r \in Enforcement \cup Lifecycle : r.row \in Nat
  BY DEF Enforcement, Lifecycle, Row
<1> QED
  BY <1>1, <1>2, <1>3 DEF Table

(* If a row applies, resolution finds one. *)
LEMMA ApplicableResolves ==
    ASSUME NEW s \in SessionState, NEW t \in Trigger, NEW g, NEW r \in Table,
           s \in r.from, t \in r.on, r.need \subseteq g, r.deny \cap g = {}
    PROVE  Resolve(s, t, g) # {}
<1> DEFINE rows == Applicable(s, t, g)
           numbers == {q.row : q \in rows}
<1>1. RowsFor[s][t] = {q \in {x \in Table : t \in x.on} : s \in q.from}
  BY DEF RowsFor, RowsOn
<1>2. r \in rows /\ rows \subseteq Table
  BY <1>1 DEF Applicable
<1>3. numbers \subseteq Nat /\ numbers # {}
  BY <1>2, RowNumbers
<1>4. PICK least \in numbers : \A n \in numbers : least <= n
  <2> HIDE DEF numbers
  <2>1. PICK least \in numbers : \A n \in numbers : ~ (<<n, least>> \in OpToRel(<, Nat))
    BY <1>3, NatLessThanWellFounded, WFMin
  <2>2. ASSUME NEW n \in numbers PROVE least <= n
    <3>1. n \in Nat /\ least \in Nat
      BY <1>3
    <3>2. ~ (n < least)
      BY <2>1, <3>1 DEF OpToRel
    <3> QED
      BY <3>1, <3>2
  <2> QED
    BY <2>2
<1>5. PICK q \in rows : q.row = least
  BY <1>4
<1>6. q \in FirstOf(rows)
  BY <1>4, <1>5 DEF FirstOf
<1> QED
  BY <1>6 DEF Resolve

(* A runtime of the table: well formed, and never rebuilt from a record. *)
Sound(c) == IsRuntime(c) /\ Agrees(c) /\ Owned(c) /\ ~c.restored

LEMMA FreshSound == Sound(Fresh) /\ Fresh.state = Disconnected
  BY FreshRuntime, FreshFields DEF Sound

LEMMA NoContextIsContext ==
    NoContext \in Context
    /\ \A code \in ReasonCode : [NoContext EXCEPT !.transport = code] \in Context
  BY DEF NoContext, Context

(* One event: a sound runtime again, which stayed, or moved as a row leads. *)
LEMMA EventApplied ==
    ASSUME NEW c, Sound(c), NEW t \in EventTrigger, NEW g, NEW ctx \in Context
    PROVE  /\ Sound(Apply(c, t, g, ctx))
           /\ Apply(c, t, g, ctx).state # c.state
                  => Leads(c.state, t, Apply(c, t, g, ctx).state, g)
<1> DEFINE d == Apply(c, t, g, ctx)
<1>1. t \in Trigger /\ t.kind # "TIMER"
  BY EventTriggers
<1>2. IsRuntime(d) /\ Agrees(d) /\ Owned(d)
  BY <1>1, ApplyRuntime DEF Sound
<1>3. d.state # c.state => Leads(c.state, t, d.state, g)
  BY <1>1, ApplyMoves DEF Sound
<1>4. d.restored <=> c.restored /\ d.state = c.state
  BY <1>1, ApplyMoves DEF Sound
<1> QED
  BY <1>2, <1>3, <1>4 DEF Sound

(* When some row applies and every row that could goes on to one state. *)
LEMMA EventTakes ==
    ASSUME NEW c, Sound(c), NEW t \in EventTrigger, NEW g, NEW ctx \in Context,
           NEW r \in Table, c.state \in r.from, t \in r.on, r.need \subseteq g,
           r.deny \cap g = {}
    PROVE  \E q \in Table : /\ c.state \in q.from /\ t \in q.on
                            /\ Apply(c, t, g, ctx).state = q.to
<1> DEFINE rows == Resolve(c.state, t, g)
           row == CHOOSE q \in rows : TRUE
           n == MachineApply(c, t, g, ctx)
           d == Apply(c, t, g, ctx)
<1>1. t \in Trigger /\ t.kind # "TIMER" /\ Fields(c) /\ IsRuntime(c) /\ Agrees(c)
  BY EventTriggers, RuntimeFields DEF Sound
<1>2. row \in rows
  BY <1>1, ApplicableResolves DEF Fields
<1>3. row \in Table /\ c.state \in row.from /\ t \in row.on
  <2>1. RowsFor[c.state][t] = {q \in {x \in Table : t \in x.on} : c.state \in q.from}
    BY <1>1 DEF RowsFor, RowsOn, Fields
  <2> QED
    BY <1>2, <2>1 DEF Resolve, FirstOf, Applicable
<1>4. n = Moved(c, row, t, g, ctx)
  BY <1>2 DEF MachineApply, Take
<1>5. n.state = row.to
  BY <1>1, <1>4 DEF Moved, Fields
<1>6. IsRuntime(n)
  BY <1>1, MachineApplyRuntime
<1>7. d.state = n.state
  <2>1. d = IF n.state # c.state THEN Rearm(n) ELSE n
    BY <1>1 DEF Apply, Follow
  <2>2. Fields(n)
    BY <1>6, RuntimeFields
  <2> HIDE DEF n, d
  <2> QED
    BY <2>1, <2>2, RearmRuntime
<1> QED
  BY <1>3, <1>5, <1>7

(* Nothing happens when no row can apply. *)
LEMMA EventIgnored ==
    ASSUME NEW c, Sound(c), NEW t \in EventTrigger, NEW g, NEW ctx \in Context,
           Resolve(c.state, t, g) = {}
    PROVE  Apply(c, t, g, ctx).state = c.state
<1>1. t \in Trigger /\ t.kind # "TIMER"
  BY EventTriggers
<1> QED
  BY <1>1 DEF MachineApply, Take, Apply, Follow

(* The events the commands apply are events of the table. *)
LEMMA CommandEvents ==
    /\ \A k \in {"CONNECT_REQUESTED", "CANDIDATES_READY", "CANDIDATE_TIMEOUT",
                 "NEGOTIATION_OK", "NEGOTIATION_FAIL", "HANDSHAKE_FAIL",
                 "DISCONNECT_REQUESTED", "RESUME"} : Event(k) \in EventTrigger
    /\ \A c \in {"WAN_DIRECT", "RELAYED"} : With("HANDSHAKE_OK", c) \in EventTrigger
    /\ \A k \in HostEventKind : Event(k) \in EventTrigger
  BY DEF EventTrigger, PlainEvent, PathClass, HostEventKind

(* T05, T07: the negotiation is decided. *)
LEMMA NegotiationDecided ==
    ASSUME NEW c, Sound(c), c.state = Negotiating
    PROVE  /\ Apply(c, Event("NEGOTIATION_OK"), {"retry_budget_available"},
                    NoContext).state = Connecting
           /\ Apply(c, Event("NEGOTIATION_FAIL"), {"retry_budget_available"},
                    NoContext).state = Unparked
<1> DEFINE g == {"retry_budget_available"}
           yes == Row(5, {Negotiating}, {Event("NEGOTIATION_OK")}, {}, {}, Connecting, NoCode)
           no == Row(7, {Negotiating}, {Event("NEGOTIATION_FAIL"), Timer("NEGOTIATE")},
                     {"retry_budget_available"}, {},
                     Unparked, "NET_SESSION_NEGOTIATION_FAILED")
<1>1. yes \in Table /\ no \in Table
  BY DEF Table, Establishment
<1>2. /\ c.state \in yes.from /\ Event("NEGOTIATION_OK") \in yes.on
      /\ yes.need \subseteq g /\ yes.deny \cap g = {}
  BY DEF Row
<1>3. /\ c.state \in no.from /\ Event("NEGOTIATION_FAIL") \in no.on
      /\ no.need \subseteq g /\ no.deny \cap g = {}
  BY DEF Row
<1> HIDE DEF yes, no, g
<1>4. PICK q \in Table : /\ c.state \in q.from /\ Event("NEGOTIATION_OK") \in q.on
                         /\ Apply(c, Event("NEGOTIATION_OK"), g, NoContext).state = q.to
  BY <1>1, <1>2, CommandEvents, NoContextIsContext, EventTakes
<1>5. PICK r \in Table : /\ c.state \in r.from /\ Event("NEGOTIATION_FAIL") \in r.on
                         /\ Apply(c, Event("NEGOTIATION_FAIL"), g, NoContext).state = r.to
  BY <1>1, <1>3, CommandEvents, NoContextIsContext, EventTakes
<1> QED
  BY <1>4, <1>5, TableAnswers DEF Answers, g

(* T09, T10, T12: so is the handshake. *)
LEMMA HandshakeDecided ==
    ASSUME NEW c, Sound(c), c.state = Connecting, NEW ctx \in Context
    PROVE  /\ \A g : {"path_validated", "no_l2_path_won"} \subseteq g =>
                  Apply(c, With("HANDSHAKE_OK", "WAN_DIRECT"), g, NoContext).state
                      = Steady("WAN_DIRECT")
           /\ \A g : {"path_validated", "no_direct_path_won"} \subseteq g =>
                  Apply(c, With("HANDSHAKE_OK", "RELAYED"), g, NoContext).state
                      = Steady("RELAYED")
           /\ Apply(c, Event("HANDSHAKE_FAIL"), {"retry_budget_available"}, ctx).state
                  = Unparked
<1> DEFINE direct == Row(9, {Connecting}, {With("HANDSHAKE_OK", "WAN_DIRECT")},
                         {"path_validated", "no_l2_path_won"}, {}, Steady("WAN_DIRECT"), NoCode)
           relayed == Row(10, {Connecting}, {With("HANDSHAKE_OK", "RELAYED")},
                          {"path_validated", "no_direct_path_won"}, {}, Steady("RELAYED"),
                          NoCode)
           failed == Row(12, {Connecting}, {Event("HANDSHAKE_FAIL"), Timer("CONNECT")},
                         {"retry_budget_available"}, {}, Unparked, TransportCode)
<1>1. direct \in Table /\ relayed \in Table /\ failed \in Table
  BY DEF Table, Establishment
<1>2. /\ direct.from = {Connecting} /\ relayed.from = {Connecting} /\ failed.from = {Connecting}
      /\ direct.deny = {} /\ relayed.deny = {} /\ failed.deny = {}
      /\ With("HANDSHAKE_OK", "WAN_DIRECT") \in direct.on
      /\ With("HANDSHAKE_OK", "RELAYED") \in relayed.on
      /\ Event("HANDSHAKE_FAIL") \in failed.on
      /\ direct.need = {"path_validated", "no_l2_path_won"}
      /\ relayed.need = {"path_validated", "no_direct_path_won"}
      /\ failed.need = {"retry_budget_available"}
  BY DEF Row
<1> HIDE DEF direct, relayed, failed
<1>3. ASSUME NEW g, {"path_validated", "no_l2_path_won"} \subseteq g
      PROVE  Apply(c, With("HANDSHAKE_OK", "WAN_DIRECT"), g, NoContext).state
                 = Steady("WAN_DIRECT")
  <2>1. PICK q \in Table :
            /\ c.state \in q.from /\ With("HANDSHAKE_OK", "WAN_DIRECT") \in q.on
            /\ Apply(c, With("HANDSHAKE_OK", "WAN_DIRECT"), g, NoContext).state = q.to
    BY <1>1, <1>2, <1>3, CommandEvents, NoContextIsContext, EventTakes
  <2> QED
    BY <2>1, TableAnswers DEF Answers
<1>4. ASSUME NEW g, {"path_validated", "no_direct_path_won"} \subseteq g
      PROVE  Apply(c, With("HANDSHAKE_OK", "RELAYED"), g, NoContext).state
                 = Steady("RELAYED")
  <2>1. PICK q \in Table :
            /\ c.state \in q.from /\ With("HANDSHAKE_OK", "RELAYED") \in q.on
            /\ Apply(c, With("HANDSHAKE_OK", "RELAYED"), g, NoContext).state = q.to
    BY <1>1, <1>2, <1>4, CommandEvents, NoContextIsContext, EventTakes
  <2> QED
    BY <2>1, TableAnswers DEF Answers
<1>5. PICK q \in Table :
          /\ c.state \in q.from /\ Event("HANDSHAKE_FAIL") \in q.on
          /\ Apply(c, Event("HANDSHAKE_FAIL"), {"retry_budget_available"}, ctx).state = q.to
  BY <1>1, <1>2, CommandEvents, EventTakes
<1> QED
  BY <1>3, <1>4, <1>5, TableAnswers DEF Answers

(* T38, T32: a disconnect always ends a Session, but a blocked one, which it *)
(* leaves as it is.                                                          *)
LEMMA DisconnectEnds ==
    ASSUME NEW c, Sound(c)
    PROVE  Apply(c, Event("DISCONNECT_REQUESTED"), {}, NoContext).state
               = IF c.state = Blocked THEN Blocked ELSE Disconnected
<1> DEFINE t == Event("DISCONNECT_REQUESTED")
           r == Row(38, SessionState \ {Blocked}, {t}, {}, {}, Disconnected, NoCode)
<1>1. r \in Table
  BY DEF Table, Lifecycle
<1>2. r.from = SessionState \ {Blocked} /\ t \in r.on /\ r.need = {} /\ r.deny = {}
  BY DEF Row
<1>3. t \in EventTrigger /\ t \in Trigger /\ c.state \in SessionState
  BY CommandEvents, EventTriggers, RuntimeFields DEF Sound, Fields
<1> HIDE DEF r, t
<1>4. ASSUME c.state # Blocked
      PROVE  Apply(c, t, {}, NoContext).state = Disconnected
  <2>1. c.state \in r.from /\ r.need \subseteq {} /\ r.deny \cap {} = {}
    BY <1>2, <1>3, <1>4
  <2>2. PICK q \in Table : /\ c.state \in q.from /\ t \in q.on
                           /\ Apply(c, t, {}, NoContext).state = q.to
    BY <1>1, <1>2, <1>3, <2>1, NoContextIsContext, EventTakes
  <2> QED
    BY <2>2, TableAnswers DEF Answers, t
<1>5. ASSUME c.state = Blocked
      PROVE  Apply(c, t, {}, NoContext).state = Blocked
  <2>1. RowsFor[c.state][t] = {q \in {x \in Table : t \in x.on} : c.state \in q.from}
    BY <1>3 DEF RowsFor, RowsOn
  <2>2. Applicable(c.state, t, {}) = {}
    BY <1>5, <2>1, TableAnswers DEF Applicable, Answers, t
  <2>3. Resolve(c.state, t, {}) = {}
    BY <2>2 DEF Resolve, FirstOf
  <2> QED
    BY <1>3, <1>5, <2>3, NoContextIsContext, EventIgnored
<1> QED
  BY <1>4, <1>5 DEF t

-----------------------------------------------------------------------------
(***************************************************************************)
(* The inductive invariant.  None of the properties is inductive alone:    *)
(* each says what holds when no submission is in flight, and what the      *)
(* steps of a submission owe each other is what makes it so.  Fits relates *)
(* an entry to the step its peer's submission is at:                       *)
(*   - NEGOTIATING and CONNECTING last only while that submission lasts,   *)
(*   - key material is away only while the handshake has it,               *)
(*   - a peer with a submission or a record is known.                      *)
(* Good adds that the tunnel is there from its birth to the report of it,  *)
(* and as long as the machine carries, until a shutdown: what              *)
(* CarryingHasTunnel needs of a report other actors' steps came before.    *)
(***************************************************************************)
Handshaking == {"HANDSHAKE", "START", "RELAY", "REACHED_DIRECT", "REACHED_RELAYED", "FAILED"}
Tunnelled == {"START", "REACHED_DIRECT", "REACHED_RELAYED"}
Steps == {"NEGOTIATE", "RECORD"} \cup Handshaking

At(o, p) == IF o.at \in Steps /\ o.peer = p THEN o.at ELSE "NONE"

IdleOp == [at |-> "IDLE"]
DialOp(o) == o.at = "DIAL_REST" /\ o = [at |-> "DIAL_REST", arming |-> TRUE, rest |-> o.rest]
StepOp(o) == o.at \in Steps /\ o = Step(o.at, o.peer, o.arming, o.rest)
OpOK(o) ==
    \/ o = IdleOp
    \/ DialOp(o) /\ o.rest \subseteq Peer
    \/ StepOp(o) /\ o.peer \in Peer /\ o.arming \in BOOLEAN /\ o.rest \subseteq Peer

Entry(e) ==
    e \in [known : BOOLEAN, rt : {e.rt}, keyed : BOOLEAN, sockets : BOOLEAN,
           candidates : BOOLEAN, tunnel : BOOLEAN, pumped : BOOLEAN]

Carries(c) == PhaseOf(c.state) = "CARRYING"

(* The entry alone, with the interface and the journal it goes with. *)
Stands(e, i) ==
    /\ e.pumped => e.tunnel /\ i
    /\ e.tunnel \/ e.keyed => e.known

Fits(e, at) ==
    /\ e.rt.state = Negotiating => at = "NEGOTIATE"
    /\ e.rt.state = Connecting => at \in Handshaking
    /\ e.tunnel /\ ~e.keyed => at = "HANDSHAKE"
    /\ at # "NONE" => e.known

Good(p, e, at, i, j, u) ==
    /\ Entry(e) /\ Sound(e.rt)
    /\ Stands(e, i) /\ Fits(e, at)
    /\ p \in j => e.known
    /\ u /\ (Carries(e.rt) \/ at \in Tunnelled) => e.tunnel

Shape ==
    /\ sess = [p \in Peer |-> sess[p]]
    /\ orphans \in [Peer -> 0 .. MaxOrphans]
    /\ iface \in BOOLEAN /\ up \in BOOLEAN
    /\ journal \subseteq Peer
    /\ OpOK(op)

Inv == Shape /\ \A p \in Peer : Good(p, sess[p], At(op, p), iface, journal, up)

LEMMA InvGives ==
    Inv => TypeOK /\ CarryingHasTunnel /\ PumpHasInterface /\ ConnectDecides
<1> SUFFICES ASSUME Inv
             PROVE  TypeOK /\ CarryingHasTunnel /\ PumpHasInterface /\ ConnectDecides
  OBVIOUS
<1>1. Shape /\ \A p \in Peer : Good(p, sess[p], At(op, p), iface, journal, up)
  BY DEF Inv
<1>2. TypeOK
  BY <1>1 DEF Shape, Good, Entry, Sound, Stands, TypeOK, Known
<1>3. CarryingHasTunnel /\ PumpHasInterface
  BY <1>1 DEF Good, Stands, CarryingHasTunnel, PumpHasInterface, Carries
<1>4. Idle => \A p \in Peer : At(op, p) = "NONE"
  BY DEF Idle, At, Steps, Handshaking
<1>5. ConnectDecides
  BY <1>1, <1>4 DEF Good, Fits, ConnectDecides, Handshaking
<1> QED
  BY <1>2, <1>3, <1>5

LEMMA InitInv == Init => Inv
<1> SUFFICES ASSUME Init PROVE Inv
  OBVIOUS
<1>1. sess = [p \in Peer |-> NewEntry] /\ op = IdleOp /\ journal = {} /\ iface = FALSE
      /\ up = TRUE /\ orphans = [p \in Peer |-> 0]
  BY DEF Init, IdleOp
<1>2. Shape
  <2>1. iface \in BOOLEAN /\ up \in BOOLEAN
    BY <1>1
  <2>2. orphans \in [Peer -> 0 .. MaxOrphans]
    BY <1>1, CoreAssumption
  <2>3. sess = [p \in Peer |-> sess[p]]
    BY <1>1
  <2> QED
    BY <1>1, <2>1, <2>2, <2>3 DEF Shape, OpOK
<1>3. ASSUME NEW p \in Peer
      PROVE  Good(p, NewEntry, "NONE", iface, journal, up)
  <2>1. /\ Entry(NewEntry) /\ NewEntry.rt = Fresh /\ ~NewEntry.tunnel /\ ~NewEntry.pumped
        /\ ~NewEntry.keyed
    BY DEF NewEntry, Entry
  <2>2. /\ Sound(Fresh) /\ Fresh.state = Disconnected /\ ~Carries(Fresh)
        /\ Disconnected # Negotiating /\ Disconnected # Connecting
    BY FreshSound, Phases, Names DEF Carries
  <2> QED
    BY <1>1, <2>1, <2>2 DEF Good, Stands, Fits, Tunnelled
<1>4. \A p \in Peer : At(op, p) = "NONE"
  BY <1>1 DEF At, IdleOp, Steps, Handshaking
<1> QED
  BY <1>1, <1>2, <1>3, <1>4 DEF Inv

-----------------------------------------------------------------------------
(* Entries: what a change of one field leaves of the others. *)
WithRuntime(e, c) == [e EXCEPT !.rt = c]

LEMMA EntryRt ==
    ASSUME NEW e, Entry(e), NEW c
    PROVE  /\ Entry(WithRuntime(e, c)) /\ WithRuntime(e, c).rt = c
           /\ WithRuntime(e, c).known = e.known /\ WithRuntime(e, c).keyed = e.keyed
           /\ WithRuntime(e, c).tunnel = e.tunnel /\ WithRuntime(e, c).pumped = e.pumped
           /\ WithRuntime(e, c).sockets = e.sockets
           /\ WithRuntime(e, c).candidates = e.candidates
  BY DEF Entry, WithRuntime

LEMMA EntryPumped ==
    ASSUME NEW e, Entry(e), NEW b \in BOOLEAN
    PROVE  LET d == [e EXCEPT !.pumped = b]
           IN  /\ Entry(d) /\ d.rt = e.rt /\ d.known = e.known /\ d.keyed = e.keyed
               /\ d.tunnel = e.tunnel /\ d.pumped = b
  BY DEF Entry

LEMMA EntryKeyed ==
    ASSUME NEW e, Entry(e), NEW b \in BOOLEAN
    PROVE  LET d == [e EXCEPT !.keyed = b]
           IN  /\ Entry(d) /\ d.rt = e.rt /\ d.known = e.known /\ d.keyed = b
               /\ d.tunnel = e.tunnel /\ d.pumped = e.pumped
  BY DEF Entry

LEMMA EntryTornDown ==
    ASSUME NEW e, Entry(e)
    PROVE  /\ Entry(TornDown(e)) /\ TornDown(e).rt = e.rt /\ TornDown(e).known = e.known
           /\ TornDown(e).keyed = e.keyed /\ ~TornDown(e).tunnel /\ ~TornDown(e).pumped
  BY DEF Entry, TornDown

LEMMA EntryTold ==
    ASSUME NEW e, Entry(e), Sound(e.rt), NEW t \in EventTrigger, NEW g
    PROVE  LET d == Told(e, t, g)
           IN  /\ Entry(d) /\ Sound(d.rt) /\ d.rt = Apply(e.rt, t, g, NoContext)
               /\ d.known = e.known /\ d.keyed = e.keyed
               /\ d.tunnel = e.tunnel /\ d.pumped = e.pumped
               /\ d.sockets = e.sockets /\ d.candidates = e.candidates
               /\ d.rt.state # e.rt.state => Leads(e.rt.state, t, d.rt.state, g)
<1> DEFINE c == Apply(e.rt, t, g, NoContext)
<1>1. Told(e, t, g) = WithRuntime(e, c)
  BY DEF Told, WithRuntime, Entry
<1>2. Sound(c) /\ (c.state # e.rt.state => Leads(e.rt.state, t, c.state, g))
  BY EventApplied, NoContextIsContext
<1> HIDE DEF c
<1>3. /\ Entry(WithRuntime(e, c)) /\ WithRuntime(e, c).rt = c
      /\ WithRuntime(e, c).known = e.known /\ WithRuntime(e, c).keyed = e.keyed
      /\ WithRuntime(e, c).tunnel = e.tunnel /\ WithRuntime(e, c).pumped = e.pumped
      /\ WithRuntime(e, c).sockets = e.sockets
      /\ WithRuntime(e, c).candidates = e.candidates
  BY EntryRt
<1> QED
  BY <1>1, <1>2, <1>3 DEF c

(* A move that no submission made: not into a submission's states, and into *)
(* CARRYING only from there, behind a tunnel or after a shutdown.           *)
Calm(e, s, u) ==
    /\ s = Negotiating => e.rt.state = Negotiating
    /\ s = Connecting => e.rt.state = Connecting
    /\ u /\ PhaseOf(s) = "CARRYING" => Carries(e.rt) \/ e.tunnel

LEMMA CalmGood ==
    ASSUME NEW p, NEW e, NEW at, NEW i, NEW j, NEW u, Good(p, e, at, i, j, u),
           NEW c, Sound(c), Calm(e, c.state, u)
    PROVE  Good(p, WithRuntime(e, c), at, i, j, u)
<1>1. Entry(e)
  BY DEF Good
<1> QED
  BY <1>1, EntryRt DEF Good, Fits, Stands, Calm, Carries

(* What an event does that is neither of the two that open. *)
LEMMA ToldCalm ==
    ASSUME NEW e, Entry(e), Sound(e.rt), NEW t \in EventTrigger, NEW g, NEW u,
           t.kind \notin {"CANDIDATES_READY", "NEGOTIATION_OK"},
           u => e.tunnel \/ g \cap Evidence = {}
    PROVE  Calm(e, Told(e, t, g).rt.state, u)
<1>1. t # Event("CANDIDATES_READY") /\ t # Event("NEGOTIATION_OK")
  BY TriggersApart
<1>2. Told(e, t, g).rt.state # e.rt.state => Leads(e.rt.state, t, Told(e, t, g).rt.state, g)
  BY EntryTold
<1> QED
  BY <1>1, <1>2 DEF Calm, Leads, Carries

-----------------------------------------------------------------------------
(***************************************************************************)
(* What comes beside a submission keeps the invariant, whatever step the   *)
(* submission is at.                                                       *)
(***************************************************************************)
LEMMA InvParts ==
    /\ Inv <=> Shape /\ \A p \in Peer : Good(p, sess[p], At(op, p), iface, journal, up)
    /\ Inv' <=> /\ Shape'
                /\ \A p \in Peer : Good(p, sess'[p], At(op', p), iface', journal', up')
  BY DEF Inv, Good, Entry, Sound, Stands, Fits, At, Carries, IsRuntime, Agrees, Owned, Armed

LEMMA ShapeKept ==
    ASSUME Shape, sess' = [p \in Peer |-> sess'[p]],
           UNCHANGED <<orphans, iface, journal, op, up>>
    PROVE  Shape'
  BY DEF Shape, OpOK, DialOp, StepOp

(* One entry changed and nothing else did. *)
LEMMA OneEntry ==
    ASSUME Inv, NEW p \in Peer, NEW e, sess' = [sess EXCEPT ![p] = e],
           Good(p, e, At(op, p), iface, journal, up),
           UNCHANGED <<orphans, iface, journal, op, up>>
    PROVE  Inv'
<1>1. Shape /\ \A q \in Peer : Good(q, sess[q], At(op, q), iface, journal, up)
  BY InvParts
<1>2. sess' = [q \in Peer |-> IF q = p THEN e ELSE sess[q]]
  BY <1>1 DEF Shape
<1>3. Shape'
  BY <1>1, <1>2, ShapeKept
<1>4. \A q \in Peer : Good(q, sess'[q], At(op', q), iface', journal', up')
  BY <1>1, <1>2
<1> QED
  BY <1>3, <1>4, InvParts

LEMMA InstallKeyingInv ==
    ASSUME Inv, NEW p \in Peer, InstallKeying(p)
    PROVE  Inv'
<1> DEFINE e == [sess[p] EXCEPT !.known = TRUE, !.keyed = TRUE]
<1>1. Good(p, sess[p], At(op, p), iface, journal, up) /\ Shape
  BY InvParts
<1>2. sess' = [sess EXCEPT ![p] = e]
  BY <1>1 DEF InstallKeying, Shape
<1>3. /\ Entry(e) /\ e.rt = sess[p].rt /\ e.known /\ e.keyed /\ e.tunnel = sess[p].tunnel
      /\ e.pumped = sess[p].pumped
  BY <1>1 DEF Good, Entry
<1> HIDE DEF e
<1>4. Good(p, e, At(op, p), iface, journal, up)
  BY <1>1, <1>3 DEF Good, Stands, Fits
<1> QED
  BY <1>2, <1>4, OneEntry DEF InstallKeying

LEMMA TickSessionInv ==
    ASSUME Inv, NEW p \in Peer, TickSession(p)
    PROVE  Inv'
<1>1. Good(p, sess[p], At(op, p), iface, journal, up) /\ Shape
  BY InvParts
<1>2. PICK c \in Tick(sess[p].rt, {}, NoContext) : sess' = [sess EXCEPT ![p].rt = c]
  BY DEF TickSession
<1>3. sess' = [sess EXCEPT ![p] = WithRuntime(sess[p], c)]
  BY <1>1, <1>2 DEF Shape, WithRuntime
<1>4. /\ IsRuntime(sess[p].rt) /\ Agrees(sess[p].rt) /\ Owned(sess[p].rt)
      /\ Due(sess[p].rt) # {} /\ NoContext \in Context
  BY <1>1, NoContextIsContext DEF Good, Sound, TickSession
<1>5. Complete(c) /\ Ticked(sess[p].rt, c, {})
  BY <1>2, <1>4, TickRuntime, TickMoves
<1>6. Sound(c)
  BY <1>5 DEF Complete, Mid, Sound, Owned
<1>7. Calm(sess[p], c.state, up)
  <2>1. CASE Stayed(sess[p].rt, c)
    BY <2>1 DEF Stayed, Calm, Carries
  <2>2. CASE Expired(sess[p].rt, c, {})
    <3>1. PICK id \in TimerId : Leads(sess[p].rt.state, Timer(id), c.state, {})
      BY <2>2 DEF Expired
    <3>2. \A k \in {"CANDIDATES_READY", "NEGOTIATION_OK"} : Timer(id) # Event(k)
      BY TriggersApart
    <3> QED
      BY <3>1, <3>2 DEF Leads, Calm, Carries
  <2> QED
    BY <1>5, <2>1, <2>2 DEF Ticked
<1>8. Good(p, WithRuntime(sess[p], c), At(op, p), iface, journal, up)
  BY <1>1, <1>6, <1>7, CalmGood
<1> QED
  BY <1>3, <1>8, OneEntry DEF TickSession

LEMMA ResumeOnWireInv ==
    ASSUME Inv, NEW p \in Peer, ResumeOnWire(p)
    PROVE  Inv'
<1>1. Good(p, sess[p], At(op, p), iface, journal, up) /\ Shape
  BY InvParts
<1>2. PICK g \in {{"path_plausibly_survived"}, {"rekey_window_exceeded"}, {}} :
          sess' = [sess EXCEPT ![p] = Told(@, Event("RESUME"), g)]
  BY DEF ResumeOnWire
<1> DEFINE c == Apply(sess[p].rt, Event("RESUME"), g, NoContext)
<1>3. sess' = [sess EXCEPT ![p] = WithRuntime(sess[p], c)]
  BY <1>1, <1>2 DEF Shape, WithRuntime, Told, Good, Entry
<1>4. Event("RESUME") \in EventTrigger /\ Event("RESUME").kind = "RESUME"
  BY CommandEvents, TriggersApart
<1>5. sess[p].tunnel
  BY <1>1 DEF Good, Stands, ResumeOnWire
<1>6. Calm(sess[p], Told(sess[p], Event("RESUME"), g).rt.state, up)
  BY <1>1, <1>4, <1>5, ToldCalm DEF Good
<1>7. Told(sess[p], Event("RESUME"), g).rt = c /\ Sound(c)
  BY <1>1, <1>4, EntryTold DEF Good
<1> HIDE DEF c
<1>8. Good(p, WithRuntime(sess[p], c), At(op, p), iface, journal, up)
  BY <1>1, <1>6, <1>7, CalmGood
<1> QED
  BY <1>3, <1>8, OneEntry DEF ResumeOnWire

(* Several entries changed, each calmly, and nothing else did. *)
LEMMA CalmEntries ==
    ASSUME Inv, NEW f,
           sess' = [p \in Peer |-> WithRuntime(sess[p], f[p])],
           \A p \in Peer : Sound(f[p]) /\ Calm(sess[p], f[p].state, up),
           UNCHANGED <<orphans, iface, journal, op, up>>
    PROVE  Inv'
<1>1. Shape /\ \A p \in Peer : Good(p, sess[p], At(op, p), iface, journal, up)
  BY InvParts
<1>2. Shape'
  BY <1>1, ShapeKept
<1>3. \A p \in Peer : Good(p, WithRuntime(sess[p], f[p]), At(op, p), iface, journal, up)
  BY <1>1, CalmGood
<1> QED
  BY <1>2, <1>3, InvParts

LEMMA PassTimeInv ==
    ASSUME Inv, PassTime
    PROVE  Inv'
<1> DEFINE f == [p \in Peer |-> Elapse(sess[p].rt)]
<1>1. Shape /\ \A p \in Peer : Good(p, sess[p], At(op, p), iface, journal, up)
  BY InvParts
<1>2. sess' = [p \in Peer |-> WithRuntime(sess[p], f[p])]
  BY <1>1 DEF PassTime, WithRuntime, Good, Entry
<1>3. ASSUME NEW p \in Peer
      PROVE  Sound(f[p]) /\ Calm(sess[p], f[p].state, up)
  <2> DEFINE c == sess[p].rt
  <2>1. IsRuntime(c) /\ Agrees(c) /\ Owned(c) /\ ~c.restored
    BY <1>1 DEF Good, Sound
  <2>2. f[p] = Elapse(c)
    OBVIOUS
  <2> HIDE DEF c, f
  <2>3. Elapse(c) = [state |-> c.state, reason |-> c.reason, profile |-> c.profile,
                     left |-> [t \in Armed(c) |-> IF c.left[t] > 0 THEN c.left[t] - 1 ELSE 0],
                     restored |-> c.restored]
    BY <2>1, RuntimeFields DEF Fields, Elapse
  <2>4. Sound(Elapse(c)) /\ Elapse(c).state = c.state
    BY <2>1, <2>3, ElapseRuntime DEF Sound
  <2> QED
    BY <2>2, <2>4 DEF Calm, Carries, c
<1> HIDE DEF f
<1> QED
  BY <1>2, <1>3, CalmEntries DEF PassTime

LEMMA HostReportsInv ==
    ASSUME Inv, NEW event \in HostEvent, HostReports(event)
    PROVE  Inv'
<1> DEFINE f == [p \in Peer |-> IF p \in Known
                                THEN Apply(sess[p].rt, event, {}, NoContext)
                                ELSE sess[p].rt]
<1>1. Shape /\ \A p \in Peer : Good(p, sess[p], At(op, p), iface, journal, up)
  BY InvParts
<1>2. \A p \in Peer : Told(sess[p], event, {})
                          = WithRuntime(sess[p], Apply(sess[p].rt, event, {}, NoContext))
  BY <1>1 DEF Told, WithRuntime, Good, Entry
<1>3. \A p \in Peer : sess[p] = WithRuntime(sess[p], sess[p].rt)
  BY <1>1 DEF WithRuntime, Good, Entry
<1>4. sess' = [p \in Peer |-> WithRuntime(sess[p], f[p])]
  <2>1. \A p \in Peer : sess'[p] = WithRuntime(sess[p], f[p])
    BY <1>2, <1>3 DEF HostReports
  <2>2. sess' = [p \in Peer |-> sess'[p]]
    BY DEF HostReports
  <2> QED
    BY <2>1, <2>2
<1>5. PICK k \in HostEventKind : event = Event(k)
  BY CoreAssumption
<1>6. event \in EventTrigger /\ event.kind \notin {"CANDIDATES_READY", "NEGOTIATION_OK"}
  BY <1>5, CommandEvents, TriggersApart DEF HostEventKind
<1>7. ASSUME NEW p \in Peer
      PROVE  Sound(f[p]) /\ Calm(sess[p], f[p].state, up)
  <2>1. CASE p \in Known
    <3>1. f[p] = Apply(sess[p].rt, event, {}, NoContext)
      BY <2>1
    <3>2. Calm(sess[p], Told(sess[p], event, {}).rt.state, up)
      BY <1>1, <1>6, ToldCalm DEF Good
    <3>3. Told(sess[p], event, {}).rt = f[p] /\ Sound(f[p])
      BY <1>1, <1>6, <3>1, EntryTold DEF Good
    <3> QED
      BY <3>2, <3>3
  <2>2. CASE p \notin Known
    BY <1>1, <2>2 DEF Good, Calm, Carries
  <2> QED
    BY <2>1, <2>2
<1> HIDE DEF f
<1> QED
  BY <1>4, <1>7, CalmEntries DEF HostReports

-----------------------------------------------------------------------------
(* With no submission in flight: the commands that take the lock once. *)
LEMMA IdleHasNoStep == Idle => \A p \in Peer : At(op, p) = "NONE"
  BY DEF Idle, At, Steps, Handshaking

LEMMA NetUpInv ==
    ASSUME Inv, NetUp
    PROVE  Inv'
<1>1. Shape /\ \A p \in Peer : Good(p, sess[p], At(op, p), iface, journal, up)
  BY InvParts
<1>2. /\ op' = [at |-> "DIAL_REST", arming |-> TRUE, rest |-> Known] /\ Idle
      /\ UNCHANGED <<sess, orphans, iface, journal, up>>
  BY DEF NetUp
<1>3. OpOK(op')
  BY <1>2 DEF OpOK, DialOp, Known
<1>4. Shape'
  BY <1>1, <1>2, <1>3 DEF Shape
<1>5. \A p \in Peer : At(op', p) = "NONE"
  BY <1>2 DEF At, Steps, Handshaking
<1>6. \A p \in Peer : At(op, p) = "NONE"
  BY <1>2, IdleHasNoStep
<1> QED
  BY <1>1, <1>2, <1>4, <1>5, <1>6, InvParts

LEMMA ClosedEntry ==
    ASSUME NEW e, Entry(e), Sound(e.rt)
    PROVE  LET d == Closed(e)
           IN  /\ Entry(d) /\ Sound(d.rt) /\ d.known = e.known /\ d.keyed = e.keyed
               /\ ~d.tunnel /\ ~d.pumped
               /\ d.rt.state \in {Blocked, Disconnected}
<1> DEFINE s == TornDown(e)
           t == Event("DISCONNECT_REQUESTED")
<1>1. /\ Entry(s) /\ s.rt = e.rt /\ s.known = e.known
      /\ s.keyed = e.keyed /\ ~s.tunnel /\ ~s.pumped
  BY EntryTornDown
<1>2. t \in EventTrigger
  BY CommandEvents
<1>3. Closed(e) = Told(s, t, {})
  BY DEF Closed
<1> HIDE DEF s
<1>4. /\ Entry(Told(s, t, {})) /\ Sound(Told(s, t, {}).rt)
      /\ Told(s, t, {}).rt = Apply(s.rt, t, {}, NoContext)
      /\ Told(s, t, {}).known = s.known /\ Told(s, t, {}).keyed = s.keyed
      /\ Told(s, t, {}).tunnel = s.tunnel /\ Told(s, t, {}).pumped = s.pumped
  BY <1>1, <1>2, EntryTold
<1>5. Apply(e.rt, t, {}, NoContext).state \in {Blocked, Disconnected}
  BY DisconnectEnds
<1> QED
  BY <1>1, <1>3, <1>4, <1>5

(* A Session closed is good again, whatever becomes of the interface. *)
LEMMA ClosedGood ==
    ASSUME NEW p, NEW e, NEW i, NEW j, NEW u, Good(p, e, "NONE", i, j, u),
           NEW d, Entry(d), Sound(d.rt), d.known = e.known, d.keyed = e.keyed,
           ~d.tunnel, ~d.pumped, d.rt.state = Closed(e).rt.state,
           NEW i2, NEW j2, p \in j2 => p \in j
    PROVE  Good(p, d, "NONE", i2, j2, u)
<1>1. Entry(e) /\ Sound(e.rt)
  BY DEF Good
<1>2. d.rt.state \in {Blocked, Disconnected}
  BY <1>1, ClosedEntry
<1>3. d.rt.state # Negotiating /\ d.rt.state # Connecting
  BY <1>2, Names
<1>4. ~Carries(d.rt)
  BY <1>2, Phases DEF Carries
<1>5. Fits(d, "NONE") /\ Stands(d, i2)
  BY <1>3 DEF Fits, Stands, Good
<1> QED
  BY <1>4, <1>5 DEF Good, Tunnelled

LEMMA DisconnectInv ==
    ASSUME Inv, NEW p \in Peer, Disconnect(p)
    PROVE  Inv'
<1>1. Shape /\ \A q \in Peer : Good(q, sess[q], At(op, q), iface, journal, up)
  BY InvParts
<1>2. \A q \in Peer : At(op, q) = "NONE"
  BY IdleHasNoStep DEF Disconnect
<1>3. sess' = [q \in Peer |-> IF q = p THEN Closed(sess[p]) ELSE sess[q]]
  BY <1>1 DEF Disconnect, Shape
<1>4. /\ journal' = journal \ {q \in {p} : CloseFires(sess[q])}
      /\ UNCHANGED <<orphans, iface, op, up>>
  BY DEF Disconnect
<1>5. Shape'
  BY <1>1, <1>3, <1>4 DEF Shape, OpOK, DialOp, StepOp
<1>6. ASSUME NEW q \in Peer
      PROVE  Good(q, sess'[q], "NONE", iface, journal', up)
  <2>1. Good(q, sess[q], "NONE", iface, journal, up)
    BY <1>1, <1>2
  <2>2. CASE q = p
    <3> DEFINE d == Closed(sess[p])
    <3>1. Entry(sess[p]) /\ Sound(sess[p].rt)
      BY <2>1, <2>2 DEF Good
    <3>2. /\ Entry(d) /\ Sound(d.rt) /\ d.known = sess[p].known
          /\ d.keyed = sess[p].keyed /\ ~d.tunnel /\ ~d.pumped
      BY <3>1, ClosedEntry
    <3>3. p \in journal' => p \in journal
      BY <1>4
    <3>4. Good(p, d, "NONE", iface, journal', up)
      BY <2>1, <2>2, <3>2, <3>3, ClosedGood
    <3> QED
      BY <1>3, <2>2, <3>4
  <2>3. CASE q # p
    BY <1>3, <1>4, <2>1, <2>3 DEF Good
  <2> QED
    BY <2>2, <2>3
<1> QED
  BY <1>2, <1>4, <1>5, <1>6, InvParts

LEMMA NetDownInv ==
    ASSUME Inv, NetDown
    PROVE  Inv'
<1>1. Shape /\ \A q \in Peer : Good(q, sess[q], At(op, q), iface, journal, up)
  BY InvParts
<1>2. \A q \in Peer : At(op, q) = "NONE"
  BY IdleHasNoStep DEF NetDown
<1>3. sess' = [p \in Peer |-> IF p \in Known THEN TornDown(Closed(sess[p])) ELSE sess[p]]
  BY DEF NetDown
<1>4. /\ journal' = journal \ {p \in Known : CloseFires(sess[p])}
      /\ iface' \in {FALSE, iface} /\ UNCHANGED <<orphans, op, up>>
  BY DEF NetDown
<1>5. iface' \in BOOLEAN
  BY <1>1, <1>4 DEF Shape
<1>6. Shape'
  BY <1>1, <1>3, <1>4, <1>5 DEF Shape, OpOK, DialOp, StepOp
<1>7. ASSUME NEW q \in Peer
      PROVE  Good(q, sess'[q], "NONE", iface', journal', up)
  <2>1. Good(q, sess[q], "NONE", iface, journal, up)
    BY <1>1, <1>2
  <2>2. Entry(sess[q]) /\ Sound(sess[q].rt)
    BY <2>1 DEF Good
  <2>3. CASE q \in Known
    <3> DEFINE c == Closed(sess[q])
               d == TornDown(c)
    <3>1. /\ Entry(c) /\ Sound(c.rt) /\ c.known = sess[q].known
          /\ c.keyed = sess[q].keyed
      BY <2>2, ClosedEntry
    <3>2. /\ Entry(d) /\ d.rt = c.rt /\ d.known = c.known /\ d.keyed = c.keyed
          /\ ~d.tunnel /\ ~d.pumped
      BY <3>1, EntryTornDown
    <3>3. q \in journal' => q \in journal
      BY <1>4, <2>3
    <3>4. sess'[q] = d
      BY <1>3, <2>3
    <3>5. d.rt.state = Closed(sess[q]).rt.state
      BY <3>2
    <3> HIDE DEF c, d
    <3>6. Sound(d.rt) /\ d.known = sess[q].known /\ d.keyed = sess[q].keyed
      BY <3>1, <3>2
    <3>7. Good(q, d, "NONE", iface', journal', up)
      BY <2>1, <3>2, <3>3, <3>5, <3>6, ClosedGood
    <3> QED
      BY <3>4, <3>7
  <2>4. CASE q \notin Known
    <3>1. ~sess[q].known
      BY <2>4 DEF Known
    <3>2. q \notin journal' /\ sess'[q] = sess[q] /\ ~sess[q].pumped
      BY <1>3, <1>4, <2>1, <2>4, <3>1 DEF Good, Stands
    <3> QED
      BY <2>1, <3>2 DEF Good, Stands
  <2> QED
    BY <2>3, <2>4
<1> QED
  BY <1>2, <1>4, <1>6, <1>7, InvParts

LEMMA ShutdownInv ==
    ASSUME Inv, Shutdown
    PROVE  Inv'
<1>1. Shape /\ \A q \in Peer : Good(q, sess[q], At(op, q), iface, journal, up)
  BY InvParts
<1>2. /\ sess' = [p \in Peer |-> TornDown(sess[p])] /\ up' = FALSE
      /\ UNCHANGED <<orphans, iface, journal, op>>
  BY DEF Shutdown
<1>3. up' \in BOOLEAN
  BY <1>2
<1>4. Shape'
  BY <1>1, <1>2, <1>3 DEF Shape, OpOK, DialOp, StepOp
<1>5. ASSUME NEW q \in Peer
      PROVE  Good(q, TornDown(sess[q]), At(op, q), iface, journal, up')
  <2>1. Good(q, sess[q], At(op, q), iface, journal, up)
    BY <1>1
  <2>2. /\ Entry(TornDown(sess[q])) /\ TornDown(sess[q]).rt = sess[q].rt
        /\ TornDown(sess[q]).known = sess[q].known
        /\ TornDown(sess[q]).keyed = sess[q].keyed
        /\ ~TornDown(sess[q]).tunnel /\ ~TornDown(sess[q]).pumped
    BY <2>1, EntryTornDown DEF Good
  <2> QED
    BY <1>2, <2>1, <2>2 DEF Good, Stands, Fits
<1> QED
  BY <1>2, <1>4, <1>5, InvParts

-----------------------------------------------------------------------------
(***************************************************************************)
(* The steps of a submission.  Each turns an entry good at its step into   *)
(* one good at the next.                                                   *)
(***************************************************************************)
LEMMA DialedGood ==
    ASSUME NEW p, NEW e, NEW i, NEW j, NEW u, Good(p, e, "NONE", i, j, u), NEW gathered
    PROVE  Good(p, Dialed(e, gathered), "NEGOTIATE", i, j, u)
<1> DEFINE held == IF e.sockets THEN e
                   ELSE [e EXCEPT !.sockets = gathered # "NOTHING",
                                  !.candidates = gathered = "CANDIDATES"]
           found == IF held.candidates THEN "usable_candidate" ELSE "no_candidate_either_family"
           g == {"credentials_valid", "peer_authorized", found}
           ask == Event("CONNECT_REQUESTED")
           report == Event(IF held.candidates THEN "CANDIDATES_READY" ELSE "CANDIDATE_TIMEOUT")
           asked == Told(held, ask, g)
           admitted == [asked EXCEPT !.known = TRUE]
           d == Told(admitted, report, g)
<1>1. Dialed(e, gathered) = d
  BY DEF Dialed
<1>2. /\ Entry(e) /\ Sound(e.rt) /\ Stands(e, i) /\ Fits(e, "NONE")
      /\ u /\ Carries(e.rt) => e.tunnel
      /\ e.rt.state # Negotiating /\ e.rt.state # Connecting
      /\ e.tunnel => e.keyed
  BY DEF Good, Fits, Handshaking
<1>3. /\ Entry(held) /\ held.rt = e.rt /\ held.known = e.known /\ held.keyed = e.keyed
      /\ held.tunnel = e.tunnel /\ held.pumped = e.pumped
  BY <1>2 DEF Entry
<1>4. /\ ask \in EventTrigger /\ report \in EventTrigger
      /\ ask # Event("CANDIDATES_READY") /\ ask # Event("NEGOTIATION_OK")
      /\ report # Event("NEGOTIATION_OK")
  BY CommandEvents, TriggersApart
<1>5. g \cap Evidence = {}
  BY DEF Evidence
<1> HIDE DEF held, g, ask, report
<1>6. /\ Entry(asked) /\ Sound(asked.rt) /\ asked.rt = Apply(held.rt, ask, g, NoContext)
      /\ asked.known = held.known /\ asked.keyed = held.keyed
      /\ asked.tunnel = held.tunnel /\ asked.pumped = held.pumped
      /\ asked.rt.state # held.rt.state => Leads(held.rt.state, ask, asked.rt.state, g)
  BY <1>2, <1>3, <1>4, EntryTold
<1>7. /\ asked.rt.state # Connecting
      /\ Carries(asked.rt) => Carries(e.rt)
  BY <1>2, <1>3, <1>4, <1>5, <1>6 DEF Leads, Carries
<1> HIDE DEF asked
<1>8. /\ Entry(admitted) /\ admitted.rt = asked.rt /\ admitted.known
      /\ admitted.keyed = asked.keyed
      /\ admitted.tunnel = asked.tunnel /\ admitted.pumped = asked.pumped
  BY <1>6 DEF Entry
<1> HIDE DEF admitted
<1>9. /\ Entry(d) /\ Sound(d.rt)
      /\ d.known = admitted.known /\ d.keyed = admitted.keyed
      /\ d.tunnel = admitted.tunnel /\ d.pumped = admitted.pumped
      /\ d.rt.state # admitted.rt.state
             => Leads(admitted.rt.state, report, d.rt.state, g)
  BY <1>4, <1>6, <1>8, EntryTold
<1>10. /\ d.rt.state # Connecting
       /\ Carries(d.rt) => Carries(e.rt)
  BY <1>4, <1>5, <1>7, <1>8, <1>9 DEF Leads, Carries
<1> HIDE DEF d
<1>11. Fits(d, "NEGOTIATE")
  BY <1>2, <1>3, <1>6, <1>8, <1>9, <1>10 DEF Fits
<1>12. Stands(d, i)
  BY <1>2, <1>3, <1>6, <1>8, <1>9 DEF Stands
<1> QED
  BY <1>1, <1>2, <1>3, <1>6, <1>8, <1>9, <1>10, <1>11, <1>12 DEF Good, Tunnelled

(* One entry goes from one step of its peer's submission to the next. *)
LEMMA OneStep ==
    ASSUME Inv, NEW p \in Peer, NEW e, sess' = [sess EXCEPT ![p] = e],
           OpOK(op'), Good(p, e, At(op', p), iface, journal, up),
           \A q \in Peer \ {p} : At(op, q) = "NONE" /\ At(op', q) = "NONE",
           orphans' \in [Peer -> 0 .. MaxOrphans], UNCHANGED <<iface, journal, up>>
    PROVE  Inv'
<1>1. Shape /\ \A q \in Peer : Good(q, sess[q], At(op, q), iface, journal, up)
  BY InvParts
<1>2. sess' = [q \in Peer |-> IF q = p THEN e ELSE sess[q]]
  BY <1>1 DEF Shape
<1>3. Shape'
  BY <1>1, <1>2 DEF Shape
<1>4. ASSUME NEW q \in Peer
      PROVE  Good(q, sess'[q], At(op', q), iface', journal', up')
  <2>1. CASE q = p
    BY <1>2, <2>1
  <2>2. CASE q # p
    <3>1. Good(q, sess[q], At(op, q), iface, journal, up)
      BY <1>1
    <3>2. At(op, q) = "NONE" /\ At(op', q) = "NONE" /\ sess'[q] = sess[q]
      BY <1>2, <2>2
    <3> QED
      BY <3>1, <3>2
  <2> QED
    BY <2>1, <2>2
<1> QED
  BY <1>3, <1>4, InvParts

LEMMA DialInv ==
    ASSUME Inv, NEW p \in Peer, \A q \in Peer : At(op, q) = "NONE",
           NEW arming \in BOOLEAN, NEW rest \in SUBSET Peer, Dial(p, arming, rest)
    PROVE  Inv'
<1>1. Shape /\ \A q \in Peer : Good(q, sess[q], At(op, q), iface, journal, up)
  BY InvParts
<1>2. PICK gathered \in {"NOTHING", "SOCKETS_ONLY", "CANDIDATES"} :
          sess' = [sess EXCEPT ![p] = Dialed(@, gathered)]
  BY DEF Dial
<1>3. sess' = [sess EXCEPT ![p] = Dialed(sess[p], gathered)]
  BY <1>1, <1>2 DEF Shape
<1>4. op' = Step("NEGOTIATE", p, arming, rest) /\ UNCHANGED <<orphans, iface, journal, up>>
  BY DEF Dial
<1>5. OpOK(op')
  BY <1>4 DEF OpOK, StepOp, Step, Steps
<1>6. At(op', p) = "NEGOTIATE" /\ \A q \in Peer \ {p} : At(op', q) = "NONE"
  BY <1>4 DEF At, Step, Steps
<1>7. Good(p, Dialed(sess[p], gathered), At(op', p), iface, journal, up)
  BY <1>1, <1>6, DialedGood
<1> QED
  BY <1>1, <1>3, <1>4, <1>5, <1>6, <1>7, OneStep DEF Shape

LEMMA ConnectInv ==
    ASSUME Inv, NEW p \in Peer, Connect(p)
    PROVE  Inv'
<1>1. \A q \in Peer : At(op, q) = "NONE"
  BY IdleHasNoStep DEF Connect
<1> QED
  BY <1>1, DialInv DEF Connect

(* In net.up's loop, between two dials. *)
LEMMA Dialing ==
    ASSUME Inv, op.at = "DIAL_REST"
    PROVE  /\ op = [at |-> "DIAL_REST", arming |-> TRUE, rest |-> op.rest]
           /\ op.rest \subseteq Peer
           /\ \A q \in Peer : At(op, q) = "NONE"
<1>1. OpOK(op)
  BY DEF Inv, Shape
<1> QED
  BY <1>1 DEF OpOK, IdleOp, DialOp, StepOp, At, Steps, Handshaking

LEMMA DialNextInv ==
    ASSUME Inv, DialNext
    PROVE  Inv'
<1>1. op.at = "DIAL_REST"
  BY DEF DialNext
<1>2. PICK p \in op.rest : Dial(p, TRUE, op.rest \ {p})
  BY DEF DialNext
<1> QED
  BY <1>1, <1>2, Dialing, DialInv

LEMMA PassOverInv ==
    ASSUME Inv, PassOver
    PROVE  Inv'
<1>1. Shape /\ \A q \in Peer : Good(q, sess[q], At(op, q), iface, journal, up)
  BY InvParts
<1>2. /\ op = [at |-> "DIAL_REST", arming |-> TRUE, rest |-> op.rest]
      /\ op.rest \subseteq Peer /\ \A q \in Peer : At(op, q) = "NONE"
  BY Dialing DEF PassOver
<1>3. PICK p \in op.rest : op' = [op EXCEPT !.rest = @ \ {p}]
  BY DEF PassOver
<1>4. op' = [at |-> "DIAL_REST", arming |-> TRUE, rest |-> op.rest \ {p}]
  <2> DEFINE left == op.rest
  <2>1. op = [at |-> "DIAL_REST", arming |-> TRUE, rest |-> left]
    BY <1>2
  <2>2. op' = [op EXCEPT !.rest = left \ {p}]
    BY <1>3, <2>1
  <2> HIDE DEF left
  <2>3. op' = [at |-> "DIAL_REST", arming |-> TRUE, rest |-> left \ {p}]
    BY <2>1, <2>2
  <2> QED
    BY <2>3 DEF left
<1>5. OpOK(op') /\ \A q \in Peer : At(op', q) = "NONE"
  BY <1>2, <1>4 DEF OpOK, DialOp, At, Steps, Handshaking
<1>6. Shape'
  BY <1>1, <1>5 DEF Shape, PassOver
<1> QED
  BY <1>1, <1>2, <1>5, <1>6, InvParts DEF PassOver

LEMMA ArmInv ==
    ASSUME Inv, Arm
    PROVE  Inv'
<1>1. Shape /\ \A q \in Peer : Good(q, sess[q], At(op, q), iface, journal, up)
  BY InvParts
<1>2. \A q \in Peer : At(op, q) = "NONE"
  BY Dialing DEF Arm
<1>3. PICK armed \in BOOLEAN, started \in SUBSET {p \in Known : Startable(sess[p])} :
          /\ iface' = (iface \/ armed)
          /\ started # {} => armed
          /\ sess' = [p \in Peer |-> [sess[p] EXCEPT !.pumped = @ \/ p \in started]]
  BY DEF Arm
<1>4. op' = IdleOp /\ UNCHANGED <<orphans, journal, up>>
  BY DEF Arm, IdleOp
<1>5. OpOK(op') /\ \A q \in Peer : At(op', q) = "NONE"
  BY <1>4 DEF OpOK, IdleOp, At, Steps, Handshaking
<1>6. iface' \in BOOLEAN
  BY <1>3
<1>7. Shape'
  BY <1>1, <1>3, <1>4, <1>5, <1>6 DEF Shape
<1>8. ASSUME NEW q \in Peer
      PROVE  Good(q, sess'[q], "NONE", iface', journal, up)
  <2>1. Good(q, sess[q], "NONE", iface, journal, up) /\ Entry(sess[q])
    BY <1>1, <1>2 DEF Good
  <2> DEFINE b == sess[q].pumped \/ q \in started
             d == [sess[q] EXCEPT !.pumped = b]
  <2>2. sess'[q] = d
    BY <1>3, <2>1 DEF Entry
  <2>3. b \in BOOLEAN
    OBVIOUS
  <2>4. b => sess[q].tunnel /\ iface'
    BY <1>3, <2>1 DEF Good, Stands, Startable
  <2> HIDE DEF b
  <2>5. /\ Entry(d) /\ d.rt = sess[q].rt /\ d.known = sess[q].known
        /\ d.keyed = sess[q].keyed /\ d.tunnel = sess[q].tunnel /\ d.pumped = b
    BY <2>1, <2>3, EntryPumped
  <2> HIDE DEF d
  <2>6. Stands(d, iface')
    BY <2>1, <2>4, <2>5 DEF Good, Stands
  <2> QED
    BY <2>1, <2>2, <2>5, <2>6 DEF Good, Fits
<1> QED
  BY <1>4, <1>5, <1>7, <1>8, InvParts

(* In a connect, between its steps. *)
LEMMA InStep ==
    ASSUME Inv, op.at \notin {"IDLE", "DIAL_REST"}
    PROVE  /\ op.at \in Steps /\ op.peer \in Peer
           /\ op.arming \in BOOLEAN /\ op.rest \subseteq Peer
           /\ op = Step(op.at, op.peer, op.arming, op.rest)
           /\ At(op, op.peer) = op.at /\ \A q \in Peer \ {op.peer} : At(op, q) = "NONE"
<1>1. OpOK(op)
  BY DEF Inv, Shape
<1>2. StepOp(op) /\ op.peer \in Peer /\ op.arming \in BOOLEAN /\ op.rest \subseteq Peer
  BY <1>1 DEF OpOK, IdleOp, DialOp
<1> QED
  BY <1>2 DEF StepOp, At

LEMMA OnwardTo ==
    ASSUME Inv, op.at \notin {"IDLE", "DIAL_REST"}, NEW at \in Steps, Onward(at)
    PROVE  /\ OpOK(op') /\ At(op', op.peer) = at
           /\ \A q \in Peer \ {op.peer} : At(op, q) = "NONE" /\ At(op', q) = "NONE"
<1> DEFINE p == op.peer
           arming == op.arming
           rest == op.rest
           here == op.at
<1>1. /\ op = Step(here, p, arming, rest) /\ p \in Peer
      /\ arming \in BOOLEAN /\ rest \subseteq Peer
      /\ \A q \in Peer \ {p} : At(op, q) = "NONE"
  BY InStep
<1>2. op' = [op EXCEPT !.at = at]
  BY DEF Onward
<1>3. op' = Step(at, p, arming, rest)
  <2> HIDE DEF p, arming, rest, here
  <2> QED
    BY <1>1, <1>2 DEF Step
<1> HIDE DEF p, arming, rest
<1>4. OpOK(op')
  BY <1>1, <1>3 DEF OpOK, StepOp, Step
<1>5. At(op', p) = at /\ \A q \in Peer \ {p} : At(op', q) = "NONE"
  BY <1>3 DEF At, Step
<1> QED
  BY <1>1, <1>4, <1>5 DEF p

(* The same with only the entry and the step to think of. *)
LEMMA StepsOn ==
    ASSUME Inv, op.at \notin {"IDLE", "DIAL_REST"}, NEW at \in Steps, Onward(at),
           NEW e, sess' = [sess EXCEPT ![op.peer] = e],
           Good(op.peer, e, at, iface, journal, up),
           orphans' \in [Peer -> 0 .. MaxOrphans], UNCHANGED <<iface, journal, up>>
    PROVE  Inv'
<1>1. op.peer \in Peer
  BY InStep
<1>2. /\ OpOK(op') /\ At(op', op.peer) = at
      /\ \A q \in Peer \ {op.peer} : At(op, q) = "NONE" /\ At(op', q) = "NONE"
  BY OnwardTo
<1> QED
  BY <1>1, <1>2, OneStep

LEMMA Here ==
    ASSUME Inv, op.at \notin {"IDLE", "DIAL_REST"}
    PROVE  /\ op.peer \in Peer
           /\ Good(op.peer, sess[op.peer], op.at, iface, journal, up)
           /\ sess = [q \in Peer |-> sess[q]] /\ orphans \in [Peer -> 0 .. MaxOrphans]
  BY InStep, InvParts DEF Shape

LEMMA NegotiateInv ==
    ASSUME Inv, Negotiate
    PROVE  Inv'
<1> DEFINE p == op.peer
           e == sess[p]
           verdict == Event(IF e.keyed THEN "NEGOTIATION_OK" ELSE "NEGOTIATION_FAIL")
           told == Told(e, verdict, {"retry_budget_available"})
           heard == IF e.rt.state = Negotiating THEN told ELSE e
           lent == [heard EXCEPT !.keyed = FALSE]
<1>1. /\ p \in Peer /\ Good(p, e, "NEGOTIATE", iface, journal, up)
      /\ orphans \in [Peer -> 0 .. MaxOrphans] /\ op.at \notin {"IDLE", "DIAL_REST"}
      /\ UNCHANGED <<orphans, iface, journal, up>>
  BY Here DEF Negotiate
<1>2. IF heard.rt.state = Connecting
      THEN /\ sess' = [sess EXCEPT ![p] = lent]
           /\ Onward(IF e.keyed THEN "HANDSHAKE" ELSE "HANDSHAKE_UNKEYED")
      ELSE sess' = [sess EXCEPT ![p] = heard] /\ Onward("RECORD")
  BY DEF Negotiate
<1>3. verdict \in EventTrigger
  BY CommandEvents
<1>4. /\ Entry(e) /\ Sound(e.rt) /\ Fits(e, "NEGOTIATE") /\ Stands(e, iface)
      /\ e.rt.state # Connecting
  BY <1>1 DEF Good, Fits, Handshaking
<1>5. /\ Entry(told) /\ Sound(told.rt)
      /\ told.rt = Apply(e.rt, verdict, {"retry_budget_available"}, NoContext)
      /\ told.known = e.known /\ told.keyed = e.keyed
      /\ told.tunnel = e.tunnel /\ told.pumped = e.pumped
  BY <1>3, <1>4, EntryTold
<1>6. e.rt.state = Negotiating => told.rt.state = IF e.keyed THEN Connecting ELSE Unparked
  BY <1>4, <1>5, NegotiationDecided DEF verdict
<1> HIDE DEF told
<1>7. /\ Entry(heard) /\ Sound(heard.rt)
      /\ heard.known = e.known /\ heard.keyed = e.keyed
      /\ heard.tunnel = e.tunnel /\ heard.pumped = e.pumped
      /\ heard.rt.state = Connecting => e.keyed
      /\ heard.rt.state # Negotiating
      /\ heard.rt.state \in {e.rt.state, Connecting, Unparked}
  BY <1>4, <1>5, <1>6, Names
<1>8. Carries(heard.rt) => Carries(e.rt)
  BY <1>7, Phases, Names DEF Carries
<1> HIDE DEF heard, e, p
<1>9. CASE heard.rt.state = Connecting
  <2>1. /\ Entry(lent) /\ lent.rt = heard.rt /\ lent.known = heard.known
        /\ lent.tunnel = heard.tunnel /\ lent.pumped = heard.pumped
    BY <1>7, EntryKeyed
  <2>2. Good(p, lent, "HANDSHAKE", iface, journal, up)
    BY <1>1, <1>4, <1>7, <1>8, <1>9, <2>1, Names
       DEF Good, Fits, Stands, Handshaking, Tunnelled
  <2>3. sess' = [sess EXCEPT ![p] = lent] /\ Onward("HANDSHAKE")
    BY <1>2, <1>7, <1>9
  <2> HIDE DEF lent
  <2> QED
    BY <1>1, <2>2, <2>3, StepsOn DEF p, Steps, Handshaking
<1>10. CASE heard.rt.state # Connecting
  <2>1. Good(p, heard, "RECORD", iface, journal, up)
    BY <1>1, <1>4, <1>7, <1>8, <1>10 DEF Good, Fits, Stands, Tunnelled
  <2> QED
    BY <1>1, <1>2, <1>10, <2>1, StepsOn DEF p, Steps
<1> QED
  BY <1>9, <1>10

LEMMA HandshakeOkInv ==
    ASSUME Inv, HandshakeOk
    PROVE  Inv'
<1> DEFINE p == op.peer
           e == sess[p]
           d == [e EXCEPT !.keyed = TRUE, !.tunnel = TRUE, !.pumped = FALSE]
<1>1. /\ p \in Peer /\ Good(p, e, "HANDSHAKE", iface, journal, up)
      /\ orphans \in [Peer -> 0 .. MaxOrphans] /\ op.at \notin {"IDLE", "DIAL_REST"}
      /\ sess' = [sess EXCEPT ![p] = d] /\ Onward("START")
      /\ UNCHANGED <<iface, journal, up>>
  BY Here DEF HandshakeOk
<1>2. /\ e.pumped => orphans[p] < MaxOrphans
      /\ orphans' = [orphans EXCEPT ![p] = IF e.pumped THEN @ + 1 ELSE @]
  BY DEF HandshakeOk
<1>3. orphans' \in [Peer -> 0 .. MaxOrphans]
  BY <1>1, <1>2, CoreAssumption
<1>4. /\ Entry(d) /\ d.rt = e.rt /\ d.known = e.known /\ d.keyed /\ d.tunnel /\ ~d.pumped
  BY <1>1 DEF Good, Entry
<1> HIDE DEF d, e, p
<1>5. Good(p, d, "START", iface, journal, up)
  BY <1>1, <1>4 DEF Good, Fits, Stands, Handshaking
<1> QED
  BY <1>1, <1>3, <1>5, StepsOn DEF p, Steps, Handshaking

LEMMA HandshakeRefusedInv ==
    ASSUME Inv, HandshakeRefused
    PROVE  Inv'
<1> DEFINE p == op.peer
           e == sess[p]
           d == [e EXCEPT !.keyed = TRUE]
<1>1. op.at \notin {"IDLE", "DIAL_REST"} /\ op.at = "HANDSHAKE"
  <2>1. op.at \in {"HANDSHAKE", "HANDSHAKE_UNKEYED"}
    BY DEF HandshakeRefused
  <2>2. op.at \in Steps
    BY <2>1, InStep
  <2> QED
    BY <2>1, <2>2 DEF Steps, Handshaking
<1>2. /\ p \in Peer /\ Good(p, e, "HANDSHAKE", iface, journal, up)
      /\ orphans \in [Peer -> 0 .. MaxOrphans] /\ sess = [q \in Peer |-> sess[q]]
  BY <1>1, Here
<1>3. sess' = [sess EXCEPT ![p].keyed = (op.at = "HANDSHAKE")] /\ Onward("RELAY")
      /\ UNCHANGED <<orphans, iface, journal, up>>
  BY DEF HandshakeRefused
<1>4. (op.at = "HANDSHAKE") = TRUE
  BY <1>1
<1>5. sess' = [sess EXCEPT ![p] = d]
  BY <1>2, <1>3, <1>4
<1>6. /\ Entry(d) /\ d.rt = e.rt /\ d.known = e.known /\ d.keyed /\ d.tunnel = e.tunnel
      /\ d.pumped = e.pumped
  BY <1>2, EntryKeyed DEF Good
<1> HIDE DEF d, e, p
<1>7. Good(p, d, "RELAY", iface, journal, up)
  BY <1>2, <1>6 DEF Good, Fits, Stands, Handshaking, Tunnelled
<1> QED
  BY <1>1, <1>2, <1>3, <1>5, <1>7, StepsOn DEF p, Steps, Handshaking

LEMMA StartInv ==
    ASSUME Inv, Start
    PROVE  Inv'
<1> DEFINE p == op.peer
           e == sess[p]
<1>1. /\ p \in Peer /\ Good(p, e, "START", iface, journal, up)
      /\ orphans \in [Peer -> 0 .. MaxOrphans] /\ sess = [q \in Peer |-> sess[q]]
      /\ op.at \notin {"IDLE", "DIAL_REST"} /\ Onward("REACHED_DIRECT")
      /\ UNCHANGED <<orphans, iface, journal, up>>
  BY Here DEF Start
<1>2. PICK started \in BOOLEAN :
          /\ started => iface /\ Startable(e)
          /\ sess' = [sess EXCEPT ![p].pumped = @ \/ started]
  BY DEF Start
<1> DEFINE b == e.pumped \/ started
           d == [e EXCEPT !.pumped = b]
<1>3. sess' = [sess EXCEPT ![p] = d]
  BY <1>1, <1>2 DEF Good, Entry
<1>4. b \in BOOLEAN
  OBVIOUS
<1>5. b => e.tunnel /\ iface
  BY <1>1, <1>2 DEF Good, Stands, Startable
<1> HIDE DEF b
<1>6. /\ Entry(d) /\ d.rt = e.rt /\ d.known = e.known /\ d.keyed = e.keyed
      /\ d.tunnel = e.tunnel /\ d.pumped = b
  BY <1>1, <1>4, EntryPumped DEF Good
<1> HIDE DEF d, e, p
<1>7. Good(p, d, "REACHED_DIRECT", iface, journal, up)
  BY <1>1, <1>5, <1>6 DEF Good, Fits, Stands, Handshaking, Tunnelled
<1> QED
  BY <1>1, <1>3, <1>7, StepsOn DEF p, Steps, Handshaking

LEMMA RelayInv ==
    ASSUME Inv, Relay
    PROVE  Inv'
<1> DEFINE p == op.peer
           e == sess[p]
<1>1. /\ p \in Peer /\ Good(p, e, "RELAY", iface, journal, up)
      /\ orphans \in [Peer -> 0 .. MaxOrphans] /\ sess = [q \in Peer |-> sess[q]]
      /\ op.at \notin {"IDLE", "DIAL_REST"}
      /\ UNCHANGED <<sess, orphans, iface, journal, up>>
  BY Here DEF Relay
<1>2. sess' = [sess EXCEPT ![p] = e]
  BY <1>1
<1>3. \/ Onward("REACHED_RELAYED") /\ e.tunnel
      \/ Onward("FAILED")
  BY DEF Relay
<1> HIDE DEF e, p
<1>4. /\ e.tunnel => Good(p, e, "REACHED_RELAYED", iface, journal, up)
      /\ Good(p, e, "FAILED", iface, journal, up)
  BY <1>1 DEF Good, Fits, Handshaking, Tunnelled
<1> QED
  BY <1>1, <1>2, <1>3, <1>4, StepsOn DEF p, Steps, Handshaking

LEMMA ReachedInv ==
    ASSUME Inv, Reached
    PROVE  Inv'
<1> DEFINE p == op.peer
           e == sess[p]
           relayed == op.at = "REACHED_RELAYED"
           class == IF relayed THEN "RELAYED" ELSE "WAN_DIRECT"
           t == With("HANDSHAKE_OK", class)
           g == {"path_validated", "no_l2_path_won"}
                    \cup {x \in {"no_direct_path_won"} : relayed}
           d == Told(e, t, g)
<1>1. /\ op.at \in {"REACHED_DIRECT", "REACHED_RELAYED"} /\ op.at \notin {"IDLE", "DIAL_REST"}
      /\ Onward("RECORD") /\ UNCHANGED <<orphans, iface, journal, up>>
  BY DEF Reached
<1>2. /\ p \in Peer /\ Good(p, e, op.at, iface, journal, up)
      /\ orphans \in [Peer -> 0 .. MaxOrphans] /\ sess = [q \in Peer |-> sess[q]]
  BY <1>1, Here
<1>3. sess' = [sess EXCEPT ![p] = d]
  BY <1>2 DEF Reached
<1>4. /\ Entry(e) /\ Sound(e.rt) /\ Stands(e, iface) /\ (up => e.tunnel)
      /\ e.tunnel => e.keyed
      /\ e.known /\ e.rt.state # Negotiating
  BY <1>1, <1>2 DEF Good, Fits, Tunnelled
<1>5. t \in EventTrigger /\ t.kind \notin {"CANDIDATES_READY", "NEGOTIATION_OK"}
  BY CommandEvents, TriggersApart
<1>6. Calm(e, d.rt.state, up)
  BY <1>4, <1>5, ToldCalm
<1>7. /\ Entry(d) /\ Sound(d.rt) /\ d.rt = Apply(e.rt, t, g, NoContext)
      /\ d.known = e.known /\ d.keyed = e.keyed
      /\ d.tunnel = e.tunnel /\ d.pumped = e.pumped
  <2> HIDE DEF t, g, e
  <2> QED
    BY ZenonT(40), <1>4, <1>5, EntryTold
<1>8. d.rt.state # Connecting
  <2>1. CASE e.rt.state = Connecting
    <3>1. relayed => {"path_validated", "no_direct_path_won"} \subseteq g
      OBVIOUS
    <3>2. {"path_validated", "no_l2_path_won"} \subseteq g
      OBVIOUS
    <3>3. Apply(e.rt, t, g, NoContext).state \in {Steady("WAN_DIRECT"), Steady("RELAYED")}
      BY <1>4, <2>1, <3>1, <3>2, HandshakeDecided, NoContextIsContext
    <3> QED
      BY <1>7, <3>3, Names
  <2>2. CASE e.rt.state # Connecting
    BY <1>6, <2>2 DEF Calm
  <2> QED
    BY <2>1, <2>2
<1> HIDE DEF d, e, p
<1>9. Good(p, d, "RECORD", iface, journal, up)
  BY <1>4, <1>6, <1>7, <1>8, <1>2 DEF Good, Fits, Stands, Calm, Tunnelled
<1> QED
  BY <1>1, <1>2, <1>3, <1>9, StepsOn DEF p, Steps

LEMMA FailedAttemptInv ==
    ASSUME Inv, FailedAttempt
    PROVE  Inv'
<1> DEFINE p == op.peer
           e == sess[p]
           t == Event("HANDSHAKE_FAIL")
           g == {"retry_budget_available"}
<1>1. /\ op.at = "FAILED" /\ op.at \notin {"IDLE", "DIAL_REST"}
      /\ Onward("RECORD") /\ UNCHANGED <<orphans, iface, journal, up>>
  BY DEF FailedAttempt
<1>2. /\ p \in Peer /\ Good(p, e, "FAILED", iface, journal, up)
      /\ orphans \in [Peer -> 0 .. MaxOrphans] /\ sess = [q \in Peer |-> sess[q]]
  BY <1>1, Here
<1>3. PICK code \in Refusal :
          sess' = [sess EXCEPT ![p].rt = Apply(@, t, g, [NoContext EXCEPT !.transport = code])]
  BY DEF FailedAttempt
<1> DEFINE ctx == [NoContext EXCEPT !.transport = code]
           c == Apply(e.rt, t, g, ctx)
           d == WithRuntime(e, c)
<1>4. sess' = [sess EXCEPT ![p] = d]
  BY <1>2, <1>3 DEF WithRuntime, Good, Entry
<1>5. ctx \in Context /\ t \in EventTrigger
  BY NoContextIsContext, CoreAssumption, CommandEvents
<1>6. /\ Entry(e) /\ Sound(e.rt) /\ Stands(e, iface)
      /\ e.tunnel => e.keyed
      /\ e.known /\ e.rt.state # Negotiating
  BY <1>2 DEF Good, Fits
<1> HIDE DEF ctx
<1>7. Sound(c) /\ (c.state # e.rt.state => Leads(e.rt.state, t, c.state, g))
  BY <1>5, <1>6, EventApplied
<1>8. c.state # Connecting
  <2>1. CASE e.rt.state = Connecting
    BY <1>5, <1>6, <2>1, HandshakeDecided, Names
  <2>2. CASE e.rt.state # Connecting
    BY <1>7, <2>2, TriggersApart DEF Leads
  <2> QED
    BY <2>1, <2>2
<1>9. /\ c.state # Negotiating
      /\ Carries(c) => Carries(e.rt)
  <2>1. g \cap Evidence = {}
    BY DEF Evidence
  <2>2. t # Event("CANDIDATES_READY")
    BY TriggersApart
  <2> HIDE DEF g, t, c
  <2> QED
    BY <1>6, <1>7, <2>1, <2>2 DEF Leads, Carries
<1> HIDE DEF c
<1>10. /\ Entry(d) /\ d.rt = c /\ d.known = e.known /\ d.keyed = e.keyed
       /\ d.tunnel = e.tunnel /\ d.pumped = e.pumped
  <2> HIDE DEF e
  <2> QED
    BY ZenonT(40), <1>6, EntryRt
<1> HIDE DEF d, e, p
<1>11. Good(p, d, "RECORD", iface, journal, up)
  BY <1>2, <1>6, <1>7, <1>8, <1>9, <1>10 DEF Good, Fits, Stands, Tunnelled
<1> QED
  BY <1>1, <1>2, <1>4, <1>11, StepsOn DEF p, Steps

LEMMA RecordedInv ==
    ASSUME Inv, Recorded
    PROVE  Inv'
<1> DEFINE p == op.peer
<1>1. /\ op.at = "RECORD" /\ op.at \notin {"IDLE", "DIAL_REST"}
      /\ journal' = journal \cup {p} /\ Return
      /\ UNCHANGED <<sess, orphans, iface, up>>
  BY DEF Recorded
<1>2. Shape /\ \A q \in Peer : Good(q, sess[q], At(op, q), iface, journal, up)
  BY InvParts
<1>3. /\ p \in Peer /\ op.rest \subseteq Peer
      /\ At(op, p) = "RECORD" /\ \A q \in Peer \ {p} : At(op, q) = "NONE"
  BY <1>1, InStep
<1>4. OpOK(op') /\ \A q \in Peer : At(op', q) = "NONE"
  BY <1>1, <1>3 DEF Return, OpOK, DialOp, IdleOp, At, Steps, Handshaking
<1>5. Shape'
  BY <1>1, <1>2, <1>3, <1>4 DEF Shape
<1>6. ASSUME NEW q \in Peer
      PROVE  Good(q, sess[q], "NONE", iface, journal', up)
  <2>1. Good(q, sess[q], At(op, q), iface, journal, up)
    BY <1>2
  <2>2. CASE q = p
    <3>1. Good(q, sess[q], "RECORD", iface, journal, up)
      BY <1>3, <2>1, <2>2
    <3>2. sess[q].known
      BY <3>1 DEF Good, Fits
    <3> QED
      BY <3>1, <3>2 DEF Good, Fits, Tunnelled, Handshaking
  <2>3. CASE q # p
    <3>1. Good(q, sess[q], "NONE", iface, journal, up) /\ (q \in journal' => q \in journal)
      BY <1>1, <1>3, <2>1, <2>3
    <3> QED
      BY <3>1 DEF Good
  <2> QED
    BY <2>2, <2>3
<1> QED
  BY <1>1, <1>4, <1>5, <1>6, InvParts

LEMMA StepInv == Inv /\ [Next]_vars => Inv'
<1> SUFFICES ASSUME Inv, [Next]_vars
             PROVE  Inv'
  OBVIOUS
<1>1. CASE UNCHANGED vars
  <2>1. UNCHANGED <<sess, orphans, iface, journal, op, up>>
    BY <1>1 DEF vars
  <2>2. Shape'
    BY <2>1 DEF Inv, Shape, OpOK, DialOp, StepOp
  <2> QED
    BY <2>1, <2>2, InvParts
<1>2. CASE \E p \in Peer : Connect(p) \/ Disconnect(p) \/ InstallKeying(p)
                               \/ TickSession(p) \/ ResumeOnWire(p)
  BY <1>2, ConnectInv, DisconnectInv, InstallKeyingInv, TickSessionInv, ResumeOnWireInv
<1>3. CASE (\E event \in HostEvent : HostReports(event))
               \/ NetUp \/ NetDown \/ Shutdown \/ PassTime
  BY <1>3, HostReportsInv, NetUpInv, NetDownInv, ShutdownInv, PassTimeInv
<1>4. CASE Proceed
  BY <1>4, NegotiateInv, HandshakeOkInv, HandshakeRefusedInv, StartInv, ReachedInv,
     FailedAttemptInv, RecordedInv, DialNextInv, PassOverInv, ArmInv DEF Proceed
<1>5. CASE Relay
  BY <1>5, RelayInv
<1> QED
  BY SMTT(40), <1>1, <1>2, <1>3, <1>4, <1>5 DEF Next

LEMMA AlwaysInv == Spec => []Inv
  BY InitInv, StepInv, PTL DEF Spec

-----------------------------------------------------------------------------
(* The session table stays well formed: every runtime in it, every handle,   *)
(* and a journal of known peers only (session_table/mod.rs SessionEntry).    *)
THEOREM CoreTypeCorrect == Spec => []TypeOK
  BY AlwaysInv, InvGives, PTL

(* No STEADY, DEGRADED or MIGRATING is a belief without a key, whatever the  *)
(* clock, the host and the wire do between a handshake and the report of it  *)
(* (establishment.rs direct, relayed, reached; carriage.rs deliver_resume).  *)
THEOREM CarryingHasTunnelAlways == Spec => []CarryingHasTunnel
  BY AlwaysInv, InvGives, PTL

(* No pump of the table outlives the overlay interface (execute/mod.rs       *)
(* net_down; enforce.rs arm; carriage.rs start).                             *)
THEOREM PumpHasInterfaceAlways == Spec => []PumpHasInterface
  BY AlwaysInv, InvGives, PTL

(* A connect leaves no Session half way (establishment.rs carry): each step  *)
(* finds the Session where its own event is answered, or already gone.       *)
THEOREM ConnectDecidesAlways == Spec => []ConnectDecides
  BY AlwaysInv, InvGives, PTL

-----------------------------------------------------------------------------
(***************************************************************************)
(* The keys a peer was given are in its entry or with its own handshake,   *)
(* and no step of anyone's loses them.                                     *)
(***************************************************************************)
Kept(p) == sess[p].keyed \/ (op.at = "HANDSHAKE" /\ op.peer = p)

LEMMA ToldKeyed ==
    ASSUME NEW e, Entry(e), NEW t, NEW g
    PROVE  Entry(Told(e, t, g)) /\ Told(e, t, g).keyed = e.keyed
<1> DEFINE c == Apply(e.rt, t, g, NoContext)
<1>1. Told(e, t, g) = WithRuntime(e, c)
  BY DEF Told, WithRuntime, Entry
<1> HIDE DEF c
<1> QED
  BY <1>1, EntryRt

LEMMA DialedKeyed ==
    ASSUME NEW e, Entry(e), NEW gathered
    PROVE  Dialed(e, gathered).keyed = e.keyed
<1> DEFINE held == IF e.sockets THEN e
                   ELSE [e EXCEPT !.sockets = gathered # "NOTHING",
                                  !.candidates = gathered = "CANDIDATES"]
           found == IF held.candidates THEN "usable_candidate" ELSE "no_candidate_either_family"
           g == {"credentials_valid", "peer_authorized", found}
           ask == Event("CONNECT_REQUESTED")
           report == Event(IF held.candidates THEN "CANDIDATES_READY" ELSE "CANDIDATE_TIMEOUT")
           asked == Told(held, ask, g)
           admitted == [asked EXCEPT !.known = TRUE]
<1>1. Dialed(e, gathered) = Told(admitted, report, g)
  BY DEF Dialed
<1>2. Entry(held) /\ held.keyed = e.keyed
  BY DEF Entry
<1> HIDE DEF held, g, ask, report
<1>3. Entry(asked) /\ asked.keyed = held.keyed
  BY <1>2, ToldKeyed
<1> HIDE DEF asked
<1>4. Entry(admitted) /\ admitted.keyed = asked.keyed
  BY <1>3 DEF Entry
<1> HIDE DEF admitted
<1> QED
  BY <1>1, <1>2, <1>3, <1>4, ToldKeyed

(* Beside a submission: the entry keeps its keys, and the loan stays. *)
LEMMA KeptBeside ==
    ASSUME Inv, NEW p \in Peer, Kept(p), op' = op,
           \/ \E q \in Peer : InstallKeying(q) \/ Disconnect(q) \/ TickSession(q)
                                  \/ ResumeOnWire(q)
           \/ \E event \in HostEvent : HostReports(event)
           \/ NetDown \/ Shutdown \/ PassTime
    PROVE  Kept(p)'
<1>1. Shape /\ \A q \in Peer : Entry(sess[q]) /\ Sound(sess[q].rt)
  BY InvParts DEF Good
<1>2. \A q \in Peer : Entry(Closed(sess[q])) /\ Closed(sess[q]).keyed = sess[q].keyed
  BY <1>1, ClosedEntry
<1>3. \A e : Entry(e) => TornDown(e).keyed = e.keyed
  BY EntryTornDown
<1>4. \A q \in Peer : \A t, g : Told(sess[q], t, g).keyed = sess[q].keyed
  BY <1>1, ToldKeyed
<1>5. \A q \in Peer : \A c : [sess[q] EXCEPT !.rt = c].keyed = sess[q].keyed
  BY <1>1 DEF Entry
<1>6. ASSUME NEW q \in Peer, InstallKeying(q)
      PROVE  sess'[p].keyed = sess[p].keyed \/ sess'[p].keyed
  <2>1. sess'[p].keyed = (sess[p].keyed \/ q = p)
    BY <1>1, <1>6 DEF InstallKeying, Shape, Entry
  <2> QED
    BY <2>1, <1>1 DEF Entry
<1>7. ASSUME NEW q \in Peer, Disconnect(q)
      PROVE  sess'[p].keyed = sess[p].keyed
  BY <1>1, <1>2, <1>7 DEF Disconnect, Shape
<1>8. ASSUME NEW q \in Peer, TickSession(q)
      PROVE  sess'[p].keyed = sess[p].keyed
  BY <1>1, <1>5, <1>8 DEF TickSession, Shape
<1>9. ASSUME NEW q \in Peer, ResumeOnWire(q)
      PROVE  sess'[p].keyed = sess[p].keyed
  BY <1>1, <1>4, <1>9 DEF ResumeOnWire, Shape
<1>10. ASSUME NEW event \in HostEvent, HostReports(event)
       PROVE  sess'[p].keyed = sess[p].keyed
  BY <1>4, <1>10 DEF HostReports
<1>11. ASSUME NetDown
       PROVE  sess'[p].keyed = sess[p].keyed
  BY <1>2, <1>3, <1>11 DEF NetDown
<1>12. ASSUME Shutdown
       PROVE  sess'[p].keyed = sess[p].keyed
  BY <1>1, <1>3, <1>12 DEF Shutdown
<1>13. ASSUME PassTime
       PROVE  sess'[p].keyed = sess[p].keyed
  BY <1>5, <1>13 DEF PassTime
<1>14. sess'[p].keyed = sess[p].keyed \/ sess'[p].keyed
  BY <1>6, <1>7, <1>8, <1>9, <1>10, <1>11, <1>12, <1>13
<1> QED
  BY <1>14 DEF Kept

(* The steps of a submission but the three that move the material. *)
LEMMA KeptOnward ==
    ASSUME Inv, NEW p \in Peer, Kept(p),
           \/ \E q \in Peer : Connect(q)
           \/ NetUp \/ Start \/ Relay \/ Reached \/ FailedAttempt \/ Recorded
           \/ DialNext \/ PassOver \/ Arm
    PROVE  Kept(p)'
<1>1. Shape /\ \A q \in Peer : Entry(sess[q])
  BY InvParts DEF Good
<1>2. sess[p].keyed
  BY DEF Kept, Connect, Idle, NetUp, Start, Relay, Reached, FailedAttempt, Recorded,
         DialNext, PassOver, Arm
<1>3. ASSUME NEW q \in Peer, NEW arming, NEW rest, Dial(q, arming, rest)
      PROVE  sess'[p].keyed
  BY <1>1, <1>2, <1>3, DialedKeyed DEF Dial, Shape
<1>4. op.at = "DIAL_REST" => op.rest \subseteq Peer
  BY Dialing
<1>5. op.at \notin {"IDLE", "DIAL_REST"} => op.peer \in Peer
  BY InStep
<1>6. CASE (\E q \in Peer : Connect(q)) \/ DialNext
  BY <1>3, <1>4, <1>6 DEF Connect, DialNext, Kept
<1>7. CASE NetUp \/ Relay \/ Recorded \/ PassOver
  BY <1>2, <1>7 DEF NetUp, Relay, Recorded, PassOver, Kept
<1>8. CASE Start
  BY <1>1, <1>2, <1>8 DEF Start, Kept, Shape, Entry
<1>9. CASE Reached
  BY <1>1, <1>2, <1>9, ToldKeyed DEF Reached, Kept, Shape
<1>10. CASE FailedAttempt
  BY <1>1, <1>2, <1>10 DEF FailedAttempt, Kept, Shape, Entry
<1>11. CASE Arm
  BY <1>1, <1>2, <1>11 DEF Arm, Kept, Entry
<1> QED
  BY <1>6, <1>7, <1>8, <1>9, <1>10, <1>11

(* The three that move it: lent, and put back on both outcomes. *)
LEMMA KeptLent ==
    ASSUME Inv, NEW p \in Peer, Kept(p), Negotiate \/ HandshakeOk \/ HandshakeRefused
    PROVE  Kept(p)'
<1>1. Shape /\ \A q \in Peer : Entry(sess[q])
  BY InvParts DEF Good
<1>2. op.peer \in Peer /\ op.at \in Steps /\ op = Step(op.at, op.peer, op.arming, op.rest)
  BY InStep DEF Negotiate, HandshakeOk, HandshakeRefused
<1>3. ASSUME NEW at, Onward(at)
      PROVE  op'.at = at /\ op'.peer = op.peer
  <2> DEFINE here == op.at
             q == op.peer
             arming == op.arming
             rest == op.rest
  <2>1. op = Step(here, q, arming, rest) /\ op' = [op EXCEPT !.at = at]
    BY <1>2, <1>3 DEF Onward
  <2> HIDE DEF here, q, arming, rest
  <2>2. op'.at = at /\ op'.peer = q
    BY <2>1 DEF Step
  <2> QED
    BY <2>2 DEF q
<1>4. CASE Negotiate
  <2> DEFINE e == sess[op.peer]
             verdict == Event(IF e.keyed THEN "NEGOTIATION_OK" ELSE "NEGOTIATION_FAIL")
             told == Told(e, verdict, {"retry_budget_available"})
             heard == IF e.rt.state = Negotiating THEN told ELSE e
             lent == [heard EXCEPT !.keyed = FALSE]
  <2>1. op.at # "HANDSHAKE"
    BY <1>4 DEF Negotiate
  <2>2. IF heard.rt.state = Connecting
          THEN /\ sess' = [sess EXCEPT ![op.peer] = lent]
               /\ Onward(IF e.keyed THEN "HANDSHAKE" ELSE "HANDSHAKE_UNKEYED")
          ELSE sess' = [sess EXCEPT ![op.peer] = heard] /\ Onward("RECORD")
    BY <1>4 DEF Negotiate
  <2>3. heard.keyed = e.keyed
    BY <1>1, <1>2, ToldKeyed
  <2> HIDE DEF heard, lent
  <2>4. sess[p].keyed
    BY <2>1 DEF Kept
  <2>5. CASE p # op.peer
    BY <1>1, <1>2, <2>2, <2>4, <2>5 DEF Kept, Shape
  <2>6. CASE p = op.peer /\ heard.rt.state = Connecting
    BY <1>3, <2>2, <2>4, <2>6 DEF Kept
  <2>7. CASE p = op.peer /\ heard.rt.state # Connecting
    BY <1>1, <1>2, <2>2, <2>3, <2>4, <2>7 DEF Kept, Shape
  <2> QED
    BY <2>5, <2>6, <2>7
<1>5. CASE HandshakeOk
  BY <1>1, <1>2, <1>5 DEF HandshakeOk, Kept, Shape, Entry
<1>6. CASE HandshakeRefused
  <2>1. op.at = "HANDSHAKE"
    BY <1>2, <1>6 DEF HandshakeRefused, Steps, Handshaking
  <2>2. sess'[p].keyed = IF p = op.peer THEN TRUE ELSE sess[p].keyed
    BY <1>1, <1>2, <1>6, <2>1 DEF HandshakeRefused, Shape, Entry
  <2> QED
    BY <2>2 DEF Kept
<1> QED
  BY <1>4, <1>5, <1>6

LEMMA KeptStays ==
    ASSUME NEW p \in Peer
    PROVE  Inv /\ Kept(p) /\ [Next]_vars => Kept(p)'
<1> SUFFICES ASSUME Inv, Kept(p), [Next]_vars
             PROVE  Kept(p)'
  OBVIOUS
<1>1. CASE UNCHANGED vars
  BY <1>1 DEF vars, Kept
<1>2. CASE (\E q \in Peer : Disconnect(q) \/ InstallKeying(q) \/ TickSession(q)
                                \/ ResumeOnWire(q))
               \/ (\E event \in HostEvent : HostReports(event))
               \/ NetDown \/ Shutdown \/ PassTime
  <2>1. op' = op
    BY <1>2 DEF Disconnect, InstallKeying, TickSession, ResumeOnWire, HostReports,
                NetDown, Shutdown, PassTime
  <2> QED
    BY <1>2, <2>1, KeptBeside
<1>3. CASE (\E q \in Peer : Connect(q)) \/ NetUp \/ Relay \/ Proceed
  BY <1>3, KeptOnward, KeptLent DEF Proceed
<1> QED
  BY <1>1, <1>2, <1>3 DEF Next

(* Key material lent to a handshake comes back on both of its ends           *)
(* (establishment.rs direct): a peer that was ever keyed is keyed whenever   *)
(* no submission is in flight, tunnel or no tunnel.                          *)
THEOREM KeysComeBackAlways == Spec => KeysComeBack
<1>1. ASSUME NEW p \in Peer
      PROVE  Spec => [](sess[p].keyed => [](Idle => sess[p].keyed))
  <2>1. sess[p].keyed => Kept(p)
    BY DEF Kept
  <2>2. Kept(p) => (Idle => sess[p].keyed)
    BY DEF Kept, Idle
  <2>3. Inv /\ Kept(p) /\ [Next]_vars => Kept(p)'
    BY KeptStays
  <2>4. Spec => []Inv /\ [][Next]_vars
    BY AlwaysInv DEF Spec
  <2> QED
    BY <2>1, <2>2, <2>3, <2>4, PTL
<1> QED
  BY <1>1 DEF KeysComeBack
=============================================================================
