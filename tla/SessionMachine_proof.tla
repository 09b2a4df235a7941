------------------------- MODULE SessionMachine_proof -------------------------
(***************************************************************************)
(* Lemmas about one Session's machine and its deadlines, for every length  *)
(* of the timers and every context a caller may supply.  SessionRuntime's  *)
(* proofs and CoreSession's rest on them.                                  *)
(***************************************************************************)
EXTENDS SessionMachine, TLAPS

(* The codes a row may carry: a registered one, or a rule for finding one. *)
RowCode == ReasonCode \cup {NoCode, KeepCode, TransportCode, TerminalCode, AuthCode}

(* A row goes to a state of the machine, with a code of that kind. *)
WellTyped(r) == r.to \in SessionState /\ r.code \in RowCode

-----------------------------------------------------------------------------
LEMMA StatesAreStates ==
    /\ Disconnected \in SessionState /\ Discovering \in SessionState
    /\ Negotiating \in SessionState /\ Connecting \in SessionState
    /\ Blocked \in SessionState /\ Failed \in SessionState
    /\ Unparked \in SessionState /\ Parked \in SessionState
    /\ \A c \in PathClass : Steady(c) \in SessionState /\ Degraded(c) \in SessionState
    /\ \A f, t \in PathClass : Migrating(f, t) \in SessionState
<1>1. Unparked \in SessionState /\ Parked \in SessionState
  BY DEF SessionState, AllReconnecting
<1>2. \A c \in PathClass : Steady(c) \in SessionState /\ Degraded(c) \in SessionState
  BY DEF SessionState, AllSteady, AllDegraded
<1>3. \A f, t \in PathClass : Migrating(f, t) \in SessionState
  BY DEF SessionState, AllMigrating
<1>4. /\ Disconnected \in SessionState /\ Discovering \in SessionState
      /\ Negotiating \in SessionState /\ Connecting \in SessionState
      /\ Blocked \in SessionState /\ Failed \in SessionState
  BY DEF SessionState
<1> QED
  BY <1>1, <1>2, <1>3, <1>4

LEMMA CarryingStates == Carrying \subseteq SessionState
  BY DEF Carrying, SessionState

LEMMA QosCodeType == \A m \in QosMetric : QosCode[m] \in RowCode
  BY DEF QosMetric, QosCode, RowCode, ReasonCode, TransientCode, PersistentCode

LEMMA PolicyCodeType == \A k \in PolicyViolationKind : PolicyCode[k] \in RowCode
  BY DEF PolicyViolationKind, PolicyCode, RowCode, ReasonCode, PersistentCode,
         PolicyClassCode, FatalCode

LEMMA ClassesAreClasses ==
    {"LOCAL_DIRECT", "WAN_DIRECT", "RELAYED"} \subseteq PathClass
  BY DEF PathClass

LEMMA CodesAreCodes ==
    {NoCode, KeepCode, TransportCode, TerminalCode, AuthCode,
     "AUTH_CRED_EXPIRED", "AUTH_DEVICE_REVOKED", "AUTH_PEER_UNTRUSTED",
     "NET_NO_USABLE_CANDIDATES", "NET_PATH_DEAD_NO_ALTERNATE", "NET_PATH_MIGRATION_FAILED",
     "NET_QOS_DEGRADED_TIMEOUT", "NET_SESSION_NEGOTIATION_FAILED", "PLATFORM_SUSPENDED",
     "POLICY_KILLSWITCH_ENGAGED", "PROTO_VERSION_UNSUPPORTED"} \subseteq RowCode
  BY DEF RowCode, ReasonCode, TransientCode, PersistentCode, PolicyClassCode

LEMMA EstablishmentTyped == \A r \in Establishment : WellTyped(r)
  BY StatesAreStates, ClassesAreClasses, CodesAreCodes DEF Establishment, Row, WellTyped

LEMMA MobilityTyped == \A r \in Mobility : WellTyped(r)
  BY StatesAreStates, ClassesAreClasses, CodesAreCodes, CarryingStates
     DEF Mobility, Row, WellTyped

LEMMA QualityTyped == \A r \in Quality : WellTyped(r)
  BY StatesAreStates, CodesAreCodes, QosCodeType DEF Quality, Row, WellTyped

LEMMA RecoveryTyped == \A r \in Recovery : WellTyped(r)
  BY StatesAreStates, CodesAreCodes DEF Recovery, Row, WellTyped

LEMMA EnforcementTyped == \A r \in Enforcement : WellTyped(r)
  BY StatesAreStates, ClassesAreClasses, CodesAreCodes, PolicyCodeType
     DEF Enforcement, Row, WellTyped

LEMMA LifecycleTyped == \A r \in Lifecycle : WellTyped(r)
  BY StatesAreStates, ClassesAreClasses, CodesAreCodes DEF Lifecycle, Row, WellTyped

LEMMA TableTyped == \A r \in Table : WellTyped(r)
  BY EstablishmentTyped, MobilityTyped, QualityTyped, RecoveryTyped, EnforcementTyped,
     LifecycleTyped DEF Table

(* Resolution only ever offers rows of the table. *)
LEMMA ResolveInTable ==
    ASSUME NEW s \in SessionState, NEW t \in Trigger, NEW g
    PROVE  Resolve(s, t, g) \subseteq Table
<1>1. RowsFor[s][t] = {r \in {q \in Table : t \in q.on} : s \in r.from}
  BY DEF RowsFor, RowsOn
<1> QED
  BY <1>1 DEF Resolve, FirstOf, Applicable

-----------------------------------------------------------------------------
(* A context holds registered codes, or none. *)
LEMMA RowReasonType ==
    ASSUME NEW r \in Table, NEW reason \in ReasonCode \cup {NoCode}, NEW g,
           NEW ctx \in Context
    PROVE  RowReason(r, reason, g, ctx) \in ReasonCode \cup {NoCode}
<1>1. r.code \in RowCode
  BY TableTyped DEF WellTyped
<1>2. {"NET_NO_USABLE_CANDIDATES", "RELAY_FAILOVER_EXHAUSTED", "AUTH_CRED_EXPIRED"}
          \subseteq ReasonCode
  BY DEF ReasonCode, TransientCode, PersistentCode
<1>3. /\ ctx.transport \in ReasonCode \cup {NoCode}
      /\ ctx.terminal \in ReasonCode \cup {NoCode}
      /\ ctx.auth \in ReasonCode \cup {NoCode}
  BY DEF Context
<1> QED
  BY <1>1, <1>2, <1>3 DEF RowReason, OrElse, RowCode

LEMMA HeldReasonAgrees ==
    ASSUME NEW code \in ReasonCode \cup {NoCode}, NEW to \in SessionState
    PROVE  /\ HeldReason(code, to) \in ReasonCode \cup {NoCode}
           /\ (to \in ReasonBearing) = (HeldReason(code, to) # NoCode)
<1>1. "INTERNAL_MISSING_REASON" \in ReasonCode
  BY DEF ReasonCode, FatalCode
<1>2. NoCode # "INTERNAL_MISSING_REASON"
  BY DEF NoCode
<1> QED
  BY <1>1, <1>2 DEF HeldReason, OrElse

LEMMA NextProfileType ==
    ASSUME NEW profile \in Profile, NEW to, NEW t, NEW g
    PROVE  NextProfile(profile, to, t, g) \in Profile
  BY DEF NextProfile, Profile

-----------------------------------------------------------------------------
(***************************************************************************)
(* Deadlines.                                                              *)
(***************************************************************************)
LEMMA TimersOfType == \A s : TimersOf(s) \subseteq TimerId
  BY DEF TimersOf, TimerId

LEMMA FullTermType ==
    ASSUME NEW s \in SessionState
    PROVE  /\ DOMAIN FullTerm[s] = TimersOf(s)
           /\ \A t \in TimersOf(s) : FullTerm[s][t] \in 0 .. Duration[t]
<1>1. \A t \in TimersOf(s) : Duration[t] \in Nat
  BY TimersOfType, DurationAssumption
<1>2. FullTerm[s] = [t \in TimersOf(s) |-> Duration[t]]
  BY DEF FullTerm
<1> QED
  BY <1>1, <1>2

(* A runtime with its deadlines named, free of the form of the record. *)
Fields(c) ==
    /\ c.state \in SessionState
    /\ c.reason \in ReasonCode \cup {NoCode}
    /\ c.profile \in Profile
    /\ c.restored \in BOOLEAN
    /\ c = [state |-> c.state, reason |-> c.reason, profile |-> c.profile,
            left |-> c.left, restored |-> c.restored]

Left(c) == Armed(c) \subseteq TimerId /\ \A t \in Armed(c) : c.left[t] \in 0 .. Duration[t]

LEMMA RuntimeFields == \A c : IsRuntime(c) <=> Fields(c) /\ Left(c)
  BY DEF IsRuntime, Fields, Left

LEMMA RearmRuntime ==
    ASSUME NEW c, Fields(c)
    PROVE  /\ IsRuntime(Rearm(c))
           /\ Armed(Rearm(c)) = TimersOf(c.state)
           /\ Rearm(c).state = c.state /\ Rearm(c).reason = c.reason
           /\ Rearm(c).restored = c.restored
<1>1. Rearm(c) = [state |-> c.state, reason |-> c.reason, profile |-> c.profile,
                  left |-> FullTerm[c.state], restored |-> c.restored]
  BY DEF Fields, Rearm
<1>2. Fields(Rearm(c))
  BY <1>1 DEF Fields
<1>3. Left(Rearm(c)) /\ Armed(Rearm(c)) = TimersOf(c.state)
  BY <1>1, FullTermType, TimersOfType DEF Fields, Left, Armed
<1> QED
  BY <1>1, <1>2, <1>3, RuntimeFields

LEMMA RearmMissingRuntime ==
    ASSUME NEW c, IsRuntime(c)
    PROVE  /\ IsRuntime(RearmMissing(c))
           /\ Armed(RearmMissing(c)) = Armed(c) \cup TimersOf(c.state)
           /\ RearmMissing(c).state = c.state /\ RearmMissing(c).reason = c.reason
           /\ RearmMissing(c).restored = c.restored
           /\ \A t \in Armed(c) : RearmMissing(c).left[t] = c.left[t]
<1> DEFINE joined == [t \in Armed(c) \cup TimersOf(c.state) |->
                         IF t \in Armed(c) THEN c.left[t] ELSE FullTerm[c.state][t]]
<1>1. Fields(c) /\ Left(c)
  BY RuntimeFields
<1>2. RearmMissing(c) = [state |-> c.state, reason |-> c.reason, profile |-> c.profile,
                         left |-> joined, restored |-> c.restored]
  BY <1>1 DEF Fields, RearmMissing
<1>5. DOMAIN joined = Armed(c) \cup TimersOf(c.state)
  OBVIOUS
<1>6. \A t \in DOMAIN joined : joined[t] \in 0 .. Duration[t]
  BY <1>1, <1>5, FullTermType DEF Fields, Left
<1>7. Fields(RearmMissing(c))
  BY <1>1, <1>2 DEF Fields
<1>8. Left(RearmMissing(c))
  <2>1. RearmMissing(c).left = joined
    BY <1>2
  <2>2. Armed(RearmMissing(c)) = DOMAIN joined
    BY <2>1 DEF Armed
  <2>3. TimersOf(c.state) \subseteq TimerId
    BY TimersOfType
  <2>4. Armed(RearmMissing(c)) \subseteq TimerId
    BY <1>1, <1>5, <2>2, <2>3 DEF Left
  <2> QED
    BY <1>6, <2>1, <2>2, <2>4 DEF Left
<1>9. \A t \in Armed(c) : joined[t] = c.left[t]
  OBVIOUS
<1> HIDE DEF joined
<1> QED
  BY <1>2, <1>5, <1>7, <1>8, <1>9, RuntimeFields DEF Armed

-----------------------------------------------------------------------------
(* A reason code accompanies exactly the reason-bearing states. *)
Agrees(c) == (c.state \in ReasonBearing) = (c.reason # NoCode)

LEMMA MovedRuntime ==
    ASSUME NEW c, IsRuntime(c), NEW r \in Table, NEW t, NEW g, NEW ctx \in Context
    PROVE  LET d == Moved(c, r, t, g, ctx)
           IN  /\ IsRuntime(d) /\ Agrees(d)
               /\ d.left = c.left /\ d.state = r.to
               /\ d.restored => c.restored /\ d.state = c.state
               /\ c.restored /\ d.state = c.state => d.restored
<1> DEFINE reason == HeldReason(RowReason(r, c.reason, g, ctx), r.to)
           profile == NextProfile(c.profile, r.to, t, g)
           restored == IF r.to = c.state THEN c.restored ELSE FALSE
           d == Moved(c, r, t, g, ctx)
<1>1. Fields(c) /\ Left(c)
  BY RuntimeFields
<1>2. d = [state |-> r.to, reason |-> reason, profile |-> profile, left |-> c.left,
           restored |-> restored]
  <2>1. d = [c EXCEPT !.state = r.to, !.reason = reason, !.profile = profile,
                      !.restored = restored]
    BY DEF Moved
  <2> HIDE DEF reason, profile, restored, d
  <2> QED
    BY <1>1, <2>1 DEF Fields
<1>3. r.to \in SessionState
  BY TableTyped DEF WellTyped
<1>4. reason \in ReasonCode \cup {NoCode} /\ (r.to \in ReasonBearing) = (reason # NoCode)
  BY <1>1, <1>3, RowReasonType, HeldReasonAgrees DEF Fields
<1>5. profile \in Profile
  BY <1>1, NextProfileType DEF Fields
<1>6. restored \in BOOLEAN
  BY <1>1 DEF Fields
<1> HIDE DEF reason, profile, restored
<1>7. Fields(d)
  BY <1>2, <1>3, <1>4, <1>5, <1>6 DEF Fields
<1>8. Left(d) /\ Agrees(d) /\ d.left = c.left /\ d.state = r.to /\ d.restored = restored
  BY <1>1, <1>2, <1>4 DEF Left, Armed, Agrees
<1> QED
  BY <1>7, <1>8, RuntimeFields DEF restored

(* MachineApply is the identity or one row's move. *)
LEMMA MachineApplyRuntime ==
    ASSUME NEW c, IsRuntime(c), Agrees(c), NEW t \in Trigger, NEW g, NEW ctx \in Context
    PROVE  LET d == MachineApply(c, t, g, ctx)
           IN  /\ IsRuntime(d) /\ Agrees(d)
               /\ d.left = c.left
               /\ d.restored => c.restored /\ d.state = c.state
               /\ c.restored /\ d.state = c.state => d.restored
<1> DEFINE rows == Resolve(c.state, t, g)
           row == CHOOSE r \in rows : TRUE
<1>1. Fields(c)
  BY RuntimeFields
<1>2. CASE rows = {}
  BY <1>2 DEF MachineApply, Take
<1>3. CASE rows # {}
  <2>1. row \in rows
    BY <1>3
  <2>2. row \in Table
    BY <1>1, <2>1, ResolveInTable DEF Fields
  <2>3. MachineApply(c, t, g, ctx) = Moved(c, row, t, g, ctx)
    BY <1>3 DEF MachineApply, Take
  <2> HIDE DEF row, rows
  <2> QED
    BY <2>2, <2>3, MovedRuntime
<1> QED
  BY <1>2, <1>3

(***************************************************************************)
(* SessionRuntime::apply keeps a runtime well formed, and leaves the armed *)
(* set that the state owns: after an event when it held before, after an   *)
(* expiry even with the expired deadlines already taken out.               *)
(***************************************************************************)
Owned(c) == Armed(c) = IF c.restored THEN {} ELSE TimersOf(c.state)

(* A runtime inside a tick: some of its state's deadlines may be taken out. *)
Mid(c) == IsRuntime(c) /\ Agrees(c) /\ ~c.restored /\ Armed(c) \subseteq TimersOf(c.state)

LEMMA ApplyRuntime ==
    ASSUME NEW c, IsRuntime(c), Agrees(c), NEW t \in Trigger, NEW g, NEW ctx \in Context
    PROVE  LET d == Apply(c, t, g, ctx)
           IN  /\ IsRuntime(d) /\ Agrees(d)
               /\ t.kind # "TIMER" /\ Owned(c) => Owned(d)
               /\ t.kind = "TIMER" /\ Mid(c) => ~d.restored /\ Armed(d) = TimersOf(d.state)
<1> DEFINE n == MachineApply(c, t, g, ctx)
           d == Apply(c, t, g, ctx)
<1>1. /\ IsRuntime(n) /\ Agrees(n) /\ n.left = c.left
      /\ n.restored => c.restored /\ n.state = c.state
      /\ c.restored /\ n.state = c.state => n.restored
  BY MachineApplyRuntime
<1>2. d = IF n.state # c.state THEN Rearm(n)
          ELSE IF t.kind = "TIMER" THEN RearmMissing(n) ELSE n
  BY DEF Apply, Follow
<1>3. Fields(n) /\ Fields(c)
  BY <1>1, RuntimeFields
<1> SUFFICES /\ IsRuntime(d) /\ Agrees(d)
             /\ t.kind # "TIMER" /\ Owned(c) => Owned(d)
             /\ t.kind = "TIMER" /\ Mid(c) => ~d.restored /\ Armed(d) = TimersOf(d.state)
  OBVIOUS
<1> HIDE DEF n, d
<1>4. CASE n.state # c.state
  <2>1. d = Rearm(n) /\ ~n.restored
    BY <1>1, <1>2, <1>3, <1>4 DEF Fields
  <2>2. /\ IsRuntime(d) /\ Armed(d) = TimersOf(n.state)
        /\ d.state = n.state /\ d.reason = n.reason /\ d.restored = n.restored
    BY <1>3, <2>1, RearmRuntime
  <2> QED
    BY <1>1, <2>1, <2>2 DEF Agrees, Owned
<1>5. CASE n.state = c.state /\ t.kind = "TIMER"
  <2>1. d = RearmMissing(n)
    BY <1>2, <1>5
  <2>2. /\ IsRuntime(d) /\ d.state = n.state /\ d.reason = n.reason
        /\ d.restored = n.restored /\ Armed(d) = Armed(n) \cup TimersOf(n.state)
    BY <1>1, <2>1, RearmMissingRuntime
  <2>3. Armed(n) = Armed(c)
    BY <1>1 DEF Armed
  <2> QED
    BY <1>1, <1>5, <2>2, <2>3 DEF Agrees, Mid
<1>6. CASE n.state = c.state /\ t.kind # "TIMER"
  <2>1. d = n
    BY <1>2, <1>6
  <2>2. Armed(n) = Armed(c) /\ n.restored = c.restored
    BY <1>1, <1>3, <1>6 DEF Armed, Fields
  <2> QED
    BY <1>1, <1>6, <2>1, <2>2 DEF Owned
<1> QED
  BY <1>4, <1>5, <1>6

LEMMA TimerTriggers == \A id \in TimerId : Timer(id) \in Trigger /\ Timer(id).kind = "TIMER"
  BY DEF Timer, Trigger

LEMMA EventTriggers == \A t \in EventTrigger : t \in Trigger /\ t.kind # "TIMER"
<1>1. \A k \in PlainEvent : Event(k).kind # "TIMER"
  BY DEF PlainEvent, Event
<1>2. \A k \in {"HANDSHAKE_OK", "PATH_UPGRADE_AVAILABLE", "PATH_VALIDATED",
                "QOS_VIOLATION", "POLICY_VIOLATION"} : \A x : With(k, x).kind # "TIMER"
  BY DEF With
<1> QED
  BY <1>1, <1>2 DEF Trigger, EventTrigger

-----------------------------------------------------------------------------
(***************************************************************************)
(* A tick takes the due deadlines out, then applies the eight timers in    *)
(* order.  Each step keeps Mid; the first one applied completes the armed  *)
(* set, and every later one keeps it complete.                             *)
(***************************************************************************)
Complete(c) == Mid(c) /\ Armed(c) = TimersOf(c.state)

LEMMA FireEachRuntime ==
    ASSUME NEW S, \A c \in S : Mid(c), NEW id \in TimerId, NEW due, NEW g,
           NEW ctx \in Context
    PROVE  /\ \A d \in FireEach(S, id, due, g, ctx) : Mid(d)
           /\ id \in due \/ (\A c \in S : Complete(c))
                  => \A d \in FireEach(S, id, due, g, ctx) : Complete(d)
<1>1. SUFFICES ASSUME NEW c \in S,
                      NEW d, d = IF id \in due THEN Apply(c, Timer(id), g, ctx) ELSE c
               PROVE  Mid(d) /\ (id \in due \/ Complete(c) => Complete(d))
  BY DEF FireEach
<1>2. Mid(c)
  OBVIOUS
<1>3. CASE id \in due
  <2>1. d = Apply(c, Timer(id), g, ctx) /\ Timer(id) \in Trigger /\ Timer(id).kind = "TIMER"
    BY <1>1, <1>3, TimerTriggers
  <2>2. IsRuntime(d) /\ Agrees(d) /\ ~d.restored /\ Armed(d) = TimersOf(d.state)
    BY <1>2, <2>1, ApplyRuntime DEF Mid
  <2> QED
    BY <2>2 DEF Mid, Complete
<1>4. CASE id \notin due
  BY <1>1, <1>2, <1>4
<1> QED
  BY <1>3, <1>4

LEMMA FireDueRuntime ==
    ASSUME NEW c, IsRuntime(c), Agrees(c), Owned(c), Due(c) # {}
    PROVE  Mid(FireDue(c)) /\ Due(c) \subseteq TimerId
<1> DEFINE left == [t \in Armed(c) \ Due(c) |-> c.left[t]]
<1>1. Fields(c) /\ Left(c)
  BY RuntimeFields
<1>2. FireDue(c) = [state |-> c.state, reason |-> c.reason, profile |-> c.profile,
                    left |-> left, restored |-> c.restored]
  BY <1>1 DEF Fields, FireDue
<1>3. Armed(c) = TimersOf(c.state) /\ ~c.restored /\ Due(c) \subseteq Armed(c)
  BY <1>1 DEF Owned, Due, Fields
<1>4. Fields(FireDue(c))
  BY <1>1, <1>2 DEF Fields
<1>5. Left(FireDue(c)) /\ Armed(FireDue(c)) \subseteq Armed(c)
  BY <1>1, <1>2 DEF Left, Armed
<1>6. IsRuntime(FireDue(c))
  BY <1>4, <1>5, RuntimeFields
<1>7. FireDue(c).state = c.state /\ FireDue(c).reason = c.reason
      /\ FireDue(c).restored = c.restored
  BY <1>2
<1> QED
  BY <1>1, <1>3, <1>5, <1>6, <1>7 DEF Mid, Agrees, Left

LEMMA TickRuntime ==
    ASSUME NEW c, IsRuntime(c), Agrees(c), Owned(c), Due(c) # {}, NEW g,
           NEW ctx \in Context
    PROVE  \A d \in Tick(c, g, ctx) : Complete(d)
<1> DEFINE due == Due(c)
           After(S, id) == FireEach(S, id, due, g, ctx)
           s0 == {FireDue(c)}
           s1 == After(s0, "DISCOVER")
           s2 == After(s1, "NEGOTIATE")
           s3 == After(s2, "CONNECT")
           s4 == After(s3, "MIGRATE")
           s5 == After(s4, "RECONNECT_GRACE")
           s6 == After(s5, "RECONNECT_MAX")
           s7 == After(s6, "DEGRADED_MAX")
           s8 == After(s7, "BACKOFF")
           AllMid(S) == \A d \in S : Mid(d)
           AllComplete(S) == \A d \in S : Complete(d)
<1>1. Tick(c, g, ctx) = s8
  BY DEF Tick
<1>2. AllMid(s0) /\ due \subseteq TimerId /\ due # {}
  BY FireDueRuntime
<1>3. ASSUME NEW S, AllMid(S), NEW id \in TimerId
      PROVE  /\ AllMid(After(S, id))
             /\ id \in due \/ AllComplete(S) => AllComplete(After(S, id))
  BY <1>3, FireEachRuntime
<1>4. {"DISCOVER", "NEGOTIATE", "CONNECT", "MIGRATE", "RECONNECT_GRACE",
       "RECONNECT_MAX", "DEGRADED_MAX", "BACKOFF"} = TimerId
  BY DEF TimerId
<1> HIDE DEF AllMid, AllComplete, After, due, s0
<1>5. AllMid(s1) /\ ("DISCOVER" \in due => AllComplete(s1))
  BY <1>2, <1>3, <1>4
<1>6. AllMid(s2) /\ (AllComplete(s1) \/ "NEGOTIATE" \in due => AllComplete(s2))
  <2> HIDE DEF s1
  <2> QED
    BY <1>3, <1>4, <1>5
<1>7. AllMid(s3) /\ (AllComplete(s2) \/ "CONNECT" \in due => AllComplete(s3))
  <2> HIDE DEF s2
  <2> QED
    BY <1>3, <1>4, <1>6
<1>8. AllMid(s4) /\ (AllComplete(s3) \/ "MIGRATE" \in due => AllComplete(s4))
  <2> HIDE DEF s3
  <2> QED
    BY <1>3, <1>4, <1>7
<1>9. AllMid(s5) /\ (AllComplete(s4) \/ "RECONNECT_GRACE" \in due => AllComplete(s5))
  <2> HIDE DEF s4
  <2> QED
    BY <1>3, <1>4, <1>8
<1>10. AllMid(s6) /\ (AllComplete(s5) \/ "RECONNECT_MAX" \in due => AllComplete(s6))
  <2> HIDE DEF s5
  <2> QED
    BY <1>3, <1>4, <1>9
<1>11. AllMid(s7) /\ (AllComplete(s6) \/ "DEGRADED_MAX" \in due => AllComplete(s7))
  <2> HIDE DEF s6
  <2> QED
    BY <1>3, <1>4, <1>10
<1>12. AllMid(s8) /\ (AllComplete(s7) \/ "BACKOFF" \in due => AllComplete(s8))
  <2> HIDE DEF s7
  <2> QED
    BY <1>3, <1>4, <1>11
<1> HIDE DEF s1, s2, s3, s4, s5, s6, s7, s8
<1>13. AllComplete(s8)
  BY <1>2, <1>4, <1>5, <1>6, <1>7, <1>8, <1>9, <1>10, <1>11, <1>12
<1> QED
  BY <1>1, <1>13 DEF AllComplete

(* A unit of time disarms nothing and lengthens nothing. *)
LEMMA ElapseRuntime ==
    ASSUME NEW c, IsRuntime(c), Agrees(c), Owned(c)
    PROVE  IsRuntime(Elapse(c)) /\ Agrees(Elapse(c)) /\ Owned(Elapse(c))
<1> DEFINE left == [t \in Armed(c) |-> IF c.left[t] > 0 THEN c.left[t] - 1 ELSE 0]
<1>1. Fields(c) /\ Left(c)
  BY RuntimeFields
<1>2. Elapse(c) = [state |-> c.state, reason |-> c.reason, profile |-> c.profile,
                   left |-> left, restored |-> c.restored]
  BY <1>1 DEF Fields, Elapse
<1>3. \A t \in Armed(c) : left[t] \in 0 .. Duration[t]
  <2> TAKE t \in Armed(c)
  <2>1. Duration[t] \in Nat /\ c.left[t] \in 0 .. Duration[t]
    BY <1>1, DurationAssumption DEF Left
  <2> QED
    BY <2>1
<1>4. Armed(Elapse(c)) = Armed(c)
  BY <1>2 DEF Armed
<1>5. Fields(Elapse(c))
  BY <1>1, <1>2 DEF Fields
<1> HIDE DEF left
<1>6. Left(Elapse(c))
  BY <1>1, <1>2, <1>3, <1>4 DEF Left
<1>7. Agrees(Elapse(c)) /\ Owned(Elapse(c))
  BY <1>2, <1>4 DEF Agrees, Owned
<1> QED
  BY <1>5, <1>6, <1>7, RuntimeFields

LEMMA FreshFields ==
    /\ Fields(Fresh) /\ Armed(Fresh) = {} /\ Left(Fresh) /\ ~Fresh.restored
    /\ Fresh.state = Disconnected /\ Fresh.reason = NoCode
<1>1. TimersOf(Disconnected) = {}
  BY DEF TimersOf, Disconnected, St
<1>2. Armed(Fresh) = {}
  BY <1>1, FullTermType, StatesAreStates DEF Fresh, Armed
<1>3. Fields(Fresh)
  BY StatesAreStates DEF Fresh, Fields, Profile
<1> QED
  BY <1>2, <1>3 DEF Left, Fresh

LEMMA DisconnectedNeedsNoReason == Disconnected \notin ReasonBearing
<1>1. \A s \in ReasonBearing : s.name \in {"DEGRADED", "RECONNECTING", "BLOCKED", "FAILED"}
  BY DEF ReasonBearing, AllDegraded, AllReconnecting, Degraded, Unparked, Parked, Blocked,
         Failed, St
<1>2. Disconnected.name = "DISCONNECTED"
  BY DEF Disconnected, St
<1> QED
  BY <1>1, <1>2

(* A new Session. *)
LEMMA FreshRuntime == IsRuntime(Fresh) /\ Agrees(Fresh) /\ Owned(Fresh)
<1>1. TimersOf(Disconnected) = {}
  BY DEF TimersOf, Disconnected, St
<1> QED
  BY <1>1, FreshFields, DisconnectedNeedsNoReason, RuntimeFields DEF Agrees, Owned

(* A Session rebuilt from a record runs no deadline. *)
LEMMA ResumedRuntime ==
    ASSUME NEW r, r.state \in SessionState, r.reason \in ReasonCode \cup {NoCode}
    PROVE  IsRuntime(Resumed(r)) /\ Agrees(Resumed(r)) /\ Owned(Resumed(r))
<1> DEFINE state == ResumeState(r)
           default == DefaultResumeReason(state)
           reason == IF state \in ReasonBearing THEN OrElse(r.reason, default) ELSE NoCode
           d == Resumed(r)
<1>1. state \in SessionState
  BY StatesAreStates DEF ResumeState
<1>2. default \in ReasonCode /\ default # NoCode
  BY DEF DefaultResumeReason, ReasonCode, TransientCode, PersistentCode, PolicyClassCode,
         NoCode
<1>3. reason \in ReasonCode \cup {NoCode} /\ (state \in ReasonBearing) = (reason # NoCode)
  <2> HIDE DEF state, default
  <2> QED
    BY <1>2 DEF OrElse
<1>4. d = [Fresh EXCEPT !.state = state, !.reason = reason, !.restored = TRUE]
  BY DEF Resumed
<1> HIDE DEF state, default, reason, d
<1>5. d = [state |-> state, reason |-> reason, profile |-> Fresh.profile,
           left |-> Fresh.left, restored |-> TRUE]
  BY <1>4, FreshFields DEF Fields
<1>6. Fields(d)
  BY <1>1, <1>3, <1>5, FreshFields DEF Fields
<1>7. Armed(d) = {} /\ Left(d)
  BY <1>5, FreshFields DEF Armed, Left
<1>8. Agrees(d) /\ Owned(d)
  BY <1>3, <1>5, <1>7 DEF Agrees, Owned
<1> QED
  BY <1>6, <1>7, <1>8, RuntimeFields DEF d

-----------------------------------------------------------------------------
(***************************************************************************)
(* Where the rows lead.  Each fact is read off the 38 rows, group by       *)
(* group, and carried from a row to a call and from a call to a tick.      *)
(***************************************************************************)
(* The ways from one phase to another that SessionLifecycle allows. *)
MayBecome(from, to) ==
    \/ to \in {"RECOVERING", "HOLDING", "RESTING"}
    \/ to = "ESTABLISHING" /\ from \in {"RESTING", "TERMINAL", "ESTABLISHING", "RECOVERING"}
    \/ to = "TERMINAL" /\ from \in {"RESTING", "ESTABLISHING", "RECOVERING"}
    \/ to = "CARRYING" /\ from \in {"ESTABLISHING", "RECOVERING", "CARRYING", "HOLDING"}

(* The guards one of which a way into CARRYING needs. *)
Evidence == {"path_validated", "path_plausibly_survived", "secure_path_established"}

(* What a move from s to another state under t says of s and of t. *)
Leads(s, t, to, need) ==
    /\ MayBecome(PhaseOf(s), PhaseOf(to))
    /\ to = Negotiating => t = Event("CANDIDATES_READY")
    /\ to = Connecting => t = Event("NEGOTIATION_OK")
    /\ to = Disconnected => t = Event("DISCONNECT_REQUESTED")
    /\ PhaseOf(to) = "CARRYING" => PhaseOf(s) = "CARRYING" \/ need \cap Evidence # {}

(* The reason a state keeps is the one it was entered with, BLOCKED apart; *)
(* and a Session is parked for one reason only.                            *)
Restates(s, to, code) ==
    /\ to = s => \/ code = KeepCode
                 \/ s = Blocked \/ s = Disconnected \/ s = Parked
    /\ to = Parked => code = "PLATFORM_SUSPENDED" \/ (s = Parked /\ code = KeepCode)

Mover(r) == \A s \in r.from : \A t \in r.on :
                /\ r.to # s => Leads(s, t, r.to, r.need)
                /\ Restates(s, r.to, r.code)

LEMMA Phases ==
    /\ PhaseOf(Disconnected) = "RESTING"
    /\ \A s \in {Discovering, Negotiating, Connecting} : PhaseOf(s) = "ESTABLISHING"
    /\ \A c : PhaseOf(Steady(c)) = "CARRYING" /\ PhaseOf(Degraded(c)) = "CARRYING"
    /\ \A f, t : PhaseOf(Migrating(f, t)) = "CARRYING"
    /\ PhaseOf(Unparked) = "RECOVERING" /\ PhaseOf(Parked) = "RECOVERING"
    /\ PhaseOf(Blocked) = "HOLDING" /\ PhaseOf(Failed) = "TERMINAL"
  BY DEF PhaseOf, St, Disconnected, Discovering, Negotiating, Connecting, Blocked, Failed,
         Steady, Degraded, Migrating, Unparked, Parked

(* The states other than those of CARRYING are told apart by name. *)
LEMMA Names ==
    /\ Disconnected.name = "DISCONNECTED" /\ Discovering.name = "DISCOVERING"
    /\ Negotiating.name = "NEGOTIATING" /\ Connecting.name = "CONNECTING"
    /\ Blocked.name = "BLOCKED" /\ Failed.name = "FAILED"
    /\ Unparked.name = "RECONNECTING" /\ Parked.name = "RECONNECTING"
    /\ Unparked.parked = FALSE /\ Parked.parked = TRUE
    /\ \A c : Steady(c).name = "STEADY" /\ Degraded(c).name = "DEGRADED"
    /\ \A f, t : Migrating(f, t).name = "MIGRATING"
  BY DEF St, Disconnected, Discovering, Negotiating, Connecting, Blocked, Failed,
         Steady, Degraded, Migrating, Unparked, Parked

LEMMA EstablishmentMoves == \A r \in Establishment : Mover(r)
  BY Phases, Names DEF Establishment, Row, Mover, Leads, Restates, MayBecome, Evidence

LEMMA MobilityMoves == \A r \in Mobility : Mover(r)
  BY Phases, Names DEF Mobility, Row, Mover, Leads, Restates, MayBecome, Evidence,
     Carrying, AllSteady, AllDegraded, AllMigrating

LEMMA QualityMoves == \A r \in Quality : Mover(r)
  BY Phases, Names DEF Quality, Row, Mover, Leads, Restates, MayBecome, Evidence, AllDegraded

LEMMA RecoveryMoves == \A r \in Recovery : Mover(r)
  BY Phases, Names DEF Recovery, Row, Mover, Leads, Restates, MayBecome, Evidence,
     AllReconnecting

LEMMA EnforcementMoves == \A r \in Enforcement : Mover(r)
  BY Phases, Names DEF Enforcement, Row, Mover, Leads, Restates, MayBecome, Evidence

LEMMA LifecycleMoves == \A r \in Lifecycle : Mover(r)
  BY Phases, Names DEF Lifecycle, Row, Mover, Leads, Restates, MayBecome, Evidence

LEMMA TableMoves == \A r \in Table : Mover(r)
  BY EstablishmentMoves, MobilityMoves, QualityMoves, RecoveryMoves, EnforcementMoves,
     LifecycleMoves DEF Table

(* A Session is parked with one code. *)
ParkedRightly(c) == c.state = Parked => c.reason = "PLATFORM_SUSPENDED"

LEMMA MachineApplyMoves ==
    ASSUME NEW c, IsRuntime(c), Agrees(c), NEW t \in Trigger, NEW g, NEW ctx \in Context
    PROVE  LET d == MachineApply(c, t, g, ctx)
           IN  /\ d.state # c.state => Leads(c.state, t, d.state, g)
               /\ d.state = c.state => \/ d.reason = c.reason
                                       \/ c.state = Blocked \/ c.state = Parked
               /\ ParkedRightly(c) => ParkedRightly(d)
<1> DEFINE rows == Resolve(c.state, t, g)
           row == CHOOSE r \in rows : TRUE
           d == MachineApply(c, t, g, ctx)
<1> SUFFICES /\ d.state # c.state => Leads(c.state, t, d.state, g)
             /\ d.state = c.state => \/ d.reason = c.reason
                                     \/ c.state = Blocked \/ c.state = Parked
             /\ ParkedRightly(c) => ParkedRightly(d)
  OBVIOUS
<1>1. Fields(c)
  BY RuntimeFields
<1>2. CASE rows = {}
  BY <1>2 DEF MachineApply, Take
<1>3. CASE rows # {}
  <2>1. row \in rows
    BY <1>3
  <2>2. /\ row \in Table /\ c.state \in row.from /\ t \in row.on
        /\ row.need \subseteq g
    <3>1. RowsFor[c.state][t] = {r \in {q \in Table : t \in q.on} : c.state \in r.from}
      BY <1>1 DEF RowsFor, RowsOn, Fields
    <3> QED
      BY <2>1, <3>1 DEF Resolve, FirstOf, Applicable
  <2>3. d = Moved(c, row, t, g, ctx)
    BY <1>3 DEF MachineApply, Take
  <2>4. Mover(row)
    BY <2>2, TableMoves
  <2> HIDE DEF row, rows
  <2>5. IsRuntime(d) /\ Agrees(d) /\ d.state = row.to
    BY <2>2, <2>3, MovedRuntime
  <2>6. d.reason = HeldReason(RowReason(row, c.reason, g, ctx), row.to)
    BY <1>1, <2>3 DEF Moved, Fields
  <2>7. row.code = KeepCode => RowReason(row, c.reason, g, ctx) = c.reason
    BY DEF RowReason, KeepCode, TransportCode, TerminalCode, AuthCode
  <2>8. row.code = "PLATFORM_SUSPENDED"
            => RowReason(row, c.reason, g, ctx) = "PLATFORM_SUSPENDED"
    BY DEF RowReason, KeepCode, TransportCode, TerminalCode, AuthCode
  <2>9. row.to # c.state => Leads(c.state, t, row.to, g)
    BY <2>2, <2>4 DEF Mover, Leads
  <2>10. Restates(c.state, row.to, row.code)
    BY <2>2, <2>4 DEF Mover
  <2> HIDE DEF d
  <2>11. CASE d.state # c.state
    <3>1. d.state = Parked => d.reason = "PLATFORM_SUSPENDED"
      BY <2>5, <2>6, <2>8, <2>10, <1>3, <2>11
         DEF Restates, HeldReason, OrElse, ReasonBearing, AllReconnecting, NoCode
    <3> QED
      BY <2>5, <2>9, <2>11, <3>1 DEF ParkedRightly
  <2>12. CASE d.state = c.state
    <3>1. CASE row.code = KeepCode
      <4>1. d.reason = c.reason
        BY <2>5, <2>6, <2>7, <2>12, <3>1 DEF HeldReason, OrElse, Agrees
      <4> QED
        BY <2>5, <2>12, <4>1 DEF ParkedRightly
    <3>2. CASE row.code # KeepCode /\ c.state = Disconnected
      <4>1. d.reason = c.reason /\ Parked # Disconnected
        BY <2>5, <2>12, <3>2, Names, DisconnectedNeedsNoReason DEF Agrees
      <4> QED
        BY <2>5, <2>12, <3>2, <4>1 DEF ParkedRightly
    <3>3. CASE row.code # KeepCode /\ c.state = Blocked
      <4>1. Parked # Blocked
        BY Names
      <4> QED
        BY <2>5, <2>12, <3>3, <4>1 DEF ParkedRightly
    <3>4. CASE row.code # KeepCode /\ c.state = Parked
      <4>1. row.code = "PLATFORM_SUSPENDED" /\ row.to = Parked
        BY <2>5, <2>10, <2>12, <3>4 DEF Restates
      <4>2. d.reason = "PLATFORM_SUSPENDED"
        BY <2>6, <2>8, <4>1 DEF HeldReason, OrElse, ReasonBearing, AllReconnecting, NoCode
      <4> QED
        BY <2>5, <2>12, <3>4, <4>2 DEF ParkedRightly
    <3> QED
      BY <2>5, <2>10, <2>12, <3>1, <3>2, <3>3, <3>4 DEF Restates
  <2> QED
    BY <2>5, <2>11, <2>12 DEF d
<1> QED
  BY <1>2, <1>3

(* The same of one call; and what a call that stays does to the deadlines. *)
LEMMA ApplyMoves ==
    ASSUME NEW c, IsRuntime(c), Agrees(c), NEW t \in Trigger, NEW g, NEW ctx \in Context
    PROVE  LET d == Apply(c, t, g, ctx)
           IN  /\ d.state # c.state => Leads(c.state, t, d.state, g)
               /\ d.restored <=> c.restored /\ d.state = c.state
               /\ d.state = c.state => \/ d.reason = c.reason
                                       \/ c.state = Blocked \/ c.state = Parked
               /\ d.state = c.state =>
                      \A id \in Armed(c) : id \in Armed(d) /\ d.left[id] = c.left[id]
               /\ ParkedRightly(c) => ParkedRightly(d)
<1> DEFINE n == MachineApply(c, t, g, ctx)
           d == Apply(c, t, g, ctx)
<1>1. /\ IsRuntime(n) /\ n.left = c.left
      /\ n.restored <=> c.restored /\ n.state = c.state
  BY MachineApplyRuntime
<1>2. /\ n.state # c.state => Leads(c.state, t, n.state, g)
      /\ n.state = c.state => \/ n.reason = c.reason
                              \/ c.state = Blocked \/ c.state = Parked
      /\ ParkedRightly(c) => ParkedRightly(n)
  BY MachineApplyMoves
<1>3. d = IF n.state # c.state THEN Rearm(n)
          ELSE IF t.kind = "TIMER" THEN RearmMissing(n) ELSE n
  BY DEF Apply, Follow
<1>4. Fields(n)
  BY <1>1, RuntimeFields
<1> HIDE DEF n, d
<1>5. /\ d.state = n.state /\ d.reason = n.reason /\ d.restored = n.restored
      /\ d.state = c.state =>
             \A id \in Armed(c) : id \in Armed(d) /\ d.left[id] = c.left[id]
  <2>1. CASE n.state # c.state
    BY <1>3, <1>4, <2>1, RearmRuntime
  <2>2. CASE n.state = c.state /\ t.kind = "TIMER"
    BY <1>1, <1>3, <2>2, RearmMissingRuntime DEF Armed
  <2>3. CASE n.state = c.state /\ t.kind # "TIMER"
    BY <1>1, <1>3, <2>3 DEF Armed
  <2> QED
    BY <2>1, <2>2, <2>3
<1> QED
  BY <1>1, <1>2, <1>5 DEF ParkedRightly, d

(* A timer's rows leave only states that own it (BACKOFF's owner is nobody), *)
(* and go to a state that owns none of the same timers.                      *)
OwnsItsTimer(r) ==
    \A s \in r.from : \A id \in TimerId : Timer(id) \in r.on =>
        /\ id = "BACKOFF" \/ id \in TimersOf(s)
        /\ r.to # s => TimersOf(r.to) \cap TimersOf(s) = {}

LEMMA OwnedTimers ==
    /\ TimersOf(Disconnected) = {} /\ TimersOf(Blocked) = {} /\ TimersOf(Failed) = {}
    /\ TimersOf(Discovering) = {"DISCOVER"} /\ TimersOf(Negotiating) = {"NEGOTIATE"}
    /\ TimersOf(Connecting) = {"CONNECT"}
    /\ TimersOf(Unparked) = {"RECONNECT_GRACE", "RECONNECT_MAX"}
    /\ TimersOf(Parked) = {"RECONNECT_GRACE", "RECONNECT_MAX"}
    /\ \A c : TimersOf(Steady(c)) = {} /\ TimersOf(Degraded(c)) = {"DEGRADED_MAX"}
    /\ \A f, t : TimersOf(Migrating(f, t)) = {"MIGRATE"}
  BY Names DEF TimersOf

LEMMA NobodyOwnsBackoff == \A s : "BACKOFF" \notin TimersOf(s)
  BY DEF TimersOf

LEMMA TimersAreNotEvents ==
    /\ \A id : Timer(id).kind = "TIMER" /\ Timer(id).arg = id
    /\ \A k : Event(k).kind = k
    /\ \A k, x : With(k, x).kind = k
  BY DEF Timer, Event, With

LEMMA EstablishmentTimers == \A r \in Establishment : OwnsItsTimer(r)
  BY OwnedTimers, TimersAreNotEvents DEF Establishment, Row, OwnsItsTimer

LEMMA MobilityTimers == \A r \in Mobility : OwnsItsTimer(r)
  BY OwnedTimers, TimersAreNotEvents DEF Mobility, Row, OwnsItsTimer, MigrationEnd, Death,
     AllMigrating

LEMMA QualityTimers == \A r \in Quality : OwnsItsTimer(r)
  BY OwnedTimers, TimersAreNotEvents DEF Quality, Row, OwnsItsTimer, AllDegraded

LEMMA RecoveryTimers == \A r \in Recovery : OwnsItsTimer(r)
  BY OwnedTimers, TimersAreNotEvents DEF Recovery, Row, OwnsItsTimer, AllReconnecting

LEMMA EnforcementTimers == \A r \in Enforcement : OwnsItsTimer(r)
  BY OwnedTimers, TimersAreNotEvents DEF Enforcement, Row, OwnsItsTimer

LEMMA LifecycleTimers == \A r \in Lifecycle : OwnsItsTimer(r)
  BY OwnedTimers, TimersAreNotEvents DEF Lifecycle, Row, OwnsItsTimer

LEMMA TableTimers == \A r \in Table : OwnsItsTimer(r)
  BY EstablishmentTimers, MobilityTimers, QualityTimers, RecoveryTimers, EnforcementTimers,
     LifecycleTimers DEF Table

(* An expiry a state does not own moves nothing; one it owns leaves its timers. *)
LEMMA ExpiryMoves ==
    ASSUME NEW c, IsRuntime(c), Agrees(c), NEW id \in TimerId, id # "BACKOFF", NEW g,
           NEW ctx \in Context
    PROVE  LET d == Apply(c, Timer(id), g, ctx)
           IN  d.state # c.state => /\ id \in TimersOf(c.state)
                                    /\ TimersOf(d.state) \cap TimersOf(c.state) = {}
<1> DEFINE t == Timer(id)
           rows == Resolve(c.state, t, g)
           row == CHOOSE r \in rows : TRUE
           n == MachineApply(c, t, g, ctx)
           d == Apply(c, t, g, ctx)
<1> SUFFICES ASSUME d.state # c.state
             PROVE  /\ id \in TimersOf(c.state)
                    /\ TimersOf(d.state) \cap TimersOf(c.state) = {}
  OBVIOUS
<1>1. Fields(c) /\ t \in Trigger
  BY RuntimeFields, TimerTriggers
<1>2. IsRuntime(n)
  BY <1>1, MachineApplyRuntime
<1>3. d.state = n.state
  <2>1. d = IF n.state # c.state THEN Rearm(n)
            ELSE IF t.kind = "TIMER" THEN RearmMissing(n) ELSE n
    BY DEF Apply, Follow
  <2>2. Fields(n)
    BY <1>2, RuntimeFields
  <2> HIDE DEF n, d
  <2> QED
    BY <1>2, <2>1, <2>2, RearmRuntime, RearmMissingRuntime
<1>4. rows # {}
  BY <1>3 DEF MachineApply, Take
<1>5. row \in Table /\ c.state \in row.from /\ t \in row.on
  <2>1. row \in rows
    BY <1>4
  <2>2. RowsFor[c.state][t] = {r \in {q \in Table : t \in q.on} : c.state \in r.from}
    BY <1>1 DEF RowsFor, RowsOn, Fields
  <2> QED
    BY <2>1, <2>2 DEF Resolve, FirstOf, Applicable
<1>6. n.state = row.to
  BY <1>1, <1>4 DEF MachineApply, Take, Moved, Fields
<1>7. OwnsItsTimer(row)
  BY <1>5, TableTimers
<1> HIDE DEF row, n, d
<1> QED
  BY <1>3, <1>5, <1>6, <1>7 DEF OwnsItsTimer

(***************************************************************************)
(* What a tick makes of c, seen at any point of it: either nothing moved   *)
(* and every deadline not due runs on, or one expiry moved it, once, to a  *)
(* state none of the expiries still to come can move.                      *)
(***************************************************************************)
Stayed(c, e) ==
    /\ e.state = c.state
    /\ e.reason = c.reason \/ c.state = Blocked \/ c.state = Parked
    /\ \A id \in Armed(c) \ Due(c) : id \in Armed(e) /\ e.left[id] = c.left[id]

Expired(c, e, g) ==
    /\ e.state # c.state
    /\ \E id \in TimerId : Leads(c.state, Timer(id), e.state, g)
    /\ TimersOf(e.state) \cap TimersOf(c.state) = {}

Ticked(c, e, g) ==
    /\ Mid(e)
    /\ ParkedRightly(c) => ParkedRightly(e)
    /\ Stayed(c, e) \/ Expired(c, e, g)

LEMMA ExpiryTicked ==
    ASSUME NEW c, NEW g, NEW e, Ticked(c, e, g), NEW ctx \in Context,
           NEW id \in TimerId, id \in TimersOf(c.state)
    PROVE  Ticked(c, Apply(e, Timer(id), g, ctx), g)
<1> DEFINE d == Apply(e, Timer(id), g, ctx)
<1>1. IsRuntime(e) /\ Agrees(e) /\ Timer(id) \in Trigger /\ Timer(id).kind = "TIMER"
      /\ id # "BACKOFF"
  BY TimerTriggers, NobodyOwnsBackoff DEF Ticked, Mid
<1>2. Mid(d)
  BY <1>1, ApplyRuntime DEF Ticked, Mid
<1>3. /\ d.state # e.state => Leads(e.state, Timer(id), d.state, g)
      /\ d.state = e.state => \/ d.reason = e.reason
                              \/ e.state = Blocked \/ e.state = Parked
      /\ d.state = e.state =>
             \A i \in Armed(e) : i \in Armed(d) /\ d.left[i] = e.left[i]
      /\ ParkedRightly(e) => ParkedRightly(d)
  BY <1>1, ApplyMoves
<1>4. d.state # e.state => /\ id \in TimersOf(e.state)
                           /\ TimersOf(d.state) \cap TimersOf(e.state) = {}
  BY <1>1, ExpiryMoves
<1> HIDE DEF d
<1>5. CASE Stayed(c, e)
  <2>1. CASE d.state = e.state
    <3>1. Stayed(c, d)
      BY <1>3, <1>5, <2>1 DEF Stayed
    <3> QED
      BY <1>2, <1>3, <3>1 DEF Ticked, d
  <2>2. CASE d.state # e.state
    <3>1. Expired(c, d, g)
      BY <1>3, <1>4, <1>5, <2>2 DEF Stayed, Expired
    <3> QED
      BY <1>2, <1>3, <3>1 DEF Ticked, d
  <2> QED
    BY <2>1, <2>2
<1>6. CASE Expired(c, e, g)
  <2>1. d.state = e.state
    BY <1>4, <1>6 DEF Expired
  <2>2. Expired(c, d, g)
    BY <1>6, <2>1 DEF Expired
  <2> QED
    BY <1>2, <1>3, <2>2 DEF Ticked, d
<1> QED
  BY <1>5, <1>6 DEF Ticked

LEMMA TickMoves ==
    ASSUME NEW c, IsRuntime(c), Agrees(c), Owned(c), Due(c) # {}, NEW g,
           NEW ctx \in Context
    PROVE  \A d \in Tick(c, g, ctx) : Ticked(c, d, g)
<1> DEFINE due == Due(c)
           After(S, id) == FireEach(S, id, due, g, ctx)
           s0 == {FireDue(c)}
           s1 == After(s0, "DISCOVER")
           s2 == After(s1, "NEGOTIATE")
           s3 == After(s2, "CONNECT")
           s4 == After(s3, "MIGRATE")
           s5 == After(s4, "RECONNECT_GRACE")
           s6 == After(s5, "RECONNECT_MAX")
           s7 == After(s6, "DEGRADED_MAX")
           s8 == After(s7, "BACKOFF")
           AllTicked(S) == \A d \in S : Ticked(c, d, g)
<1>1. Tick(c, g, ctx) = s8
  BY DEF Tick
<1>2. Fields(c) /\ due \subseteq TimersOf(c.state)
  BY RuntimeFields DEF Owned, Due
<1>3. AllTicked(s0)
  <2>1. Mid(FireDue(c))
    BY FireDueRuntime
  <2>2. FireDue(c) = [state |-> c.state, reason |-> c.reason, profile |-> c.profile,
                      left |-> [t \in Armed(c) \ Due(c) |-> c.left[t]],
                      restored |-> c.restored]
    BY <1>2 DEF Fields, FireDue
  <2>3. Stayed(c, FireDue(c)) /\ (ParkedRightly(c) => ParkedRightly(FireDue(c)))
    BY <2>2 DEF Stayed, Armed, ParkedRightly
  <2> QED
    BY <2>1, <2>3 DEF Ticked
<1>4. ASSUME NEW S, AllTicked(S), NEW id \in TimerId
      PROVE  AllTicked(After(S, id))
  <2>1. \A e \in S : Ticked(c, e, g) /\ (id \in due => Ticked(c, Apply(e, Timer(id), g, ctx), g))
    BY <1>2, <1>4, ExpiryTicked
  <2> QED
    BY <2>1 DEF FireEach
<1>5. {"DISCOVER", "NEGOTIATE", "CONNECT", "MIGRATE", "RECONNECT_GRACE",
       "RECONNECT_MAX", "DEGRADED_MAX", "BACKOFF"} = TimerId
  BY DEF TimerId
<1> HIDE DEF AllTicked, After, due, s0
<1>6. AllTicked(s3)
  BY <1>3, <1>4, <1>5
<1> HIDE DEF s3
<1>7. AllTicked(s6)
  BY <1>4, <1>5, <1>6
<1> HIDE DEF s6
<1>8. AllTicked(s8)
  BY <1>4, <1>5, <1>7
<1> QED
  BY <1>1, <1>8 DEF AllTicked
=============================================================================
