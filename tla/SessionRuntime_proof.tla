------------------------- MODULE SessionRuntime_proof -------------------------
(***************************************************************************)
(* Proofs about SessionRuntime, for every length of the timers and every   *)
(* context a caller may supply.                                            *)
(***************************************************************************)
EXTENDS SessionRuntime, SessionMachine_proof

LEMMA ContextForType == \A triggers : ContextFor(triggers) \subseteq Context
  BY ContextAssumption DEF ContextFor, Context

-----------------------------------------------------------------------------
(***************************************************************************)
(* The inductive invariant.  DeadlinesOwned is not inductive alone: that   *)
(* an expiry is never applied to a restored Session follows from it, and   *)
(* that the new state owns known timers from TypeOK.                       *)
(***************************************************************************)
Inductive == TypeOK /\ ReasonAgrees /\ DeadlinesOwned

LEMMA InductiveIsPerRuntime ==
    /\ Inductive <=> /\ IsRuntime(rt) /\ Agrees(rt) /\ Owned(rt)
                     /\ mode \in {{}, Permissive}
    /\ Inductive' <=> /\ IsRuntime(rt') /\ Agrees(rt') /\ Owned(rt')
                      /\ mode' \in {{}, Permissive}
  BY DEF Inductive, TypeOK, ReasonAgrees, DeadlinesOwned, IsRuntime, Agrees, Owned, Armed

LEMMA InitInductive == Init => Inductive
  BY FreshRuntime, InductiveIsPerRuntime DEF Init

LEMMA StepInductive == Inductive /\ [Next]_vars => Inductive'
<1> SUFFICES ASSUME Inductive, [Next]_vars
             PROVE  /\ IsRuntime(rt') /\ Agrees(rt') /\ Owned(rt')
                    /\ mode' \in {{}, Permissive}
  BY InductiveIsPerRuntime
<1>1. IsRuntime(rt) /\ Agrees(rt) /\ Owned(rt) /\ mode \in {{}, Permissive}
  BY InductiveIsPerRuntime
<1>2. ASSUME NEW t \in EventTrigger, Deliver(t)
      PROVE  IsRuntime(rt') /\ Agrees(rt') /\ Owned(rt')
  <2>1. PICK g \in GuardsFor({t}), ctx \in ContextFor({t}) : rt' = Apply(rt, t, g, ctx)
    BY <1>2 DEF Deliver
  <2>2. ctx \in Context /\ t \in Trigger /\ t.kind # "TIMER"
    BY ContextForType, EventTriggers
  <2> QED
    BY <1>1, <2>1, <2>2, ApplyRuntime
<1>3. ASSUME TickDue
      PROVE  IsRuntime(rt') /\ Agrees(rt') /\ Owned(rt')
  <2> DEFINE fired == {Timer(id) : id \in Due(rt)}
  <2>1. PICK g \in GuardsFor(fired), ctx \in ContextFor(fired) : rt' \in Tick(rt, g, ctx)
    BY <1>3 DEF TickDue
  <2>2. ctx \in Context /\ Due(rt) # {}
    BY <1>3, ContextForType DEF TickDue
  <2>3. Complete(rt')
    BY <1>1, <2>1, <2>2, TickRuntime
  <2> QED
    BY <2>3 DEF Complete, Mid, Owned
<1>4. ASSUME PassTime
      PROVE  IsRuntime(rt') /\ Agrees(rt') /\ Owned(rt')
  BY <1>1, <1>4, ElapseRuntime DEF PassTime
<1>5. ASSUME Restart
      PROVE  IsRuntime(rt') /\ Agrees(rt') /\ Owned(rt')
  <2>1. PICK r \in WellFormedRecord : rt' = Resumed(r)
    BY <1>5 DEF Restart
  <2>2. r.state \in SessionState /\ r.reason \in ReasonCode \cup {NoCode}
    BY DEF WellFormedRecord
  <2> QED
    BY <2>1, <2>2, ResumedRuntime
<1>6. ASSUME UNCHANGED vars
      PROVE  IsRuntime(rt') /\ Agrees(rt') /\ Owned(rt')
  BY <1>1, <1>6 DEF vars, IsRuntime, Agrees, Owned, Armed
<1>7. mode' = mode
  BY DEF Next, Deliver, TickDue, PassTime, Restart, vars
<1> QED
  BY <1>1, <1>2, <1>3, <1>4, <1>5, <1>6, <1>7 DEF Next

(* What the theorems share: the invariant holds of every reachable state. *)
LEMMA AlwaysInductive == Spec => []Inductive
  BY InitInductive, StepInductive, PTL DEF Spec

(* For every length of the timers and every caller's context, each call on a *)
(* SessionRuntime leaves a well-formed runtime, no deadline further off than *)
(* its full term (session_loop.rs apply, tick; machine.rs resumed).          *)
THEOREM TypeCorrect == Spec => []TypeOK
<1>1. Inductive => TypeOK
  BY DEF Inductive
<1> QED
  BY <1>1, AlwaysInductive, PTL

(* SessionMachine::state_and_reason_agree holds after every call, a restart  *)
(* from any well-formed record included.                                     *)
THEOREM ReasonAgreesAlways == Spec => []ReasonAgrees
<1>1. Inductive => ReasonAgrees
  BY DEF Inductive
<1> QED
  BY <1>1, AlwaysInductive, PTL

(* W-34 in general: whatever deadlines expire together and whatever rows     *)
(* their expiries fire, a Session that is not freshly rebuilt runs exactly   *)
(* the deadlines its state owns; one that is, runs none.                     *)
THEOREM DeadlinesOwnedAlways == Spec => []DeadlinesOwned
<1>1. Inductive => DeadlinesOwned
  BY DEF Inductive
<1> QED
  BY <1>1, AlwaysInductive, PTL

-----------------------------------------------------------------------------
(***************************************************************************)
(* What one step does to the Session, whichever call it is.  Parked has    *)
(* one code: without that, a second SUSPEND could relabel a parked Session *)
(* and StayUndisturbed would not follow from the step alone.               *)
(***************************************************************************)
WithParking == Inductive /\ ParkedRightly(rt)

(* A call moves the Session by one row; or nothing of it but time; or a *)
(* process restart finds it.                                            *)
Moves(g, t) == rt'.state # rt.state /\ ~rt'.restored /\ Leads(rt.state, t, rt'.state, g)

Rests ==
    /\ rt'.state = rt.state /\ rt'.restored = rt.restored
    /\ rt'.reason = rt.reason \/ rt.state = Blocked
    /\ \A t \in Armed(rt) \cap Armed(rt') : rt.left[t] > 0 => rt'.left[t] <= rt.left[t]

Found == rt'.restored /\ rt'.state \in {Disconnected, Failed, Unparked}

Effect == (\E g, t : Moves(g, t)) \/ Rests \/ Found

LEMMA ReasonKept ==
    ASSUME NEW c, NEW d, ParkedRightly(c), ParkedRightly(d), d.state = c.state,
           d.reason = c.reason \/ c.state = Blocked \/ c.state = Parked
    PROVE  d.reason = c.reason \/ c.state = Blocked
  BY DEF ParkedRightly

LEMMA DeliverEffect ==
    ASSUME WithParking, NEW t \in EventTrigger, Deliver(t)
    PROVE  Effect /\ ParkedRightly(rt')
<1>1. IsRuntime(rt) /\ Agrees(rt) /\ ParkedRightly(rt)
  BY InductiveIsPerRuntime DEF WithParking
<1>2. PICK g \in GuardsFor({t}), ctx \in ContextFor({t}) : rt' = Apply(rt, t, g, ctx)
  BY DEF Deliver
<1>3. ctx \in Context /\ t \in Trigger
  BY ContextForType, EventTriggers
<1>4. /\ rt'.state # rt.state => Leads(rt.state, t, rt'.state, g)
      /\ rt'.restored <=> rt.restored /\ rt'.state = rt.state
      /\ rt'.state = rt.state => \/ rt'.reason = rt.reason
                                 \/ rt.state = Blocked \/ rt.state = Parked
      /\ rt'.state = rt.state =>
             \A id \in Armed(rt) : id \in Armed(rt') /\ rt'.left[id] = rt.left[id]
      /\ ParkedRightly(rt')
  BY <1>1, <1>2, <1>3, ApplyMoves
<1>5. IsRuntime(rt')
  BY <1>1, <1>2, <1>3, ApplyRuntime
<1>6. Fields(rt) /\ Left(rt) /\ Fields(rt')
  BY <1>1, <1>5, RuntimeFields
<1>7. CASE rt'.state # rt.state
  BY <1>4, <1>7 DEF Effect, Moves
<1>8. CASE rt'.state = rt.state
  <2>1. rt'.reason = rt.reason \/ rt.state = Blocked
    BY <1>1, <1>4, <1>8, ReasonKept
  <2>2. \A id \in Armed(rt) : rt.left[id] \in Nat
    BY <1>6, DurationAssumption DEF Left
  <2>3. \A id \in Armed(rt) \cap Armed(rt') : rt.left[id] > 0 => rt'.left[id] <= rt.left[id]
    BY <1>4, <1>8, <2>2
  <2>4. rt'.restored = rt.restored
    BY <1>4, <1>6, <1>8 DEF Fields
  <2> QED
    BY <1>4, <1>8, <2>1, <2>3, <2>4 DEF Effect, Rests
<1> QED
  BY <1>7, <1>8

LEMMA TickEffect ==
    ASSUME WithParking, TickDue
    PROVE  Effect /\ ParkedRightly(rt')
<1> DEFINE fired == {Timer(id) : id \in Due(rt)}
<1>1. IsRuntime(rt) /\ Agrees(rt) /\ Owned(rt) /\ ParkedRightly(rt)
  BY InductiveIsPerRuntime DEF WithParking
<1>2. PICK g \in GuardsFor(fired), ctx \in ContextFor(fired) : rt' \in Tick(rt, g, ctx)
  BY DEF TickDue
<1>3. ctx \in Context /\ Due(rt) # {}
  BY ContextForType DEF TickDue
<1>4. Ticked(rt, rt', g)
  BY <1>1, <1>2, <1>3, TickMoves
<1>5. Fields(rt) /\ Left(rt) /\ IsRuntime(rt')
  BY <1>1, <1>4, RuntimeFields DEF Ticked, Mid
<1>6. ~rt.restored /\ ~rt'.restored /\ ParkedRightly(rt')
  BY <1>1, <1>3, <1>4 DEF Owned, Due, Ticked, Mid
<1>7. CASE Expired(rt, rt', g)
  BY <1>6, <1>7 DEF Expired, Effect, Moves
<1>8. CASE Stayed(rt, rt')
  <2>1. rt'.reason = rt.reason \/ rt.state = Blocked
    BY <1>1, <1>6, <1>8, ReasonKept DEF Stayed
  <2>2. \A id \in Armed(rt) : rt.left[id] \in Nat
    BY <1>5, DurationAssumption DEF Left
  <2>3. \A id \in Armed(rt) \cap Armed(rt') : rt.left[id] > 0 => rt'.left[id] <= rt.left[id]
    BY <1>8, <2>2 DEF Stayed, Due
  <2>4. rt'.restored = rt.restored
    BY <1>5, <1>6, RuntimeFields DEF Fields
  <2> QED
    BY <1>6, <1>8, <2>1, <2>3, <2>4 DEF Effect, Rests, Stayed
<1> QED
  BY <1>4, <1>6, <1>7, <1>8 DEF Ticked

LEMMA PassTimeEffect ==
    ASSUME WithParking, PassTime
    PROVE  Effect /\ ParkedRightly(rt')
<1>1. Fields(rt) /\ Left(rt) /\ ParkedRightly(rt)
  BY InductiveIsPerRuntime, RuntimeFields DEF WithParking
<1>2. rt' = [state |-> rt.state, reason |-> rt.reason, profile |-> rt.profile,
             left |-> [t \in Armed(rt) |-> IF rt.left[t] > 0 THEN rt.left[t] - 1 ELSE 0],
             restored |-> rt.restored]
  BY <1>1 DEF PassTime, Elapse, Fields
<1>3. \A id \in Armed(rt) : rt.left[id] \in Nat
  BY <1>1, DurationAssumption DEF Left
<1>4. \A id \in Armed(rt) : rt.left[id] > 0 => rt'.left[id] <= rt.left[id]
  BY <1>2, <1>3
<1> QED
  BY <1>1, <1>2, <1>4 DEF Effect, Rests, ParkedRightly

LEMMA RestartEffect ==
    ASSUME Restart
    PROVE  Effect /\ ParkedRightly(rt')
<1>1. PICK r \in WellFormedRecord : rt' = Resumed(r)
  BY DEF Restart
<1>2. rt'.state = ResumeState(r) /\ rt'.restored = TRUE
  BY <1>1, FreshFields DEF Resumed, Fields
<1>3. rt'.state \in {Disconnected, Failed, Unparked}
  BY <1>2 DEF ResumeState
<1>4. Parked \notin {Disconnected, Failed, Unparked}
  BY Names
<1> QED
  BY <1>2, <1>3, <1>4 DEF Effect, Found, ParkedRightly

LEMMA StepEffect == WithParking /\ [Next]_vars => Effect /\ WithParking'
<1> SUFFICES ASSUME WithParking, [Next]_vars
             PROVE  Effect /\ ParkedRightly(rt')
  BY StepInductive DEF WithParking, ParkedRightly
<1>1. CASE UNCHANGED vars
  <2>1. Fields(rt) /\ Left(rt) /\ ParkedRightly(rt)
    BY InductiveIsPerRuntime, RuntimeFields DEF WithParking
  <2>2. \A id \in Armed(rt) : rt.left[id] \in Nat
    BY <2>1, DurationAssumption DEF Left
  <2> QED
    BY <1>1, <2>1, <2>2 DEF vars, Effect, Rests, ParkedRightly
<1> QED
  BY <1>1, DeliverEffect, TickEffect, PassTimeEffect, RestartEffect DEF Next

LEMMA AlwaysWithParking == Spec => []WithParking
<1>1. Init => WithParking
  <2>1. Fresh.state # Parked
    BY FreshFields, Names
  <2> QED
    BY <2>1, InitInductive DEF Init, WithParking, ParkedRightly
<1> QED
  BY <1>1, StepEffect, PTL DEF Spec

(* While a state lasts, what it was entered with lasts (session_loop.rs      *)
(* apply, tick, W-34): no call moves a running deadline back, an expiry that *)
(* moves nothing re-arms only what expired, and only BLOCKED is relabelled.  *)
THEOREM StayUndisturbedAlways == Spec => StayUndisturbed
<1>1. WithParking /\ [Next]_vars =>
          [rt'.state = rt.state /\ ~rt'.restored =>
               /\ \A t \in Armed(rt) \cap Armed(rt') :
                     rt.left[t] > 0 => rt'.left[t] <= rt.left[t]
               /\ rt'.reason = rt.reason \/ rt.state = Blocked]_vars
  BY StepEffect DEF Effect, Moves, Rests, Found
<1> QED
  BY <1>1, AlwaysWithParking, PTL DEF Spec, StayUndisturbed

-----------------------------------------------------------------------------
(***************************************************************************)
(* The refinement: each call is a step of SessionLifecycle or changes      *)
(* neither the phase nor how the process came by the Session.              *)
(***************************************************************************)
LEMMA MoveIsStep ==
    ASSUME IsRuntime(rt'), NEW g, NEW t, Moves(g, t)
    PROVE  Promise!Next
<1>1. PhaseOf(rt.state) \in Promise!Phase
  BY DEF PhaseOf, Promise!Phase
<1>2. MayBecome(PhaseOf(rt.state), PhaseOf(rt'.state))
  BY DEF Moves, Leads
<1>3. rt'.restored = FALSE
  BY RuntimeFields DEF Fields, Moves
<1> QED
  BY <1>1, <1>2, <1>3
     DEF MayBecome, Promise!Next, Promise!Move, Promise!Request, Promise!Progress,
         Promise!Refuse, Promise!Succeed, Promise!Shift, Promise!StartOver,
         Promise!Exhaust, Promise!Release, Promise!Recover, Promise!Hold, Promise!Close

LEMMA FoundIsStep ==
    ASSUME IsRuntime(rt'), Found
    PROVE  Promise!Next
<1>1. PhaseOf(rt'.state) \in {"RESTING", "RECOVERING", "TERMINAL"}
  BY Phases DEF Found
<1>2. rt'.restored = TRUE
  BY RuntimeFields DEF Found, Fields
<1> QED
  BY <1>1, <1>2 DEF Promise!Next, Promise!Restart

(* Whatever triggers, guards and restarts come, a Session keeps the promise  *)
(* of SessionLifecycle: it carries only after an establishment or a          *)
(* recovery, never fails for good while it carries, and never carries just   *)
(* because a process found it (table.rs T01 to T38; machine.rs resumed).     *)
THEOREM KeepsLifecycleAlways == Spec => KeepsLifecycle
<1>1. Init => Promise!Init
  <2>1. Fresh.state = Disconnected /\ Fresh.restored = FALSE
    BY FreshFields DEF Fresh
  <2> QED
    BY <2>1, Phases DEF Init, Promise!Init
<1>2. WithParking /\ WithParking' /\ [Next]_vars => [Promise!Next]_(Promise!vars)
  <2> SUFFICES ASSUME WithParking, WithParking', [Next]_vars
               PROVE  Promise!Next \/ UNCHANGED Promise!vars
    OBVIOUS
  <2>1. IsRuntime(rt')
    BY InductiveIsPerRuntime DEF WithParking
  <2>2. CASE Rests
    BY <2>2 DEF Rests, Promise!vars
  <2> QED
    BY <2>1, <2>2, StepEffect, MoveIsStep, FoundIsStep DEF Effect
<1> QED
  BY <1>1, <1>2, AlwaysWithParking, PTL DEF Spec, KeepsLifecycle, Promise!Spec
=============================================================================
