--------------------------- MODULE SessionRuntime ---------------------------
(***************************************************************************)
(* One Session driven by an open environment: any event with any guards    *)
(* the table reads, the clock, the host's tick, and a process restart that *)
(* rebuilds the Session from a journal record.  The operators are those of *)
(* SessionMachine; each action is one call on SessionRuntime.              *)
(***************************************************************************)
EXTENDS SessionMachine

CONSTANTS
    CtxTransport,   \* codes a caller may supply as Context::transport_code
    CtxTerminal,    \* ... as Context::terminal_code
    CtxAuth         \* ... as Context::terminal_auth_code

ASSUME ContextAssumption ==
    /\ CtxTransport \subseteq ReasonCode
    /\ CtxTerminal \subseteq ReasonCode
    /\ CtxAuth \subseteq ReasonCode

VARIABLES
    rt,     \* the SessionRuntime
    mode    \* the enforcement guard in force: {} is fail-closed

vars == <<rt, mode>>

Permissive == {"permissive_announced"}

(* The guards and contexts worth telling apart for a set of triggers. *)
GuardsFor(triggers) ==
    {g \cup mode : g \in SUBSET ((UNION {GuardsRead[t] : t \in triggers}) \ Permissive)}

ContextFor(triggers) ==
    LET read == {r.code : r \in UNION {RowsOn[t] : t \in triggers}}
        Codes(code, codes) == IF code \in read THEN codes \cup {NoCode} ELSE {NoCode}
    IN  [transport : Codes(TransportCode, CtxTransport),
         terminal : Codes(TerminalCode, CtxTerminal),
         auth : Codes(AuthCode, CtxAuth)]

Init == rt = Fresh /\ mode \in {{}, Permissive}

(* SessionRuntime::apply on an event. *)
Deliver(t) ==
    /\ \E g \in GuardsFor({t}), ctx \in ContextFor({t}) : rt' = Apply(rt, t, g, ctx)
    /\ UNCHANGED mode

(* SessionRuntime::tick when something is due; with nothing due it does nothing. *)
TickDue ==
    /\ Due(rt) # {}
    /\ LET fired == {Timer(id) : id \in Due(rt)}
       IN  \E g \in GuardsFor(fired), ctx \in ContextFor(fired) : rt' \in Tick(rt, g, ctx)
    /\ UNCHANGED mode

PassTime ==
    /\ \E t \in Armed(rt) : rt.left[t] > 0
    /\ rt' = Elapse(rt)
    /\ UNCHANGED mode

(* The record the journal holds was written at some earlier moment of this *)
(* Session, so any well-formed pair of state and reason may be found.      *)
WellFormedRecord ==
    {r \in [state : SessionState, reason : ReasonCode \cup {NoCode}] :
        /\ (r.state \in ReasonBearing) = (r.reason # NoCode)
        /\ r.reason # NoCode => ClassAdmissible(r.reason, r.state)}

Restart ==
    /\ \E r \in WellFormedRecord : rt' = Resumed(r)
    /\ UNCHANGED mode

Next ==
    \/ \E t \in EventTrigger : Deliver(t)
    \/ TickDue
    \/ PassTime
    \/ Restart

Spec == Init /\ [][Next]_vars

-----------------------------------------------------------------------------
(* The runtime is well formed. *)
TypeOK == IsRuntime(rt) /\ mode \in {{}, Permissive}

(* A reason code accompanies exactly the four reason-bearing states, after   *)
(* every call: SessionMachine::state_and_reason_agree.                       *)
ReasonAgrees == (rt.state \in ReasonBearing) = (rt.reason # NoCode)

(* Every state runs exactly the deadlines it owns: none is lost when a timer *)
(* fires and moves nothing (W-34), none survives from the state before.  A   *)
(* Session rebuilt from the journal runs none until its state changes.       *)
DeadlinesOwned == Armed(rt) = IF rt.restored THEN {} ELSE TimersOf(rt.state)

(* While a state lasts, what it was entered with lasts: a running deadline is *)
(* never moved back, neither by an ignored trigger, a heartbeat row, nor the  *)
(* re-arming of its sibling after an expiry; and a heartbeat cannot relabel   *)
(* the reason.  A further violation may, in BLOCKED.                         *)
StayUndisturbed ==
    [][rt'.state = rt.state /\ ~rt'.restored =>
           /\ \A t \in Armed(rt) \cap Armed(rt') :
                 rt.left[t] > 0 => rt'.left[t] <= rt.left[t]
           /\ rt'.reason = rt.reason \/ rt.state = Blocked]_vars

(* Whatever triggers, guards and restarts come, the Session keeps the promise *)
(* of SessionLifecycle: each table row is a step of it.                       *)
Promise == INSTANCE SessionLifecycle
               WITH phase <- PhaseOf(rt.state), restored <- rt.restored
KeepsLifecycle == Promise!Spec

=============================================================================
