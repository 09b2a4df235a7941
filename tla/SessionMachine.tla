--------------------------- MODULE SessionMachine ---------------------------
(***************************************************************************)
(* One Session's state machine and its deadlines: SessionMachine::apply    *)
(* (twinvpn-session/src/machine.rs) inside SessionRuntime::apply and tick  *)
(* (twinvpn-core/src/session_loop.rs), and the record a journal keeps of   *)
(* it (twinvpn-session/src/journal.rs).                                    *)
(*                                                                         *)
(* A runtime is a record                                                   *)
(*   state, reason   the state and the code it was entered with            *)
(*   profile         the timer profile                                     *)
(*   left            the time each armed deadline has left; its domain is  *)
(*                   the armed set                                         *)
(*   restored        no state change since it was rebuilt from the journal *)
(*                   (a fact about its history, kept for the properties)   *)
(* Time left counts down in units the constant Duration gives; a deadline  *)
(* is due when nothing is left.                                            *)
(***************************************************************************)
EXTENDS SessionTable

CONSTANT Duration        \* the registered length of each timer, in ticks

ASSUME DurationAssumption == Duration \in [TimerId -> Nat \ {0}]

(* The timers a state owns.  BLOCKED's backoff tick is armed by nobody. *)
TimersOf(state) ==
    CASE state.name = "DISCOVERING"  -> {"DISCOVER"}
      [] state.name = "NEGOTIATING"  -> {"NEGOTIATE"}
      [] state.name = "CONNECTING"   -> {"CONNECT"}
      [] state.name = "MIGRATING"    -> {"MIGRATE"}
      [] state.name = "RECONNECTING" -> {"RECONNECT_GRACE", "RECONNECT_MAX"}
      [] state.name = "DEGRADED"     -> {"DEGRADED_MAX"}
      [] OTHER -> {}

Profile == {"FOREGROUND", "BACKGROUND", "PARKED"}

NextProfile(profile, to, trigger, guards) ==
    CASE trigger \in {Event("FOREGROUND"), Event("RESUME")} -> "FOREGROUND"
      [] trigger \in {Event("BACKGROUND"), Event("SUSPEND")} ->
             IF to # Parked /\ "inbound_required" \in guards
             THEN "BACKGROUND" ELSE "PARKED"
      [] OTHER -> profile

(***************************************************************************)
(* The caller's context: the most specific codes it has observed, NoCode   *)
(* where it has none.                                                      *)
(***************************************************************************)
NoContext == [transport |-> NoCode, terminal |-> NoCode, auth |-> NoCode]
Context == [transport : ReasonCode \cup {NoCode}, terminal : ReasonCode \cup {NoCode},
            auth : ReasonCode \cup {NoCode}]

OrElse(code, fallback) == IF code = NoCode THEN fallback ELSE code

RowReason(row, reason, guards, ctx) ==
    CASE row.code = KeepCode -> reason
      [] row.code = TransportCode -> OrElse(ctx.transport, "NET_NO_USABLE_CANDIDATES")
      [] row.code = TerminalCode ->
             OrElse(ctx.terminal, IF "relay_fleet_exhausted" \in guards
                                  THEN "RELAY_FAILOVER_EXHAUSTED"
                                  ELSE "NET_NO_USABLE_CANDIDATES")
      [] row.code = AuthCode -> OrElse(ctx.auth, "AUTH_CRED_EXPIRED")
      [] OTHER -> row.code

(* §10.2 E7: a missing code is repaired loudly; a stateless code is dropped. *)
HeldReason(code, to) ==
    IF to \in ReasonBearing THEN OrElse(code, "INTERNAL_MISSING_REASON") ELSE NoCode

(***************************************************************************)
(* Deadlines.                                                              *)
(***************************************************************************)
Armed(c) == DOMAIN c.left

\* Mutant of FullTerm: every deadline one tick too long.
FullTermLate == [s \in SessionState |-> [t \in TimersOf(s) |-> Duration[t] + 1]]

(* The deadlines of a state just entered. *)
FullTerm == [s \in SessionState |-> [t \in TimersOf(s) |-> Duration[t]]]

(* Cancel everything, then arm what the state owns. *)
Rearm(c) == [c EXCEPT !.left = FullTerm[c.state]]

\* Mutant of RearmMissing: the deadlines still running are set again too.
RearmMissingAll(c) == Rearm(c)

(* Arm what the state owns and is not running; leave the running ones alone. *)
RearmMissing(c) ==
    [c EXCEPT !.left = [t \in Armed(c) \cup TimersOf(c.state) |->
                           IF t \in Armed(c) THEN @[t] ELSE FullTerm[c.state][t]]]

(***************************************************************************)
(* SessionRuntime::apply.                                                  *)
(***************************************************************************)
\* Mutant of Moved: a reason the row does not replace stays behind.
MovedReasonStale(c, row, trigger, guards, ctx) ==
    [c EXCEPT !.state = row.to,
              !.reason = OrElse(RowReason(row, c.reason, guards, ctx), c.reason),
              !.restored = @ /\ row.to = c.state]

Moved(c, row, trigger, guards, ctx) ==
    [c EXCEPT !.state = row.to,
              !.reason = HeldReason(RowReason(row, c.reason, guards, ctx), row.to),
              !.profile = NextProfile(c.profile, row.to, trigger, guards),
              !.restored = IF row.to = c.state THEN @ ELSE FALSE]

(* The row resolution chose, if any, is taken. *)
Take(c, rows, trigger, guards, ctx) ==
    IF rows = {} THEN c ELSE Moved(c, CHOOSE r \in rows : TRUE, trigger, guards, ctx)

MachineApply(c, trigger, guards, ctx) ==
    Take(c, Resolve(c.state, trigger, guards), trigger, guards, ctx)

\* Mutant of Apply: an expiry that moves nothing leaves its deadline disarmed.
ApplyNoRearm(c, trigger, guards, ctx) ==
    LET next == MachineApply(c, trigger, guards, ctx)
    IN  IF next.state # c.state THEN Rearm(next) ELSE next

(* The deadlines follow the machine: afresh on a state change, completed after *)
(* an expiry that changed nothing.                                            *)
Follow(from, trigger, next) ==
    IF next.state # from THEN Rearm(next)
    ELSE IF trigger.kind = "TIMER" THEN RearmMissing(next)
    ELSE next

Apply(c, trigger, guards, ctx) ==
    Follow(c.state, trigger, MachineApply(c, trigger, guards, ctx))

(***************************************************************************)
(* SessionRuntime::tick: every due deadline is taken out of the armed set, *)
(* then each is applied in TimerId order, all under the same guards.       *)
(***************************************************************************)
Due(c) == {t \in Armed(c) : c.left[t] = 0}

FireDue(c) == [c EXCEPT !.left = [t \in Armed(c) \ Due(c) |-> @[t]]]

FireEach(outcomes, id, due, guards, ctx) ==
    {IF id \in due THEN Apply(c, Timer(id), guards, ctx) ELSE c : c \in outcomes}

(* The outcome of a tick, as a set of one. *)
Tick(c, guards, ctx) ==
    LET due == Due(c)
        Then(outcomes, id) == FireEach(outcomes, id, due, guards, ctx)
        Early == Then(Then(Then({FireDue(c)}, "DISCOVER"), "NEGOTIATE"), "CONNECT")
        Late == Then(Then(Then(Early, "MIGRATE"), "RECONNECT_GRACE"), "RECONNECT_MAX")
    IN  Then(Then(Late, "DEGRADED_MAX"), "BACKOFF")

(* One unit of monotonic time. *)
Elapse(c) ==
    [c EXCEPT !.left = [t \in Armed(c) |-> IF @[t] > 0 THEN @[t] - 1 ELSE 0]]

(***************************************************************************)
(* Construction, and the durable record.                                   *)
(***************************************************************************)
Fresh == [state |-> Disconnected, reason |-> NoCode, profile |-> "FOREGROUND",
          left |-> FullTerm[Disconnected], restored |-> FALSE]

Record(c) == [state |-> c.state, reason |-> c.reason]

\* Mutant of ResumeState: the Session resumes where it was.
ResumeStateAsLeft(record) == record.state

ResumeState(record) ==
    IF record.state \in {Disconnected, Failed} THEN record.state ELSE Unparked

DefaultResumeReason(state) ==
    CASE state = Blocked -> "POLICY_KILLSWITCH_ENGAGED"
      [] state = Failed -> "NET_NO_ROUTE"
      [] state \in AllDegraded -> "NET_QOS_DEGRADED_TIMEOUT"
      [] OTHER -> "PLATFORM_PROCESS_RESTARTED"

(* SessionEntry::resumed: the machine restored, wrapped with no deadline armed. *)
Resumed(record) ==
    LET state == ResumeState(record)
    IN  [Fresh EXCEPT !.state = state,
                      !.reason = IF state \in ReasonBearing
                                 THEN OrElse(record.reason, DefaultResumeReason(state))
                                 ELSE NoCode,
                      !.restored = TRUE]

(* A well-formed runtime: no deadline is further off than its full term. *)
IsRuntime(c) ==
    /\ c \in [state : SessionState, reason : ReasonCode \cup {NoCode},
              profile : Profile, left : {c.left}, restored : BOOLEAN]
    /\ Armed(c) \subseteq TimerId
    /\ \A t \in Armed(c) : c.left[t] \in 0 .. Duration[t]
=============================================================================
