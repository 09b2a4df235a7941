---------------------------- MODULE SessionTable ----------------------------
(***************************************************************************)
(* The transition table of one Session: the 38 rows of                     *)
(* core/crates/twinvpn-session/src/table.rs, over the states of state.rs,  *)
(* the triggers of event.rs and the guards of guards.rs.                   *)
(*                                                                         *)
(* A row is a record: the states it leaves, the triggers it answers, the   *)
(* guards it needs, the guards that rule it out, where it goes and the     *)
(* reason code the target carries.  Guards that hold are a set of names;   *)
(* every guard defaults to false, so a caller that supplies nothing        *)
(* supplies {}.  The module has no variables.                              *)
(***************************************************************************)
EXTENDS Naturals, FiniteSets

(***************************************************************************)
(* States.  A state is a name with the parameters the enum variant has.    *)
(***************************************************************************)
PathClass == {"LOCAL_DIRECT", "WAN_DIRECT", "RELAYED"}
NoClass == "NO_CLASS"

St(name, from, to, parked) ==
    [name |-> name, from |-> from, to |-> to, parked |-> parked]

Disconnected  == St("DISCONNECTED", NoClass, NoClass, FALSE)
Discovering   == St("DISCOVERING", NoClass, NoClass, FALSE)
Negotiating   == St("NEGOTIATING", NoClass, NoClass, FALSE)
Connecting    == St("CONNECTING", NoClass, NoClass, FALSE)
Blocked       == St("BLOCKED", NoClass, NoClass, FALSE)
Failed        == St("FAILED", NoClass, NoClass, FALSE)
Steady(c)     == St("STEADY", c, NoClass, FALSE)
Degraded(c)   == St("DEGRADED", c, NoClass, FALSE)
Migrating(f, t)  == St("MIGRATING", f, t, FALSE)
Unparked == St("RECONNECTING", NoClass, NoClass, FALSE)
Parked   == St("RECONNECTING", NoClass, NoClass, TRUE)

AllSteady    == {Steady(c) : c \in PathClass}
AllDegraded  == {Degraded(c) : c \in PathClass}
AllMigrating == {Migrating(f, t) : f \in PathClass, t \in PathClass}
AllReconnecting == {Unparked, Parked}

SessionState ==
    {Disconnected, Discovering, Negotiating, Connecting, Blocked, Failed}
        \cup AllSteady \cup AllDegraded \cup AllMigrating \cup AllReconnecting

(* The states a reason code must accompany. *)
ReasonBearing == AllDegraded \cup AllReconnecting \cup {Blocked, Failed}

(***************************************************************************)
(* Triggers: the events of section 4.3 with the payloads the table reads,  *)
(* and the eight timers.                                                   *)
(***************************************************************************)
NoArg == "NO_ARG"
Event(kind) == [kind |-> kind, arg |-> NoArg]
With(kind, arg) == [kind |-> kind, arg |-> arg]
Timer(id) == [kind |-> "TIMER", arg |-> id]

TimerId == {"DISCOVER", "NEGOTIATE", "CONNECT", "MIGRATE",
            "RECONNECT_GRACE", "RECONNECT_MAX", "DEGRADED_MAX", "BACKOFF"}

QosMetric == {"LOSS", "RTT", "JITTER", "THROUGHPUT", "EFFECTIVE_MTU"}
PolicyViolationKind ==
    {"DNS_OFF_TUNNEL", "ROUTE_DRIFT", "IFACE_MISSING", "FAMILY_UNCOVERED",
     "RULESET_ABSENT", "GRANT_EXPIRED"}

PlainEvent ==
    {"CONNECT_REQUESTED", "DISCONNECT_REQUESTED", "CANDIDATES_READY",
     "CANDIDATE_TIMEOUT", "NEGOTIATION_OK", "NEGOTIATION_FAIL",
     "VERSION_INCOMPATIBLE", "HANDSHAKE_FAIL", "AUTH_REJECTED", "PEER_REVOKED",
     "RELAY_READY", "PATH_SUSPECT", "PATH_DEAD", "LINK_DOWN", "LINK_UP",
     "ADDR_CHANGED", "MIGRATION_FAIL", "QOS_RESTORED", "SECURE_PATH_RESTORED",
     "CRED_EXPIRED", "SUSPEND", "RESUME", "BACKGROUND", "FOREGROUND",
     "RETRY_BUDGET_EXHAUSTED", "PEER_CLOSED", "PEER_RESTARTING",
     "RELAY_DRAINING", "RELAY_GONE"}

EventTrigger ==
    {Event(k) : k \in PlainEvent}
        \cup {With(k, c) : k \in {"HANDSHAKE_OK", "PATH_UPGRADE_AVAILABLE",
                                  "PATH_VALIDATED"}, c \in PathClass}
        \cup {With("QOS_VIOLATION", m) : m \in QosMetric}
        \cup {With("POLICY_VIOLATION", k) : k \in PolicyViolationKind}

Trigger == EventTrigger \cup {Timer(id) : id \in TimerId}

(***************************************************************************)
(* Reason codes.  A code matters to the machine through its registered     *)
(* class; two codes of a row's fallback ladder are supplied by the caller. *)
(***************************************************************************)
NoCode == "NO_CODE"
KeepCode == "KEEP_CODE"             \* a no-change row restates the code
TransportCode == "CTX_TRANSPORT"    \* T12: Context::transport_or_default
TerminalCode == "CTX_TERMINAL"      \* T27: Context::terminal_or_default
AuthCode == "CTX_AUTH"              \* T28: Context::terminal_auth_code

QosCode == [LOSS |-> "NET_QOS_LOSS_HIGH", RTT |-> "NET_QOS_RTT_HIGH",
            JITTER |-> "NET_QOS_JITTER_HIGH",
            THROUGHPUT |-> "NET_QOS_DEGRADED_TIMEOUT",
            EFFECTIVE_MTU |-> "NET_MTU_TOO_SMALL"]

PolicyCode == [DNS_OFF_TUNNEL |-> "POLICY_LEAK_DETECTED",
               ROUTE_DRIFT |-> "ROUTE_DRIFT_DETECTED",
               IFACE_MISSING |-> "ROUTE_IFACE_MISSING",
               FAMILY_UNCOVERED |-> "POLICY_LEAK_IPV6_UNPROTECTED",
               RULESET_ABSENT |-> "POLICY_KILLSWITCH_ARM_FAILED",
               GRANT_EXPIRED |-> "POLICY_EXPIRY_BUNDLE_EXPIRED"]

(* The class the registry gives each code the machine can hold. *)
TransientCode ==
    {"NET_NO_USABLE_CANDIDATES", "NET_SESSION_NEGOTIATION_FAILED",
     "NET_PATH_MIGRATION_FAILED", "NET_PATH_DEAD_NO_ALTERNATE",
     "NET_QOS_LOSS_HIGH", "NET_QOS_RTT_HIGH", "NET_QOS_JITTER_HIGH",
     "NET_QOS_DEGRADED_TIMEOUT", "PLATFORM_SUSPENDED",
     "PLATFORM_PROCESS_RESTARTED", "CRYPTO_NO_RESPONSE"}
PersistentCode ==
    {"AUTH_CRED_EXPIRED", "PROTO_VERSION_UNSUPPORTED", "AUTH_PEER_UNTRUSTED",
     "NET_MTU_TOO_SMALL", "ROUTE_DRIFT_DETECTED", "ROUTE_IFACE_MISSING",
     "CRYPTO_HANDSHAKE_REJECTED", "RELAY_FAILOVER_EXHAUSTED", "NET_NO_ROUTE"}
PolicyClassCode ==
    {"AUTH_DEVICE_REVOKED", "POLICY_KILLSWITCH_ENGAGED",
     "POLICY_LEAK_IPV6_UNPROTECTED", "POLICY_EXPIRY_BUNDLE_EXPIRED"}
FatalCode ==
    {"POLICY_LEAK_DETECTED", "POLICY_KILLSWITCH_ARM_FAILED",
     "INTERNAL_UNEXPECTED_STATE", "INTERNAL_MISSING_REASON"}
ReasonCode == TransientCode \cup PersistentCode \cup PolicyClassCode \cup FatalCode

(* codes.rs: whether a code's class may accompany a state. *)
ClassAdmissible(code, state) ==
    /\ state = Blocked => code \in PolicyClassCode \cup FatalCode \cup PersistentCode
    /\ state \in AllReconnecting \cup AllDegraded =>
           code \in TransientCode \cup PersistentCode

(***************************************************************************)
(* The rows.                                                               *)
(***************************************************************************)
Row(n, from, on, need, deny, to, code) ==
    [row |-> n, from |-> from, on |-> on, need |-> need, deny |-> deny,
     to |-> to, code |-> code]

Carrying == AllSteady \cup AllDegraded
Death == {Event("PATH_DEAD"), Event("LINK_DOWN"), Event("RELAY_GONE")}

Establishment ==
    { Row(1, {Disconnected}, {Event("CONNECT_REQUESTED")},
          {"credentials_valid", "peer_authorized"}, {}, Discovering, NoCode),
      Row(2, {Disconnected}, {Event("CONNECT_REQUESTED")},
          {"credentials_expired"}, {}, Failed, "AUTH_CRED_EXPIRED"),
      Row(3, {Discovering}, {Event("CANDIDATES_READY")},
          {"usable_candidate"}, {}, Negotiating, NoCode),
      Row(4, {Discovering}, {Event("CANDIDATE_TIMEOUT"), Timer("DISCOVER")},
          {"no_candidate_either_family"}, {},
          Unparked, "NET_NO_USABLE_CANDIDATES"),
      Row(5, {Negotiating}, {Event("NEGOTIATION_OK")}, {}, {}, Connecting, NoCode),
      Row(6, {Negotiating}, {Event("VERSION_INCOMPATIBLE")}, {}, {},
          Failed, "PROTO_VERSION_UNSUPPORTED"),
      Row(7, {Negotiating}, {Event("NEGOTIATION_FAIL"), Timer("NEGOTIATE")},
          {"retry_budget_available"}, {},
          Unparked, "NET_SESSION_NEGOTIATION_FAILED"),
      Row(8, {Connecting}, {With("HANDSHAKE_OK", "LOCAL_DIRECT")},
          {"path_validated"}, {}, Steady("LOCAL_DIRECT"), NoCode),
      Row(9, {Connecting}, {With("HANDSHAKE_OK", "WAN_DIRECT")},
          {"path_validated", "no_l2_path_won"}, {}, Steady("WAN_DIRECT"), NoCode),
      Row(10, {Connecting}, {With("HANDSHAKE_OK", "RELAYED")},
          {"path_validated", "no_direct_path_won"}, {}, Steady("RELAYED"), NoCode),
      Row(11, {Connecting}, {Event("PEER_REVOKED")}, {}, {},
          Failed, "AUTH_DEVICE_REVOKED"),
      Row(11, {Connecting}, {Event("AUTH_REJECTED")}, {}, {},
          Failed, "AUTH_PEER_UNTRUSTED"),
      Row(12, {Connecting}, {Event("HANDSHAKE_FAIL"), Timer("CONNECT")},
          {"retry_budget_available"}, {}, Unparked, TransportCode) }

(* T19's guard asks after a relay target or any alternate, by what died. *)
AlternateGuard(c) ==
    IF c = "RELAYED" THEN "relay_failover_target_ready" ELSE "alternate_available"

MigrationEnd == {Event("MIGRATION_FAIL"), Timer("MIGRATE")}

Mobility ==
    { Row(13, {Steady("RELAYED")}, {With("PATH_UPGRADE_AVAILABLE", "WAN_DIRECT")},
          {"path_validated", "direct_upgrade_eligible"},
          {"upgrade_flap_suppressed"}, Migrating("RELAYED", "WAN_DIRECT"), NoCode),
      Row(17, AllMigrating, MigrationEnd, {}, {"old_path_alive"},
          Unparked, "NET_PATH_MIGRATION_FAILED"),
      Row(20, Carrying, Death, {}, {},
          Unparked, "NET_PATH_DEAD_NO_ALTERNATE") }
    \cup { Row(14, {Steady(f)}, {With("PATH_UPGRADE_AVAILABLE", "LOCAL_DIRECT")},
               {"path_validated", "same_l2_confirmed"}, {},
               Migrating(f, "LOCAL_DIRECT"), NoCode) :
           f \in {"RELAYED", "WAN_DIRECT"} }
    \cup { Row(15, {Migrating(f, t)}, {With("PATH_VALIDATED", t)},
               {"new_path_committed"}, {}, Steady(t), NoCode) :
           f \in PathClass, t \in PathClass }
    \cup { Row(16, {Migrating(f, t)}, MigrationEnd, {"old_path_alive"}, {},
               Steady(f), NoCode) : f \in PathClass, t \in PathClass }
    \cup { Row(18, {s}, {Event("PATH_SUSPECT")}, {}, {}, s, KeepCode) : s \in Carrying }
    \cup { Row(19, {Steady(c), Degraded(c)}, Death, {AlternateGuard(c)}, {},
               Migrating(c, "RELAYED"), NoCode) : c \in PathClass }
    \cup { Row(21, {Steady(c)}, {Event("ADDR_CHANGED")}, {"local_address_changed"}, {},
               Migrating(c, c), NoCode) : c \in PathClass }

Quality ==
    { Row(24, AllDegraded, {Timer("DEGRADED_MAX")}, {}, {},
          Unparked, "NET_QOS_DEGRADED_TIMEOUT") }
    \cup { Row(22, {Steady(c)}, {With("QOS_VIOLATION", m)},
               {"qos_violation_sustained"}, {}, Degraded(c), QosCode[m]) :
           c \in PathClass, m \in QosMetric }
    \cup { Row(23, {Degraded(c)}, {Event("QOS_RESTORED")},
               {"qos_restored_sustained"}, {}, Steady(c), NoCode) : c \in PathClass }

Recovery ==
    { Row(26, AllReconnecting, {Timer("RECONNECT_GRACE")}, {}, {"permissive_announced"},
          Blocked, "POLICY_KILLSWITCH_ENGAGED"),
      Row(27, AllReconnecting,
          {Timer("RECONNECT_MAX"), Event("RETRY_BUDGET_EXHAUSTED")},
          {"permissive_announced"}, {}, Failed, TerminalCode),
      Row(28, AllReconnecting, {Event("CRED_EXPIRED")}, {}, {}, Failed, AuthCode),
      Row(28, AllReconnecting, {Event("PEER_REVOKED")}, {}, {},
          Failed, "AUTH_DEVICE_REVOKED"),
      Row(28, AllReconnecting, {Event("VERSION_INCOMPATIBLE")}, {}, {},
          Failed, "PROTO_VERSION_UNSUPPORTED") }
    \cup { Row(25, AllReconnecting, {With("HANDSHAKE_OK", c)}, {"path_validated"}, {},
               Steady(c), NoCode) : c \in PathClass }

Enforcement ==
    { Row(29, SessionState, {With("POLICY_VIOLATION", k)}, {}, {},
          Blocked, PolicyCode[k]) : k \in PolicyViolationKind }
    \cup
    { Row(30, {Blocked}, {Event("SECURE_PATH_RESTORED")},
          {"secure_path_established", "enforcement_reconciled"}, {},
          Steady("RELAYED"), NoCode),
      Row(31, {Blocked}, {Timer("BACKOFF")}, {"retry_budget_available"}, {},
          Blocked, KeepCode),
      Row(32, {Blocked}, {Event("DISCONNECT_REQUESTED")}, {"authenticated_disarm"}, {},
          Disconnected, NoCode),
      Row(33, {Failed}, {Event("CONNECT_REQUESTED"), Event("LINK_UP"),
                         Event("SECURE_PATH_RESTORED")},
          {"retry_precondition_met"}, {}, Discovering, NoCode) }

Lifecycle ==
    { Row(34, SessionState, {Event("SUSPEND")}, {}, {}, Parked, "PLATFORM_SUSPENDED"),
      Row(34, SessionState \ {Parked}, {Event("BACKGROUND")}, {}, {"inbound_required"},
          Parked, "PLATFORM_SUSPENDED"),
      Row(35, {Parked}, {Event("RESUME")}, {"path_plausibly_survived"},
          {"rekey_window_exceeded"}, Migrating("RELAYED", "RELAYED"), NoCode),
      Row(35, {Parked}, {Event("RESUME")}, {"rekey_window_exceeded"}, {},
          Discovering, NoCode),
      Row(35, {Parked}, {Event("RESUME")}, {}, {"path_plausibly_survived"},
          Discovering, NoCode),
      Row(36, {Parked}, {Event("BACKGROUND"), Event("FOREGROUND")}, {}, {},
          Parked, KeepCode),
      Row(37, {Steady("RELAYED"), Degraded("RELAYED")}, {Event("RELAY_DRAINING")}, {}, {},
          Migrating("RELAYED", "RELAYED"), NoCode),
      Row(38, SessionState \ {Blocked}, {Event("DISCONNECT_REQUESTED")}, {}, {},
          Disconnected, NoCode) }
    \cup { Row(36, {s}, {Event("BACKGROUND"), Event("FOREGROUND")},
               {"inbound_required"}, {}, s, KeepCode) : s \in SessionState }

Table == Establishment \cup Mobility \cup Quality \cup Recovery \cup Enforcement
             \cup Lifecycle

(* The phase of SessionLifecycle a state belongs to. *)
PhaseOf(state) ==
    CASE state.name = "DISCONNECTED" -> "RESTING"
      [] state.name \in {"DISCOVERING", "NEGOTIATING", "CONNECTING"} -> "ESTABLISHING"
      [] state.name \in {"STEADY", "DEGRADED", "MIGRATING"} -> "CARRYING"
      [] state.name = "RECONNECTING" -> "RECOVERING"
      [] state.name = "BLOCKED" -> "HOLDING"
      [] OTHER -> "TERMINAL"

(***************************************************************************)
(* Resolution: the first row in table order that applies, if any.          *)
(***************************************************************************)
RowsOn == [t \in Trigger |-> {r \in Table : t \in r.on}]
RowsFor == [s \in SessionState |-> [t \in Trigger |-> {r \in RowsOn[t] : s \in r.from}]]

Applicable(state, trigger, guards) ==
    {r \in RowsFor[state][trigger] : r.need \subseteq guards /\ r.deny \cap guards = {}}

FirstOf(rows) == {r \in rows : \A q \in rows : r.row <= q.row}

Resolve(state, trigger, guards) == FirstOf(Applicable(state, trigger, guards))

(* The guards some row reads under a trigger: its own, T27's choice of code, *)
(* and the one the timer profile turns on.                                  *)
GuardsRead ==
    [t \in Trigger |->
        UNION {r.need \cup r.deny : r \in RowsOn[t]}
            \cup {g \in {"relay_fleet_exhausted"} :
                     \E r \in RowsOn[t] : r.code = TerminalCode}
            \cup {g \in {"inbound_required"} : t = Event("SUSPEND")}]
=============================================================================
