----------------------------- MODULE Rendezvous -----------------------------
(* The rendezvous service (services/rendezvous/src/server.rs, attach.rs,    *)
(* ingress.rs) and the table of channel bindings it takes from the services'*)
(* common crate: connections that ATTACH for their device, CALLs that go to *)
(* the attached connection or wait in the mailbox, and the teardown.        *)
(* Router (attachments and mailboxes) and bindings are behind two locks; a  *)
(* step holds one of them, the sweeper both.  Each connection proves its    *)
(* own device's key, so no claim is ever contested.                         *)
EXTENDS Mailbox

CONSTANTS
    Conn,               \* connection tasks
    None,               \* no attachment, no device
    MaxBindings, MaxAttachments,
    AttachTtl, BindingTtl,
    Sizes,              \* payload sizes
    MaxCalls, MaxEpoch, MaxHolders, \* bounds on the run
    MaxLag              \* how long a frame waits for its locks, at most

ASSUME RendezvousConstants ==
    /\ None \notin Device
    /\ None \notin [conn : Conn, epoch : Nat, left : Int]
    /\ {MaxBindings, MaxAttachments, AttachTtl, BindingTtl} \subseteq Nat \ {0}
    /\ Sizes \subseteq Nat \ {0}
    /\ {MaxCalls, MaxEpoch, MaxHolders, MaxLag} \subseteq Nat

VARIABLES
    store,      \* router.mailboxes
    live,       \* router.attachments.live: device -> [conn, epoch, left]
    epochs,     \* router.attachments: the epochs given out
    bindings,   \* bindings.by_subject: device -> [holders, left]
    arrived,    \* bindings.order: the bound devices, oldest first
    conn,       \* the connection tasks
    carried,    \* CALLs routed to a connection and not yet sent to it
    called,     \* CALLs routed so far
    handed      \* CALLs handed to a connection's writer, or lost on the way to it

vars == <<store, live, epochs, bindings, arrived, conn, carried, called, handed>>

Lag == 0 .. MaxLag
NoBinding == [holders |-> 0, left |-> 0]
Bound == {arrived[i] : i \in DOMAIN arrived}
Attached == {d \in Device : live[d] # None}
Closed == [phase |-> "closed", device |-> None, bound |-> 0, lag |-> 0, queued |-> <<>>]

Init ==
    /\ store = EmptyStore
    /\ live = [d \in Device |-> None]
    /\ epochs = 0
    /\ bindings = [d \in Device |-> NoBinding]
    /\ arrived = <<>>
    /\ conn = [c \in Conn |-> Closed]
    /\ carried = {} /\ called = 0 /\ handed = {}
----------------------------------------------------------------------------
(* The registry of attachments and the table of bindings.                   *)

SweepLive(lag) == [d \in Device |->
    IF live[d] # None /\ live[d].left + lag <= 0 THEN None ELSE live[d]]

\* A binding no connection holds goes at its TTL.
Forgotten(lag) == {d \in Bound : bindings[d].holders = 0 /\ bindings[d].left + lag <= 0}

Dropping(gone) ==
    /\ arrived' = SelectSeq(arrived, LAMBDA d : d \notin gone)
    /\ bindings' = [d \in Device |-> IF d \in gone THEN NoBinding ELSE bindings[d]]

\* evict_oldest_unheld, once the sweep has taken what lapsed.
Unheld(lag) == {i \in DOMAIN arrived : bindings[arrived[i]].holders = 0
                                        /\ arrived[i] \notin Forgotten(lag)}
Evicted(lag) == IF Unheld(lag) = {} THEN {} ELSE {arrived[Min(Unheld(lag))]}

Remaining(lag) == Bound \ Forgotten(lag)
Full(lag) == Cardinality(Remaining(lag)) >= MaxBindings

\* A held binding has no age: its TTL starts over when the last hold is
\* released, and nothing reads it before.
Held(holders) == [holders |-> holders, left |-> 0]

\* release: one hold fewer; with the last one the TTL starts over.
Unhold(d, lag) ==
    bindings' = [bindings EXCEPT ![d] =
        CASE d \notin Bound -> @
          [] @.holders > 1  -> [@ EXCEPT !.holders = @ - 1]
          [] OTHER          -> [holders |-> 0, left |-> BindingTtl - lag]]
----------------------------------------------------------------------------
(* A connection: accepted, attaching, closing.                              *)

Goes(c, phase) == conn' = [conn EXCEPT ![c].phase = phase]

\* A connection stops reading; only what it bound has to be undone.
Leaves(c) == conn' = [conn EXCEPT ![c] =
    IF @.bound = 0 THEN Closed ELSE [@ EXCEPT !.phase = "detaching", !.queued = <<>>]]

Connect(c) ==
    /\ conn[c].phase = "closed"
    /\ ~ \E k \in carried : k.to = c
    /\ \E d \in Device :
          conn' = [conn EXCEPT ![c] = [Closed EXCEPT !.phase = "idle", !.device = d]]
    /\ UNCHANGED <<store, live, epochs, bindings, arrived, carried, called, handed>>

\* An ATTACH frame, stamped before any lock.
Attach(c) ==
    /\ conn[c].phase = "idle"
    /\ Goes(c, IF conn[c].bound = 0 THEN "claiming" ELSE "reattaching")
    /\ UNCHANGED <<store, live, epochs, bindings, arrived, carried, called, handed>>

\* A connection that holds the subject gives its hold back first.
ReleaseOwn(c) ==
    /\ conn[c].phase = "reattaching"
    /\ Unhold(conn[c].device, conn[c].lag)
    /\ Goes(c, "claiming")
    /\ UNCHANGED <<store, live, epochs, arrived, carried, called, handed>>

ClaimAgain(c) ==
    LET d == conn[c].device  lag == conn[c].lag  gone == Forgotten(lag) IN
    /\ conn[c].phase = "claiming"
    /\ d \in Remaining(lag)
    /\ bindings[d].holders < MaxHolders
    /\ arrived' = SelectSeq(arrived, LAMBDA e : e \notin gone)
    /\ bindings' = [e \in Device |->
          CASE e = d      -> Held(bindings[d].holders + 1)
            [] e \in gone -> NoBinding
            [] OTHER      -> bindings[e]]
    /\ Goes(c, "attaching")
    /\ UNCHANGED <<store, live, epochs, carried, called, handed>>

ClaimFirst(c) ==
    LET d == conn[c].device
        lag == conn[c].lag
        gone == Forgotten(lag) \cup (IF Full(lag) THEN Evicted(lag) ELSE {})
    IN
    /\ conn[c].phase = "claiming"
    /\ d \notin Remaining(lag)
    /\ Full(lag) => Evicted(lag) # {}
    /\ arrived' = Append(SelectSeq(arrived, LAMBDA e : e \notin gone), d)
    /\ bindings' = [e \in Device |->
          CASE e = d      -> Held(1)
            [] e \in gone -> NoBinding
            [] OTHER      -> bindings[e]]
    /\ Goes(c, "attaching")
    /\ UNCHANGED <<store, live, epochs, carried, called, handed>>

\* Every binding is held: TableAtCapacity, and the connection closes.
ClaimRefused(c) ==
    LET lag == conn[c].lag IN
    /\ conn[c].phase = "claiming"
    /\ conn[c].device \notin Remaining(lag)
    /\ Full(lag) /\ Evicted(lag) = {}
    /\ Dropping(Forgotten(lag))
    /\ Leaves(c)
    /\ UNCHANGED <<store, live, epochs, carried, called, handed>>

\* The newest attachment wins, and what waited for the device is taken under
\* the same lock, to be sent once it is let go.
AttachBound(c) ==
    LET d == conn[c].device
        lag == conn[c].lag
        swept == SweepLive(lag)
        queued == Taken(store, d, lag)
    IN
    /\ conn[c].phase = "attaching"
    /\ epochs < MaxEpoch
    /\ swept[d] # None \/ Cardinality({e \in Device : swept[e] # None}) < MaxAttachments
    /\ epochs' = epochs + 1
    /\ live' = [swept EXCEPT ![d] = [conn |-> c, epoch |-> epochs + 1, left |-> AttachTtl - lag]]
    /\ store' = AfterTake(store, d, lag)
    /\ conn' = [conn EXCEPT ![c] = [@ EXCEPT !.phase = IF queued = <<>> THEN "idle" ELSE "draining",
                                             !.bound = epochs + 1, !.lag = 0, !.queued = queued]]
    /\ UNCHANGED <<bindings, arrived, carried, called, handed>>

\* No room for one more device: answered, and closed.  bound is untouched.
AttachRefused(c) ==
    LET swept == SweepLive(conn[c].lag) IN
    /\ conn[c].phase = "attaching"
    /\ swept[conn[c].device] = None
    /\ Cardinality({e \in Device : swept[e] # None}) >= MaxAttachments
    /\ live' = swept
    /\ Leaves(c)
    /\ UNCHANGED <<store, epochs, bindings, arrived, carried, called, handed>>

DrainOne(c) ==
    /\ conn[c].phase = "draining"
    /\ handed' = handed \cup {Head(conn[c].queued).call}
    /\ conn' = [conn EXCEPT ![c].queued = Tail(@),
                            ![c].phase = IF Len(conn[c].queued) = 1 THEN "idle" ELSE @]
    /\ UNCHANGED <<store, live, epochs, bindings, arrived, carried, called>>

\* The writer is gone: the rest of the drained CALLs is lost.
DrainFails(c) ==
    /\ conn[c].phase = "draining"
    /\ handed' = handed \cup {conn[c].queued[i].call : i \in DOMAIN conn[c].queued}
    /\ Leaves(c)
    /\ UNCHANGED <<store, live, epochs, bindings, arrived, carried, called>>

Close(c) ==
    /\ conn[c].phase = "idle"
    /\ Leaves(c)
    /\ UNCHANGED <<store, live, epochs, bindings, arrived, carried, called, handed>>

\* Mutant of Detach: the epoch is not compared.
DetachAny(c) ==
    /\ conn[c].phase = "detaching"
    /\ live' = [live EXCEPT ![conn[c].device] = None]
    /\ Goes(c, "releasing")
    /\ UNCHANGED <<store, epochs, bindings, arrived, carried, called, handed>>

\* Only the attachment of this very connection and epoch.
Detach(c) ==
    LET d == conn[c].device IN
    /\ conn[c].phase = "detaching"
    /\ live' = IF live[d] # None /\ live[d].epoch = conn[c].bound
               THEN [live EXCEPT ![d] = None] ELSE live
    /\ Goes(c, "releasing")
    /\ UNCHANGED <<store, epochs, bindings, arrived, carried, called, handed>>

Release(c) ==
    /\ conn[c].phase = "releasing"
    /\ Unhold(conn[c].device, 0)
    /\ conn' = [conn EXCEPT ![c] = Closed]
    /\ UNCHANGED <<store, live, epochs, arrived, carried, called, handed>>
----------------------------------------------------------------------------
(* CALLs, which any connection may send.                                    *)

CallLive(d, lag) ==
    LET swept == SweepLive(lag) IN
    /\ called < MaxCalls
    /\ swept[d] # None
    /\ live' = swept
    /\ called' = called + 1
    /\ carried' = carried \cup {[call |-> called + 1, to |-> swept[d].conn]}
    /\ UNCHANGED <<store, epochs, bindings, arrived, conn, handed>>

CallMailboxed(d, size, lag) ==
    LET swept == SweepLive(lag) IN
    /\ called < MaxCalls
    /\ swept[d] = None
    /\ live' = swept
    /\ called' = called + 1
    /\ store' = Push(store, d, called + 1, size, lag)
    /\ UNCHANGED <<epochs, bindings, arrived, conn, carried, handed>>

\* try_send, after the lock, to a connection that may be gone or full.
SendLive(k) ==
    /\ k \in carried
    /\ carried' = carried \ {k}
    /\ handed' = handed \cup {k.call}
    /\ UNCHANGED <<store, live, epochs, bindings, arrived, conn, called>>

Sweeper(lag) ==
    /\ live' = SweepLive(lag)
    /\ store' = SweepStore(store, lag)
    /\ Dropping(Forgotten(lag))
    /\ UNCHANGED <<epochs, conn, carried, called, handed>>

\* A clock tick.  No frame waits longer than MaxLag for its locks.
Waiting(c) == conn[c].phase \in {"reattaching", "claiming", "attaching"}
Sooner(left) == IF left > -MaxLag THEN left - 1 ELSE left
Tick ==
    /\ \A c \in Conn : Waiting(c) => conn[c].lag < MaxLag
    /\ conn' = [c \in Conn |->
          [conn[c] EXCEPT !.lag = IF Waiting(c) THEN @ + 1 ELSE 0]]
    /\ live' = [d \in Device |->
          IF live[d] = None THEN None ELSE [live[d] EXCEPT !.left = Sooner(@)]]
    /\ bindings' = [d \in Device |->
          IF d \in Bound /\ bindings[d].holders = 0
          THEN [bindings[d] EXCEPT !.left = Sooner(@)] ELSE bindings[d]]
    /\ store' = AgeStore(store, -2 * MaxLag)
    /\ UNCHANGED <<epochs, arrived, carried, called, handed>>

Next ==
    \/ \E c \in Conn :
          \/ Connect(c) \/ Attach(c) \/ ReleaseOwn(c)
          \/ ClaimAgain(c) \/ ClaimFirst(c) \/ ClaimRefused(c)
          \/ AttachBound(c) \/ AttachRefused(c)
          \/ DrainOne(c) \/ DrainFails(c)
          \/ Close(c) \/ Detach(c) \/ Release(c)
    \/ \E d \in Device, lag \in Lag :
          \/ CallLive(d, lag)
          \/ \E size \in Sizes : CallMailboxed(d, size, lag)
    \/ \E k \in carried : SendLive(k)
    \/ \E lag \in Lag : Sweeper(lag)
    \/ Tick

Spec == Init /\ [][Next]_vars
----------------------------------------------------------------------------
(* Type invariant: every table, connection task and CALL in its range, the  *)
(* bindings and the attachments within their ceilings                       *)
(* (BindingLimits::max_bindings, AttachLimits::max_attachments).            *)
TypeOK ==
    /\ StoreOK(store)
    /\ live \in [Device -> {None} \cup [conn : Conn, epoch : 1 .. MaxEpoch, left : Int]]
    /\ epochs \in 0 .. MaxEpoch
    /\ bindings \in [Device -> [holders : 0 .. MaxHolders, left : Int]]
    /\ arrived \in Seq(Device) /\ Cardinality(Bound) = Len(arrived)
    /\ Cardinality(Bound) <= MaxBindings /\ Cardinality(Attached) <= MaxAttachments
    /\ conn \in [Conn -> [phase : {"closed", "idle", "reattaching", "claiming", "attaching",
                                   "draining", "detaching", "releasing"},
                          device : Device \cup {None}, bound : 0 .. MaxEpoch, lag : Lag, queued : Seq(Entry)]]
    /\ carried \subseteq [call : 1 .. MaxCalls, to : Conn]
    /\ called \in 0 .. MaxCalls /\ handed \subseteq 1 .. MaxCalls

(* The three structures of the mailbox tell of the same CALLs, the oldest   *)
(* entry of all is its target's front (evict_globally_oldest's assertion),  *)
(* and the depth and byte ceilings hold, whatever was evicted, swept or     *)
(* taken in between.                                                        *)
MailboxAgrees == Agrees(store)

(* N-9, "delivered at most once": a CALL is in one place only, the mailbox, *)
(* the drain of one connection, on its way to one, or with a writer; taking *)
(* and draining happen under different locks than sending.                  *)
OnePlace ==
    LET waiting(d)  == {e.call : e \in EntriesOf(store, d)}
        mailboxed   == UNION {waiting(d) : d \in Device}
        draining(c) == {conn[c].queued[i].call : i \in DOMAIN conn[c].queued}
        underway    == {k.call : k \in carried}
    IN  /\ \A d, e \in Device : d # e => waiting(d) \cap waiting(e) = {}
        /\ \A b, c \in Conn : b # c => draining(b) \cap draining(c) = {}
        /\ \A c \in Conn :
              /\ Cardinality(draining(c)) = Len(conn[c].queued)
              /\ draining(c) \cap (mailboxed \cup underway \cup handed) = {}
        /\ mailboxed \cap (underway \cup handed) = {}
        /\ underway \cap handed = {}

(* A CALL leaves the mailbox for a connection no later after its TTL than   *)
(* two waits for a lock: one by which a younger entry's stamp may be older  *)
(* than its own and shield it from the sweep, one of the taker's stamp.     *)
NeverLate ==
    \A c \in Conn : \A i \in DOMAIN conn[c].queued : conn[c].queued[i].left > -2 * MaxLag

(* No CALL waits in the mailbox of a device that is attached, the           *)
(* attachment and its mailbox changing under one lock: a CALL routed while  *)
(* the device attaches goes either to the new connection or into its drain. *)
NothingStranded == \A d \in Attached : store.boxes[d] = <<>>

(* An attachment ends by its TTL, by a newer attachment of its device, or   *)
(* by its own connection's teardown, never by the late close of one it      *)
(* superseded (detach is guarded by the epoch).                             *)
AttachmentStands ==
    [][\A d \in Attached : live'[d] = live[d] \/
          \/ live'[d] = None /\ live[d].left <= 0
          \/ live'[d] # None /\ live'[d].conn = live[d].conn /\ live'[d].epoch = live[d].epoch
          \/ live'[d] # None /\ live'[d].epoch > live[d].epoch
          \/ conn[live[d].conn].phase = "detaching"]_vars
=============================================================================
