----------------------------- MODULE AtLeastOnce -----------------------------
(***************************************************************************)
(* What a queue-backed event source promises: a message is removed from    *)
(* the upstream queue only after the sink acknowledged every event made    *)
(* from it.  Events may be delivered again, and a message may stay forever. *)
(***************************************************************************)
CONSTANTS
    Messages,       \* the messages of the upstream queue
    EventsOf(_)     \* the events a message is converted to

VARIABLES
    acked,          \* the events of each message the sink acknowledged
    settled         \* the messages removed from the upstream queue

TypeOK == /\ acked \in [Messages -> SUBSET UNION {EventsOf(m) : m \in Messages}]
          /\ settled \in SUBSET Messages

Init == /\ acked = [m \in Messages |-> {}]
        /\ settled = {}

\* The sink acknowledges an event, for the first time or again.
Deliver(m, e) ==
    /\ e \in EventsOf(m)
    /\ acked' = [acked EXCEPT ![m] = @ \cup {e}]
    /\ UNCHANGED settled

\* Messages are removed, in a batch or one by one.
Settle(S) ==
    /\ \A m \in S : acked[m] = EventsOf(m)
    /\ settled' = settled \cup S
    /\ UNCHANGED acked

Next == \/ \E m \in Messages : \E e \in EventsOf(m) : Deliver(m, e)
        \/ \E S \in SUBSET Messages : Settle(S)

Spec == Init /\ [][Next]_<<acked, settled>>
=============================================================================
