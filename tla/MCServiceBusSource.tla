------------------------- MODULE MCServiceBusSource -------------------------
(* defaultMessageProcessor makes one event of every message. *)
EXTENDS ServiceBusSource

OneEvent == [m \in Messages |-> 1]
=============================================================================
