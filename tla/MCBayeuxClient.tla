--------------------------- MODULE MCBayeuxClient ---------------------------
(* The configured replay ID asks for every event, for the new ones only, or  *)
(* for the events after a given one.                                         *)
EXTENDS BayeuxClient

AllReplays == {Tip, 0, 1}
=============================================================================
