---------------------------- MODULE MCEventBuffer ----------------------------
(* A small instance of EventBuffer for TLC.                                *)
EXTENDS EventBuffer

CONSTANTS e1, e2, p1, p2

MCEvents    == {e1, e2}
MCProducers == {p1, p2}
==============================================================================
