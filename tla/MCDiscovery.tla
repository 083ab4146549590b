----------------------------- MODULE MCDiscovery -----------------------------
(* A small instance of Discovery for TLC.                                  *)
EXTENDS Discovery

CONSTANTS c1, g1

MCClients == {c1}
MCGuests  == {g1}
==============================================================================
