-------------------------- MODULE MCJostickTcpServer --------------------------
(* Small instances of JostickTcpServer for TLC.                            *)
EXTENDS JostickTcpServer, TLC

CONSTANTS ip1, ip2, w1, a1

MCClients   == {ip1, ip2}
MCOneClient == {ip1}
MCOneWorker == {w1}
MCNoApps    == {}
MCApps      == {a1}

\* Addresses are interchangeable.
MCSymmetry == Permutations(MCClients)
===============================================================================
