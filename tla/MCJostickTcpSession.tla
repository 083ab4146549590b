-------------------------- MODULE MCJostickTcpSession --------------------------
(* An instance of JostickTcpSession for TLC.                               *)
EXTENDS JostickTcpSession
===============================================================================
