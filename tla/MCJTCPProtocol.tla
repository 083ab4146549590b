--------------------------- MODULE MCJTCPProtocol ---------------------------
(* Small instances of JTCPProtocol for TLC.                                *)
EXTENDS JTCPProtocol

CONSTANTS m1, m2, f1, f2, f3

MCOneMessage  == {m1}
MCTwoMessages == {m1, m2}
MCFiles       == {f1, f2, f3}
MCNoFiles     == {}
\* A packet with nothing behind its header; the last chunk of f1 is shorter than
\* the others, that of f2 is not, and f3 has none.
MCMessageSize == [x \in {m1} |-> 0]
MCFileSize    == [f \in {f1, f2, f3} |-> CASE f = f1 -> 3 [] f = f2 -> 2 [] f = f3 -> 0]
MCChunkHeader == [f \in {f1, f2, f3} |-> IF f = f1 THEN 0 ELSE 1]
MCNoFileSize  == [f \in {} |-> 0]
\* m1 is larger than a uint16_t can say, and still below MAX_PACKET_SIZE.
MCLargeSize   == [x \in {m1, m2} |-> IF x = m1 THEN 5 ELSE 3]
MCPriority    == {0}
=============================================================================
