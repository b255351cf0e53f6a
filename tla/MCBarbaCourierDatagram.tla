------------------------ MODULE MCBarbaCourierDatagram ------------------------
(* Instances of BarbaCourierDatagram for TLC. *)
EXTENDS BarbaCourierDatagram

CONSTANTS up, reply, down1, down2   \* packets

\* up goes to the server in one chunk, the others to the client.
MCSender == [p \in Packet |-> IF p = up THEN Client ELSE Server]
MCChunksCount == [p \in Packet |-> CASE p = down1 -> 2 [] p = down2 -> 3 [] OTHER -> 1]
=============================================================================
