------------------------- MODULE MCBarbaCourierStream -------------------------
(* Instances of BarbaCourierStream for TLC. *)
EXTENDS BarbaCourierStream

CONSTANTS w1, w2

\* Bytes per message: of two messages the second never fits behind the first
\* in a transfer of 4, so it is excluded and brought back.
MCSize == [m \in Message |-> IF m % 2 = 1 THEN 2 ELSE 3]
=============================================================================
