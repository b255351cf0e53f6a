---------------------------- MODULE MCBarbaServerApp ----------------------------
(* Instances of BarbaServerApp for TLC. *)
EXTENDS BarbaServerApp

CONSTANTS r3, s1, s2

\* The sockets r1 and r2 are of one session, r3 is of another.
MCSessionOf == [r \in Request |-> IF r = r3 THEN s2 ELSE s1]
=============================================================================
