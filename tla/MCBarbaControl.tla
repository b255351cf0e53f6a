---------------------------- MODULE MCBarbaControl ----------------------------
(* Two small deployments of BarbaControl for TLC: BarbaMonitor alone, with *)
(* commands to send, or with the Windows service, which sends the command. *)
EXTENDS BarbaControl

MCBudgets == {[window |-> 2, service |-> 0], [window |-> 0, service |-> 1]}
=============================================================================
