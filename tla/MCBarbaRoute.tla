------------------------------ MODULE MCBarbaRoute ------------------------------
(* Instances of BarbaRoute for TLC: two clients with the same address, one   *)
(* behind a NAT, and a configuration for every mode.                         *)
EXTENDS BarbaRoute

CONSTANTS c1, c2

MCLocalIp == [c \in Client |-> 40]
MCNatIndex == [c \in Client |-> IF c = c1 THEN 0 ELSE 1]
Data(proto, sport, dport, large) ==
  [proto |-> proto, sport |-> sport, dport |-> dport, large |-> large]
MCFlowData == [f \in Flow |->
  CASE f = "web" -> Data("TCP", 5, 80, FALSE)
    [] f = "dns" -> Data("UDP", 6, 53, FALSE)
    [] f = "big" -> Data("UDP", 7, 53, TRUE)
    [] f = "gre" -> Data("GRE", 0, 0, FALSE)
    [] f = "stray" -> Data("UDP", 8, 90, FALSE)]

Grab(protocol, port) == [Protocol |-> protocol, Port |-> port]
Ports(first, last) == [StartPort |-> first, EndPort |-> last]
Config(mode, grab, real, serverIp) ==
  [Mode |-> mode, GrabProtocols |-> grab, RealPort |-> real, ServerIp |-> serverIp,
   TunnelPorts |-> <<Ports(90, IF mode \in {"UDP-Tunnel", "HTTP-Tunnel"} THEN 90 ELSE 91)>>]
MCConfigs ==
  {Config("TCP-Redirect", {}, 80, 0), Config("UDP-Redirect", {}, 53, 20),
   Config("UDP-Simple-Tunnel", {Grab("UDP", 53)}, 0, 0),
   Config("UDP-Simple-Tunnel", {Grab("TCP", 80), Grab("GRE", 0)}, 53, 20),
   Config("UDP-Tunnel", {Grab("any", 0)}, 0, 0),
   Config("HTTP-Tunnel", {Grab("TCP", 80), Grab("UDP", 0)}, 0, 20)}
\* Two requests of any kind with two restarts; or three, of which the last can
\* get the address of one before it that still waits for its answer.
Workload(flows, requests, restartsOfAll) ==
  [flows |-> flows, requests |-> requests, restarts |-> restartsOfAll]
MCWorkloads == {Workload(Flow, 2, 2), Workload({"web", "dns"}, 3, 0)}
MCRangeWorkloads == {Workload(Flow, 3, 0)}
MCRanges == {[StartIp |-> 8, EndIp |-> 14]}

\* A range of two addresses.
MCShortRanges == {[StartIp |-> 8, EndIp |-> 9]}
MCRedirect == {Config("UDP-Redirect", {}, 53, 20)}
=============================================================================
