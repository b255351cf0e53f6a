------------------------------- MODULE BarbaPackets -------------------------------
(***************************************************************************)
(* Packets, addresses, port ranges and capture filters: the operators from *)
(* which the packet path is built.  An address is a number of two bytes in *)
(* host order; the code keeps it in network order, and some of its         *)
(* comparisons and sums forget that.                                       *)
(***************************************************************************)
EXTENDS Integers, Sequences, SequencesExt

CONSTANT Byte   \* the number of values of a byte

ASSUME ByteAssumption == Byte \in Nat \ {0}

-----------------------------------------------------------------------------
(* Addresses *)

\* ntohl, htonl
Swap(ip) == (ip % Byte) * Byte + ip \div Byte

\* A DWORD taken for an int.
Signed(n) ==
  LET d == n % (Byte * Byte) IN IF 2 * d < Byte * Byte THEN d ELSE d - Byte * Byte

\* BarbaServerVirtualIpManager: the indices of the addresses it may hand out.
\* The start is subtracted in network order.
Indices(range, max) ==
  {i \in 0 .. max - 1 : i < Signed(range.EndIp - Swap(range.StartIp) + 1)}

\* Mutant of NewIndex: an address in use is not passed over.
NewIndexShared(used, range, max) ==
  LET all == Indices(range, max) IN
  IF all = {} THEN {} ELSE {CHOOSE i \in all : \A j \in all : i <= j}

\* GetNewIp.  0 is no address.
NewIndex(used, range, max) ==
  LET free == Indices(range, max) \ used IN
  IF free = {} THEN {} ELSE {CHOOSE i \in free : \A j \in free : i <= j}
GetNewIp(used, range, max) ==
  LET index == NewIndex(used, range, max) IN
  IF index = {} THEN 0 ELSE range.StartIp + (CHOOSE i \in index : TRUE)
\* ReleaseIp: the first address is never released.
ReleaseIp(used, ip, range) == used \ ({ip - range.StartIp} \ {0})

-----------------------------------------------------------------------------
(* Modes and ports *)

Redirect == {"TCP-Redirect", "UDP-Redirect"}
Sockets == {"TCP-Tunnel", "HTTP-Tunnel"}
Mode == Redirect \cup Sockets \cup {"UDP-Tunnel", "UDP-Simple-Tunnel"}

\* BarbaMode_GetProtocol
GetTunnelProtocol(mode) ==
  IF mode \in Sockets \cup {"TCP-Redirect"} THEN "TCP" ELSE "UDP"

\* BarbaPortRange
InItem(port, item) == item.StartPort <= port /\ port <= item.EndPort
IsPortInRange(items, port) == \E i \in DOMAIN items : InItem(port, items[i])
AllPorts(items) == UNION {items[i].StartPort .. items[i].EndPort : i \in DOMAIN items}

\* BarbaClientConfig::LoadFile: a redirect grabs its real port only.
GrabProtocols(config) ==
  IF config.Mode \in Redirect
  THEN {[Protocol |-> GetTunnelProtocol(config.Mode), Port |-> config.RealPort]}
  ELSE config.GrabProtocols

-----------------------------------------------------------------------------
(* Packets.  "enc" counts encryptions less decryptions, "sums" holds the   *)
(* checksums that are right.                                               *)

HasPorts(protocol) == protocol \in {"TCP", "UDP"}
AllSums == {"ip", "transport"}

SetSrcIp(p, ip) == [p EXCEPT !.src = ip, !.sums = IF ip = p.src THEN @ ELSE {}]
SetDesIp(p, ip) == [p EXCEPT !.dst = ip, !.sums = IF ip = p.dst THEN @ ELSE {}]
SetSrcPort(p, port) ==
  [p EXCEPT !.sport = port, !.sums = IF port = p.sport THEN @ ELSE @ \ {"transport"}]
SetDesPort(p, port) ==
  [p EXCEPT !.dport = port, !.sums = IF port = p.dport THEN @ ELSE @ \ {"transport"}]
RecalculateChecksum(p) == [p EXCEPT !.sums = AllSums]

\* IsValidIPChecksum looks at the IP header only.
IsValidChecksum(p) == "ip" \in p.sums

\* CryptPacket
EncryptPacket(p) ==
  IF HasPorts(p.proto) THEN RecalculateChecksum([p EXCEPT !.enc = @ + 1]) ELSE p
DecryptPacket(p) ==
  IF HasPorts(p.proto) THEN RecalculateChecksum([p EXCEPT !.enc = @ - 1]) ELSE p

\* A packet that carries another one.  The UDP couriers encrypt what they put
\* in; here every tunnel packet counts as encrypted.
Wrap(p, session, protocol, src, dst, sport, dport) ==
  [src |-> src, dst |-> dst, proto |-> protocol, sport |-> sport, dport |-> dport,
   enc |-> 1, large |-> p.large, sums |-> AllSums,
   body |-> [kind |-> "packet", session |-> session, packet |-> p]]

\* What decryption and SetIpPacket give, when it is a packet.
Carries(p) == p.body.kind = "packet" /\ p.enc = 1
Carried(p) == p.body.packet

-----------------------------------------------------------------------------
(* Capture filters *)

\* max of two addresses in network order.
MaxIp(a, b) == IF Swap(a) < Swap(b) THEN b ELSE a
MaxPort(a, b) == IF a < b THEN b ELSE a

\* GetFilter.  A start of 0 and a protocol of "any" leave a field out, and so
\* does a port without a protocol that has ports.  When the driver refuses a
\* long filter, protocol and ports are left out wherever there is an address.
GetFilter(ipOnly, send, srcIps, desIps, protocol, srcPorts, desPorts) ==
  LET short == ipOnly /\ (srcIps[1] # 0 \/ desIps[1] # 0)
      Ports(r) == IF HasPorts(protocol) /\ ~short THEN <<r[1], MaxPort(r[1], r[2])>>
                  ELSE <<0, 0>>
  IN [send |-> send,
      srcIps |-> <<srcIps[1], MaxIp(srcIps[1], srcIps[2])>>,
      desIps |-> <<desIps[1], MaxIp(desIps[1], desIps[2])>>,
      protocol |-> IF short THEN "any" ELSE protocol,
      srcPorts |-> Ports(srcPorts), desPorts |-> Ports(desPorts)]

Within(x, range) == range[1] = 0 \/ (range[1] <= x /\ x <= range[2])

\* The driver's test.
Matches(f, p, send) ==
  /\ f.send = send
  /\ Within(p.src, f.srcIps) /\ Within(p.dst, f.desIps)
  /\ f.protocol \in {"any", p.proto}
  /\ Within(p.sport, f.srcPorts) /\ Within(p.dport, f.desPorts)

None == <<0, 0>>
Items(items) == {<<items[i].StartPort, items[i].EndPort>> : i \in DOMAIN items}

\* Mutant of AddClientFilters: a real port takes the place of the protocols.
AddClientFiltersRealPortOnly(config, server, ipOnly) ==
  LET tunnel == GetTunnelProtocol(config.Mode) to == <<server, 0>> IN
  IF config.RealPort # 0
  THEN {GetFilter(ipOnly, TRUE, None, to, tunnel, None, <<config.RealPort, 0>>)}
  ELSE {GetFilter(ipOnly, TRUE, None, to, g.Protocol, None, <<g.Port, 0>>) :
          g \in GrabProtocols(config)}

\* AddClientFilters, for an enabled configuration with a server address.
AddClientFilters(config, server, ipOnly) ==
  LET tunnel == GetTunnelProtocol(config.Mode)
      to == <<server, 0>>
  IN {GetFilter(ipOnly, TRUE, None, to, g.Protocol, None, <<g.Port, 0>>) :
        g \in GrabProtocols(config)}
     \cup (IF config.RealPort = 0 THEN {}
           ELSE {GetFilter(ipOnly, TRUE, None, to, tunnel, None, <<config.RealPort, 0>>)})
     \cup (IF config.Mode \in Sockets THEN {}
           ELSE {GetFilter(ipOnly, FALSE, to, None, tunnel, ports, None) :
                   ports \in Items(config.TunnelPorts)})

\* AddServerFilters, without debug mode.
AddServerFilters(config, server, range, ipOnly) ==
  (IF config.Mode \in Sockets THEN {}
   ELSE {GetFilter(ipOnly, FALSE, None, <<server, 0>>, GetTunnelProtocol(config.Mode), None, ports) :
           ports \in Items(config.TunnelPorts)})
  \cup {GetFilter(ipOnly, TRUE, None, <<range.StartIp, range.EndIp>>, "any", None, None)}
=============================================================================
