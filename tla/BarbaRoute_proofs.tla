---------------------------- MODULE BarbaRoute_proofs ----------------------------
(***************************************************************************)
(* The properties of the way of a packet, for all configurations, flows,   *)
(* clients and addresses, in three layers.  What is put on the network     *)
(* (NothingInClear): the filter text (AddClientFilters, GetFilter) and the *)
(* test of the program (IsConfigForOutboundPacket) are written apart; what *)
(* the configuration grabs passes both, and each mode encrypts it.  The    *)
(* way to the service (ArrivesIntact): the server takes it and undoes what *)
(* the client did, ArriveInv.  The way back: OwnersInv says at each place  *)
(* which client an address, a port and a session belong to, from which     *)
(* TypeOK and AnswersRightClient follow, and MatchInv that a packet of the *)
(* tunnel meets a connection of that client, from which RepliesAccepted    *)
(* follows.                                                                *)
(***************************************************************************)
EXTENDS BarbaRoute, WellFoundedInduction, TLAPS

\* The types the theorems need of the constants.
LEMMA ConfigType ==
  ASSUME config \in Configs
  PROVE  /\ config.Mode \in Mode /\ config.RealPort \in Nat
         /\ config.Mode \in Redirect => config.RealPort # 0
         /\ config.GrabProtocols \subseteq [Protocol : Protocol \cup {"any"}, Port : Nat]
BY RouteAssumption

LEMMA FlowType ==
  ASSUME NEW f \in Flow
  PROVE  /\ FlowData[f].proto \in Protocol
         /\ FlowData[f].sport \in Nat /\ FlowData[f].dport \in Nat
BY RouteAssumption

\* In network order no address is smaller than 0, so one address is its own range.
LEMMA MaxIpOne ==
  ASSUME NEW ip \in Nat
  PROVE  MaxIp(ip, 0) = ip
<1>1. Byte \in Nat /\ Byte > 0
  BY ByteAssumption
<1>2. /\ 0 % Byte = 0 /\ 0 \div Byte = 0
      /\ ip % Byte \in Nat /\ ip \div Byte \in Nat
  BY <1>1, SMT
<1>3. (ip % Byte) * Byte \in Nat
  BY <1>1, <1>2, SMT
<1>4. Swap(0) = 0
  BY <1>1, <1>2, SMT DEF Swap
<1>5. Swap(ip) >= 0
  BY <1>2, <1>3, SMT DEF Swap
<1>6. Swap(ip) \in Int
  BY <1>2, <1>3, SMT DEF Swap
<1> QED
  BY <1>4, <1>5, <1>6, SMT DEF MaxIp

\* A field of a filter that has no start, and one that has a single value.
LEMMA WithinAny ==
  ASSUME NEW x, NEW field, field[1] = 0
  PROVE  Within(x, field)
BY DEF Within

LEMMA WithinOne ==
  ASSUME NEW x \in Nat
  PROVE  Within(x, <<x, x>>)
<1>1. <<x, x>>[1] = x /\ <<x, x>>[2] = x
  OBVIOUS
<1>2. x <= x
  BY SMT
<1> QED
  BY <1>1, <1>2 DEF Within

\* What a configuration grabs has a filter the driver matches, in its full form
\* and in the form with addresses only.
LEMMA GrabbedIsCaptured ==
  ASSUME NEW c \in Client, NEW f \in Flow, config \in Configs, Grabs(f)
  PROVE  Captured(ClientFilters, Request(c, f), TRUE)
<1> DEFINE p == Request(c, f)
<1> DEFINE ipOnly == capture = "ipOnly"
<1>1. PICK g \in GrabProtocols(config) :
        g.Protocol \in {"any", FlowData[f].proto} /\ g.Port \in {0, FlowData[f].dport}
  BY DEF Grabs
<1>2. g.Port \in Nat
  BY ConfigType DEF GrabProtocols
<1> DEFINE filter == GetFilter(ipOnly, TRUE, None, <<Server, 0>>, g.Protocol, None, <<g.Port, 0>>)
<1>3. filter \in ClientFilters
  BY DEF ClientFilters, AddClientFilters
<1>4. p.dst = Server /\ p.dport = FlowData[f].dport /\ p.proto = FlowData[f].proto
  BY DEF Request
<1>5. Server \in Nat /\ MaxIp(Server, 0) = Server
  BY MaxIpOne, RouteAssumption
<1>6. filter.send = TRUE /\ filter.srcIps[1] = 0 /\ filter.desIps = <<Server, Server>>
  BY <1>5 DEF GetFilter, None
<1>7. Within(p.src, filter.srcIps) /\ Within(p.dst, filter.desIps)
  <2> HIDE DEF filter, p
  <2>1. Within(p.src, filter.srcIps)
    BY <1>6, WithinAny
  <2>2. Within(Server, <<Server, Server>>)
    BY <1>5, WithinOne
  <2> QED
    BY <1>4, <1>6, <2>1, <2>2
<1>8. filter.protocol \in {"any", p.proto}
  BY <1>1, <1>4 DEF GetFilter
<1>9. filter.srcPorts[1] = 0
  BY DEF GetFilter, None
<1>10. filter.desPorts \in {<<0, 0>>, <<g.Port, MaxPort(g.Port, 0)>>}
  BY DEF GetFilter
<1>11. MaxPort(g.Port, 0) = g.Port
  BY <1>2, SMT DEF MaxPort
<1>12. Within(p.dport, filter.desPorts)
  <2> HIDE DEF filter, p
  <2>1. CASE filter.desPorts[1] = 0
    BY <2>1, WithinAny
  <2>2. CASE filter.desPorts[1] # 0
    <3>1. filter.desPorts = <<g.Port, g.Port>> /\ g.Port # 0
      BY <1>10, <1>11, <2>2
    <3>2. p.dport = g.Port
      BY <1>1, <1>4, <3>1
    <3>3. Within(g.Port, <<g.Port, g.Port>>)
      BY <1>2, WithinOne
    <3> QED
      BY <3>1, <3>2, <3>3
  <2> QED
    BY <2>1, <2>2
<1>13. Within(p.sport, filter.srcPorts)
  BY <1>9, WithinAny
<1>14. Matches(filter, p, TRUE)
  BY <1>6, <1>7, <1>8, <1>12, <1>13 DEF Matches
<1> QED
  BY <1>3, <1>14 DEF Captured

\* The program takes what the configuration grabs.
LEMMA GrabbedIsTaken ==
  ASSUME NEW c \in Client, NEW f \in Flow, config \in Configs, Grabs(f)
  PROVE  IsConfigForOutboundPacket(Request(c, f))
<1>1. PICK g \in GrabProtocols(config) :
        g.Protocol \in {"any", FlowData[f].proto} /\ g.Port \in {0, FlowData[f].dport}
  BY DEF Grabs
<1>2. /\ Request(c, f).dst = Server /\ Request(c, f).dport = FlowData[f].dport
      /\ Request(c, f).proto = FlowData[f].proto
  BY DEF Request
<1>3. CASE config.Mode \in Redirect
  <2>1. g.Port = config.RealPort /\ g.Port # 0
    BY <1>3, ConfigType DEF GrabProtocols
  <2> QED
    BY <1>1, <1>2, <1>3, <2>1 DEF IsConfigForOutboundPacket
<1>4. CASE config.Mode \notin Redirect
  BY <1>1, <1>2, <1>4 DEF IsConfigForOutboundPacket
<1> QED
  BY <1>3, <1>4

-----------------------------------------------------------------------------
(* What is put on the network *)

\* A packet that is no grabbed request in clear.
Covered(p) ==
  p.body.kind = "data" /\ ~p.body.reply /\ p.enc = 0 =>
    ~Grabs(p.body.flow) \/ TooLarge(p.body.flow)

\* The NAT changes addresses and ports only.
LEMMA WrapCovered ==
  ASSUME NEW c, NEW p, NEW session, NEW protocol, NEW src, NEW dst, NEW sport, NEW dport
  PROVE  /\ Covered(Wrap(p, session, protocol, src, dst, sport, dport))
         /\ Covered(Natted(c, Wrap(p, session, protocol, src, dst, sport, dport)))
<1> DEFINE w == Wrap(p, session, protocol, src, dst, sport, dport)
<1>1. w.body.kind = "packet"
  BY DEF Wrap
<1>2. Natted(c, w).body = w.body
  BY DEF Natted, Wrap
<1> QED
  BY <1>1, <1>2 DEF Covered

\* The request itself, when the configuration does not grab it or cannot carry it.
LEMMA RequestCovered ==
  ASSUME NEW c \in Client, NEW f \in Flow, ~Grabs(f) \/ TooLarge(f)
  PROVE  Covered(Natted(c, Request(c, f)))
<1>1. Natted(c, Request(c, f)).body = Request(c, f).body
  BY DEF Natted, Request
<1>2. Request(c, f).body.flow = f
  BY DEF Request
<1> QED
  BY <1>1, <1>2 DEF Covered

\* A redirect encrypts what it grabs.
LEMMA RedirectCovered ==
  ASSUME NEW c \in Client, NEW f \in Flow, config \in Configs, config.Mode \in Redirect,
         NEW port
  PROVE  Covered(Natted(c, RecalculateChecksum(EncryptPacket(SetDesPort(Request(c, f), port)))))
<1> DEFINE p == Request(c, f)
           d == SetDesPort(p, port)
           q == RecalculateChecksum(EncryptPacket(d))
<1>1. CASE ~Grabs(f)
  <2>1. d.body = p.body /\ d.proto = p.proto
    BY DEF SetDesPort, Request
  <2>2. q.body = p.body
    BY <2>1 DEF EncryptPacket, RecalculateChecksum, SetDesPort, Request
  <2>3. Natted(c, q).body = q.body
    BY DEF Natted, EncryptPacket, RecalculateChecksum, SetDesPort, Request
  <2>4. p.body.flow = f
    BY DEF Request
  <2> QED
    BY <1>1, <2>2, <2>3, <2>4 DEF Covered
<1>2. CASE Grabs(f)
  <2>1. FlowData[f].proto \in {"TCP", "UDP"}
    BY <1>2 DEF Grabs, GrabProtocols, GetTunnelProtocol
  <2>2. d.enc = 0 /\ HasPorts(d.proto)
    BY <2>1 DEF SetDesPort, Request, HasPorts
  <2>3. q.enc = 1
    BY <2>2 DEF EncryptPacket, RecalculateChecksum, SetDesPort, Request
  <2>4. Natted(c, q).enc = q.enc
    BY DEF Natted, EncryptPacket, RecalculateChecksum, SetDesPort, Request
  <2> QED
    BY <2>3, <2>4 DEF Covered
<1> QED
  BY <1>1, <1>2

\* Whatever a connection of a client sends is covered.
LEMMA ClientSendsCovered ==
  ASSUME NEW c \in Client, NEW f \in Flow, config \in Configs, NEW k,
         NEW q \in ClientSends(k, Request(c, f))
  PROVE  Covered(Natted(c, q))
<1> DEFINE p == Request(c, f)
<1>1. CASE config.Mode \in Redirect
  <2>1. q \in RedirectSends(k, p)
    BY <1>1 DEF ClientSends, Redirect
  <2> QED
    BY <1>1, <2>1, RedirectCovered DEF RedirectSends
<1>2. CASE config.Mode = "UDP-Simple-Tunnel"
  <2>1. q \in SimpleSends(k, p)
    BY <1>2 DEF ClientSends, Redirect
  <2> QED
    BY <2>1, WrapCovered DEF SimpleSends
<1>3. CASE config.Mode = "UDP-Tunnel"
  <2>1. q \in UdpSends(k, p)
    BY <1>3 DEF ClientSends, Redirect
  <2> QED
    BY <2>1, WrapCovered DEF UdpSends
<1>4. CASE config.Mode \notin Redirect \cup {"UDP-Simple-Tunnel", "UDP-Tunnel"}
  <2>1. q \in SocketSends(k, p)
    BY <1>4 DEF ClientSends
  <2> QED
    BY <2>1, WrapCovered DEF SocketSends
<1> QED
  BY <1>1, <1>2, <1>3, <1>4

\* A reply is marked as one, also when a redirect has changed and encrypted it.
LEMMA ReplyCovered ==
  ASSUME NEW r, NEW k
  PROVE  /\ Covered(Reply(r))
         /\ \A q \in ServerSends(k, Reply(r)) : Covered(q)
<1> DEFINE p == Reply(r)
<1>1. Covered(p)
  BY DEF Covered, Reply
<1>2. ASSUME NEW q \in ServerSends(k, p) PROVE Covered(q)
  <2>1. CASE config.Mode \in Redirect
    <3> DEFINE d == SetDesIp(SetSrcPort(p, k.TunnelPort), k.ClientIp)
    <3>1. q \in RedirectAnswers(k, p)
      BY <2>1 DEF ServerSends, Redirect
    <3>2. q = RecalculateChecksum(EncryptPacket(d))
      BY <3>1 DEF RedirectAnswers
    <3>3. q.body.reply = TRUE
      BY <3>2 DEF RecalculateChecksum, EncryptPacket, SetDesIp, SetSrcPort, Reply
    <3> QED
      BY <3>3 DEF Covered
  <2>2. CASE config.Mode = "UDP-Simple-Tunnel"
    <3>1. q \in SimpleAnswers(k, p)
      BY <2>2 DEF ServerSends, Redirect
    <3>2. CASE p.large
      BY <3>1, <3>2 DEF SimpleAnswers
    <3>3. CASE ~p.large
      BY <3>1, <3>3, WrapCovered DEF SimpleAnswers
    <3> QED
      BY <3>2, <3>3
  <2>3. CASE config.Mode = "UDP-Tunnel"
    <3>1. q \in UdpAnswers(k, p)
      BY <2>3 DEF ServerSends, Redirect
    <3> QED
      BY <3>1, WrapCovered DEF UdpAnswers
  <2>4. CASE config.Mode \notin Redirect \cup {"UDP-Simple-Tunnel", "UDP-Tunnel"}
    <3>1. q \in SocketAnswers(k, p)
      BY <2>4 DEF ServerSends
    <3> QED
      BY <3>1, WrapCovered DEF SocketAnswers
  <2> QED
    BY <2>1, <2>2, <2>3, <2>4
<1> QED
  BY <1>1, <1>2

-----------------------------------------------------------------------------
(* The theorem *)

ClearInv == config \in Configs /\ \A p \in net : Covered(p)

\* A connection refuses a packet only for its size.
LEMMA RefusedIsLarge ==
  ASSUME NEW c \in Client, NEW f \in Flow, NEW k \in NewClientConnections(c, Request(c, f)),
         ~TakesOutbound(k, Request(c, f))
  PROVE  TooLarge(f)
<1>1. k.ClientPort = Request(c, f).sport
  BY DEF NewClientConnections
<1>2. Request(c, f).large = FlowData[f].large
  BY DEF Request
<1> QED
  BY <1>1, <1>2 DEF TakesOutbound, TooLarge

LEMMA AppSendsClear ==
  ASSUME NEW c \in Client, NEW f \in Flow, ClearInv, AppSends(c, f)
  PROVE  ClearInv'
<1> DEFINE p == Request(c, f)
           mine == Captured(ClientFilters, p, TRUE) /\ IsConfigForOutboundPacket(p)
<1>1. config' = config
  BY DEF AppSends, fixed
<1>2. PICK q : net' = net \cup {q} /\ Covered(q)
  <2>1. CASE ~mine /\ Sends(c, p)
    <3>1. ~Grabs(f)
      BY <2>1, GrabbedIsCaptured, GrabbedIsTaken DEF ClearInv
    <3> QED
      BY <2>1, <3>1, RequestCovered DEF Sends
  <2>2. CASE \E k : \E q \in ClientSends(k, p) : Sends(c, q)
    BY <2>2, ClientSendsCovered DEF ClearInv, Sends
  <2>3. CASE \E k \in NewClientConnections(c, p) : ~TakesOutbound(k, p) /\ Sends(c, p)
    BY <2>3, RefusedIsLarge, RequestCovered DEF Sends
  <2> QED
    BY <2>1, <2>2, <2>3 DEF AppSends
<1>3. \A x : Covered(x)' = Covered(x)
  BY <1>1 DEF Covered, Grabs, TooLarge
<1> QED
  BY <1>1, <1>2, <1>3 DEF ClearInv

\* No step of the network, a client or the server puts a grabbed request in
\* clear on the network.
THEOREM InClearCorrect == Spec => []NothingInClear
<1>1. Init => ClearInv
  BY DEF Init, ClearInv
<1>2. ClearInv /\ [Next]_vars => ClearInv'
  <2> SUFFICES ASSUME ClearInv, [Next]_vars PROVE ClearInv'
    OBVIOUS
  <2>1. ASSUME NEW c \in Client, NEW f \in Flow, AppSends(c, f) PROVE ClearInv'
    BY <2>1, AppSendsClear
  <2>2. ASSUME config' = config, net' \subseteq net PROVE ClearInv'
    BY <2>2 DEF ClearInv, Covered, Grabs, TooLarge
  <2>3. ASSUME NEW c \in Client, ClientRestarts(c) PROVE ClearInv'
    BY <2>2, <2>3 DEF ClientRestarts, fixed
  <2>4. ASSUME NEW p \in net, ServerReceives(p) PROVE ClearInv'
    BY <2>2, <2>4 DEF ServerReceives, fixed
  <2>5. ASSUME NEW p \in net, NEW c \in Client, ClientReceives(c, p) PROVE ClearInv'
    BY <2>2, <2>5 DEF ClientReceives, fixed
  <2>6. ASSUME NEW r \in pending, ServiceReplies(r) PROVE ClearInv'
    <3>1. config' = config
      BY <2>6 DEF ServiceReplies, fixed
    <3>2. net' = net \/ \E q : net' = net \cup {q} /\ Covered(q)
      BY <2>6, ReplyCovered DEF ServiceReplies
    <3> QED
      BY <3>1, <3>2 DEF ClearInv, Covered, Grabs, TooLarge
  <2>7. ASSUME NEW i \in DOMAIN Connections, ServerTimeout(i) PROVE ClearInv'
    BY <2>2, <2>7 DEF ServerTimeout, fixed
  <2>8. CASE ServerRestarts
    BY <2>2, <2>8 DEF ServerRestarts, fixed
  <2>9. CASE UNCHANGED vars
    BY <2>2, <2>9 DEF vars
  <2> QED
    BY <2>1, <2>3, <2>4, <2>5, <2>6, <2>7, <2>8, <2>9 DEF Next
<1>3. ClearInv => NothingInClear
  BY DEF ClearInv, Covered, NothingInClear
<1> QED
  BY <1>1, <1>2, <1>3, PTL DEF Spec

-----------------------------------------------------------------------------
(* The way of a request to the service *)

\* A request of an application that the configuration has to carry.
IsRequest(p) ==
  /\ p.body.kind = "data" /\ ~p.body.reply
  /\ Grabs(p.body.flow) /\ ~TooLarge(p.body.flow)

\* The fields of a packet and no others.
PacketFields == {"src", "dst", "proto", "sport", "dport", "enc", "large", "sums", "body"}
IsPacket(p) == p = [field \in PacketFields |-> p[field]]

\* As the application sent it.
Intact(p) ==
  IsRequest(p) =>
    /\ p.dst = Server /\ p.proto = FlowData[p.body.flow].proto
    /\ p.dport = FlowData[p.body.flow].dport
    /\ p.enc = 0 /\ p.sums = AllSums

Arrived(p) == p.body.kind = "data" /\ Intact(p)

\* Under way, a redirect has encrypted it and sent it to a tunnel port; every other
\* mode has put it into a packet as it was.
Tunnelled(p) ==
  /\ IsPacket(p)
  /\ p.body.kind \in {"data", "packet"}
  /\ IsRequest(p) =>
       /\ config.Mode \in Redirect
       /\ p.proto = GetTunnelProtocol(config.Mode) /\ p.enc = 1
       /\ IsPortInRange(config.TunnelPorts, p.dport) /\ p.dport \in Nat
  /\ p.body.kind = "packet" =>
       IsPacket(p.body.packet) /\ Intact(p.body.packet)

ClientConnection ==
  [ClientPort : Nat,
   TunnelPort : IF config.Mode \in Redirect \cup {"UDP-Simple-Tunnel"}
                THEN AllPorts(config.TunnelPorts) ELSE {0},
   Session : Client \X Nat]

ArriveInv ==
  /\ config \in Configs
  /\ runs \in [Client -> Nat]
  /\ conns \in [Client -> Seq(ClientConnection)]
  /\ \A p \in net : Tunnelled(p)
  /\ \A r \in pending : Arrived(r.packet)

\* What an operation on a packet leaves alone.
LEMMA SetFacts ==
  ASSUME NEW p, IsPacket(p), NEW x
  PROVE  /\ LET q == SetSrcIp(p, x) IN
              /\ IsPacket(q) /\ q.body = p.body /\ q.dst = p.dst /\ q.proto = p.proto
              /\ q.dport = p.dport /\ q.enc = p.enc
         /\ LET q == SetDesIp(p, x) IN IsPacket(q) /\ q.body = p.body
         /\ LET q == SetSrcPort(p, x) IN IsPacket(q) /\ q.body = p.body
         /\ LET q == SetDesPort(p, x) IN
              /\ IsPacket(q) /\ q.body = p.body /\ q.dst = p.dst /\ q.proto = p.proto
              /\ q.dport = x /\ q.enc = p.enc
         /\ LET q == RecalculateChecksum(p) IN
              /\ IsPacket(q) /\ q.body = p.body /\ q.dst = p.dst /\ q.proto = p.proto
              /\ q.dport = p.dport /\ q.enc = p.enc /\ q.sums = AllSums
BY DEF IsPacket, PacketFields, SetSrcIp, SetDesIp, SetSrcPort, SetDesPort, RecalculateChecksum

LEMMA CryptFacts ==
  ASSUME NEW p, IsPacket(p)
  PROVE  /\ LET q == EncryptPacket(p) IN
              /\ IsPacket(q) /\ q.body = p.body /\ q.dst = p.dst /\ q.proto = p.proto
              /\ q.dport = p.dport
              /\ HasPorts(p.proto) => q.enc = p.enc + 1
         /\ LET q == DecryptPacket(p) IN
              /\ IsPacket(q) /\ q.body = p.body /\ q.dst = p.dst /\ q.proto = p.proto
              /\ q.dport = p.dport
              /\ HasPorts(p.proto) => q.enc = p.enc - 1
BY DEF IsPacket, PacketFields, EncryptPacket, DecryptPacket, RecalculateChecksum

LEMMA NatFacts ==
  ASSUME NEW p, IsPacket(p), NEW c
  PROVE  LET q == Natted(c, p) IN
           /\ IsPacket(q) /\ q.body = p.body /\ q.dst = p.dst /\ q.proto = p.proto
           /\ q.dport = p.dport /\ q.enc = p.enc
BY DEF IsPacket, PacketFields, Natted

\* A packet that is no request and carries none.
LEMMA NoRequest ==
  ASSUME NEW p, IsPacket(p), p.body.kind = "data", ~IsRequest(p)
  PROVE  Tunnelled(p)
BY DEF Tunnelled

\* The elements of a sequence.
LEMMA ElementType ==
  ASSUME NEW S, NEW s \in Seq(S), NEW i \in DOMAIN s
  PROVE  s[i] \in S
OBVIOUS

LEMMA PortType ==
  ASSUME config \in Configs
  PROVE  /\ config.ServerIp \in {0, Server}
         /\ \A i \in DOMAIN config.TunnelPorts :
              config.TunnelPorts[i].StartPort \in Nat /\ config.TunnelPorts[i].EndPort \in Nat
<1>1. /\ config.ServerIp \in {0, Server}
      /\ config.TunnelPorts \in Seq([StartPort : Nat, EndPort : Nat])
  BY RouteAssumption
<1> DEFINE ports == config.TunnelPorts
<1>2. ASSUME NEW i \in DOMAIN ports
      PROVE  ports[i].StartPort \in Nat /\ ports[i].EndPort \in Nat
  <2> DEFINE Item == [StartPort : Nat, EndPort : Nat]
  <2>1. ports \in Seq(Item)
    BY <1>1
  <2> HIDE DEF ports, Item
  <2>2. ports[i] \in Item
    BY <2>1, ElementType
  <2> USE DEF Item
  <2> QED
    BY <2>2
<1> QED
  BY <1>1, <1>2

LEMMA PortInRange ==
  ASSUME config \in Configs, NEW port \in AllPorts(config.TunnelPorts)
  PROVE  IsPortInRange(config.TunnelPorts, port) /\ port \in Nat
<1>1. PICK i \in DOMAIN config.TunnelPorts :
        port \in config.TunnelPorts[i].StartPort .. config.TunnelPorts[i].EndPort
  BY DEF AllPorts
<1>2. config.TunnelPorts[i].StartPort \in Nat /\ config.TunnelPorts[i].EndPort \in Nat
  BY PortType
<1>3. port \in Nat /\ InItem(port, config.TunnelPorts[i])
  BY <1>1, <1>2 DEF InItem
<1> QED
  BY <1>3 DEF IsPortInRange

\* What a redirect grabs is of its protocol and goes to its real port.
LEMMA RedirectGrabs ==
  ASSUME config \in Configs, config.Mode \in Redirect, NEW f, Grabs(f)
  PROVE  /\ FlowData[f].proto = GetTunnelProtocol(config.Mode)
         /\ FlowData[f].dport = config.RealPort
         /\ HasPorts(FlowData[f].proto)
<1>1. PICK g \in GrabProtocols(config) :
        g.Protocol \in {"any", FlowData[f].proto} /\ g.Port \in {0, FlowData[f].dport}
  BY DEF Grabs
<1>2. g.Protocol = GetTunnelProtocol(config.Mode) /\ g.Port = config.RealPort /\ g.Port # 0
  BY <1>1, ConfigType DEF GrabProtocols
<1>3. GetTunnelProtocol(config.Mode) \in {"TCP", "UDP"}
  BY DEF GetTunnelProtocol
<1> QED
  BY <1>1, <1>2, <1>3 DEF HasPorts

-----------------------------------------------------------------------------
(* What a client sends *)

LEMMA WrapTunnelled ==
  ASSUME NEW c, NEW p, IsPacket(p), Intact(p),
         NEW session, NEW protocol, NEW src, NEW dst, NEW sport, NEW dport
  PROVE  /\ Tunnelled(Wrap(p, session, protocol, src, dst, sport, dport))
         /\ Tunnelled(Natted(c, Wrap(p, session, protocol, src, dst, sport, dport)))
<1> DEFINE w == Wrap(p, session, protocol, src, dst, sport, dport)
           n == Natted(c, w)
<1>1. IsPacket(w)
  BY DEF Wrap, IsPacket, PacketFields
<1>2. w.body.kind = "packet" /\ w.body.packet = p
  BY DEF Wrap
<1> HIDE DEF w
<1>3. IsPacket(n) /\ n.body = w.body
  BY <1>1, NatFacts
<1> HIDE DEF n
<1>4. Tunnelled(w)
  BY <1>1, <1>2 DEF Tunnelled, IsRequest
<1>5. Tunnelled(n)
  BY <1>2, <1>3 DEF Tunnelled, IsRequest
<1> QED
  BY <1>4, <1>5 DEF w, n

LEMMA RequestIntact ==
  ASSUME NEW c \in Client, NEW f \in Flow
  PROVE  /\ IsPacket(Request(c, f)) /\ Intact(Request(c, f))
         /\ ~Grabs(f) \/ TooLarge(f) => Tunnelled(Natted(c, Request(c, f)))
<1> DEFINE p == Request(c, f)
           n == Natted(c, p)
<1>1. IsPacket(p)
  BY DEF Request, IsPacket, PacketFields
<1>2. Intact(p) /\ p.body.kind = "data" /\ p.body.flow = f
  BY DEF Request, Intact
<1> HIDE DEF p
<1>3. IsPacket(n) /\ n.body = p.body
  BY <1>1, NatFacts
<1> HIDE DEF n
<1>4. ASSUME ~Grabs(f) \/ TooLarge(f) PROVE Tunnelled(n)
  BY <1>2, <1>3, <1>4, NoRequest DEF IsRequest
<1> QED
  BY <1>1, <1>2, <1>4 DEF p, n

LEMMA RedirectTunnelled ==
  ASSUME NEW c \in Client, NEW f \in Flow, config \in Configs, config.Mode \in Redirect,
         NEW port \in AllPorts(config.TunnelPorts)
  PROVE  Tunnelled(Natted(c, RecalculateChecksum(EncryptPacket(SetDesPort(Request(c, f), port)))))
<1> DEFINE p == Request(c, f)
           d == SetDesPort(p, port)
           e == EncryptPacket(d)
           q == RecalculateChecksum(e)
           n == Natted(c, q)
<1>1. IsPacket(p)
  BY RequestIntact
<1>2. /\ p.enc = 0 /\ p.proto = FlowData[f].proto
      /\ p.body.kind = "data" /\ p.body.flow = f
  BY DEF Request
<1> HIDE DEF p
<1>3. IsPacket(d) /\ d.body = p.body /\ d.dport = port /\ d.enc = 0 /\ d.proto = p.proto
  BY <1>1, <1>2, SetFacts
<1> HIDE DEF d
<1>4. /\ IsPacket(e) /\ e.body = p.body /\ e.dport = port /\ e.proto = p.proto
      /\ HasPorts(p.proto) => e.enc = 1
  BY <1>3, CryptFacts
<1> HIDE DEF e
<1>5. IsPacket(q) /\ q.body = p.body /\ q.dport = port /\ q.proto = p.proto /\ q.enc = e.enc
  BY <1>4, SetFacts
<1> HIDE DEF q
<1>6. IsPacket(n) /\ n.body = p.body /\ n.dport = port /\ n.proto = p.proto /\ n.enc = e.enc
  BY <1>5, NatFacts
<1> HIDE DEF n
<1>7. IsPortInRange(config.TunnelPorts, port) /\ port \in Nat
  BY PortInRange
<1>8. Grabs(f) => FlowData[f].proto = GetTunnelProtocol(config.Mode) /\ HasPorts(FlowData[f].proto)
  BY RedirectGrabs
<1>9. Tunnelled(n)
  BY <1>2, <1>4, <1>6, <1>7, <1>8 DEF Tunnelled, IsRequest
<1> QED
  BY <1>9 DEF n, q, e, d, p

LEMMA ClientSendsTunnelled ==
  ASSUME NEW c \in Client, NEW f \in Flow, config \in Configs, NEW k \in ClientConnection,
         NEW q \in ClientSends(k, Request(c, f))
  PROVE  Tunnelled(Natted(c, q))
<1> DEFINE p == Request(c, f)
<1>1. CASE config.Mode \in Redirect
  <2>1. q \in RedirectSends(k, p)
    BY <1>1 DEF ClientSends, Redirect
  <2>2. k.TunnelPort \in AllPorts(config.TunnelPorts)
    BY <1>1 DEF ClientConnection
  <2> QED
    BY <1>1, <2>1, <2>2, RedirectTunnelled DEF RedirectSends
<1>2. CASE config.Mode = "UDP-Simple-Tunnel"
  <2>1. q \in SimpleSends(k, p)
    BY <1>2 DEF ClientSends, Redirect
  <2> QED
    BY <2>1, RequestIntact, WrapTunnelled DEF SimpleSends
<1>3. CASE config.Mode = "UDP-Tunnel"
  <2>1. q \in UdpSends(k, p)
    BY <1>3 DEF ClientSends, Redirect
  <2> QED
    BY <2>1, RequestIntact, WrapTunnelled DEF UdpSends
<1>4. CASE config.Mode \notin Redirect \cup {"UDP-Simple-Tunnel", "UDP-Tunnel"}
  <2>1. q \in SocketSends(k, p)
    BY <1>4 DEF ClientSends
  <2> QED
    BY <2>1, RequestIntact, WrapTunnelled DEF SocketSends
<1> QED
  BY <1>1, <1>2, <1>3, <1>4

\* A set of indices has a least one.
LEMMA MinIndex ==
  ASSUME NEW I, I # {}, I \subseteq Nat
  PROVE  Min(I) \in I
<1>1. PICK x \in I : \A y \in I : ~(<<y, x>> \in OpToRel(<, Nat))
  BY WFMin, NatLessThanWellFounded
<1>2. \A y \in I : ~(y < x)
  BY <1>1 DEF OpToRel
<1>3. \A y \in I : x <= y
  BY <1>2
<1> QED
  BY <1>3 DEF Min

\* The connection SelectInSeq finds is one of the list, and takes the packet.
LEMMA OutboundIndexType ==
  ASSUME NEW c, NEW p, NEW S, conns[c] \in Seq(S), OutboundIndex(c, p) # 0
  PROVE  conns[c][OutboundIndex(c, p)] \in S
<1> DEFINE I == {i \in 1 .. Len(conns[c]) : TakesOutbound(conns[c][i], p)}
<1>1. OutboundIndex(c, p) = IF I # {} THEN Min(I) ELSE 0
  BY DEF OutboundIndex, SelectInSeq
<1>2. I # {} /\ OutboundIndex(c, p) = Min(I)
  BY <1>1
<1>3. I \subseteq 1 .. Len(conns[c]) /\ I \subseteq Nat
  OBVIOUS
<1> HIDE DEF I
<1>4. Min(I) \in 1 .. Len(conns[c])
  BY <1>2, <1>3, MinIndex
<1> QED
  BY <1>2, <1>4

InboundIndex(p) == SelectInSeq(Connections, LAMBDA k : TakesInbound(k, p))

LEMMA InboundIndexTakes ==
  ASSUME NEW p, InboundIndex(p) # 0
  PROVE  TakesInbound(Connections[InboundIndex(p)], p)
<1> DEFINE I == {n \in 1 .. Len(Connections) : TakesInbound(Connections[n], p)}
           i == InboundIndex(p)
<1>1. i = IF I # {} THEN Min(I) ELSE 0
  BY DEF SelectInSeq, InboundIndex
<1>2. I # {} /\ i = Min(I)
  BY <1>1
<1>3. I \subseteq Nat
  OBVIOUS
<1>4. i \in I
  <2> HIDE DEF I, i
  <2> QED
    BY <1>2, <1>3, MinIndex
<1> QED
  BY <1>4

LEMMA AppSendsArrive ==
  ASSUME NEW c \in Client, NEW f \in Flow, ArriveInv, AppSends(c, f)
  PROVE  ArriveInv'
<1> DEFINE p == Request(c, f)
           mine == Captured(ClientFilters, p, TRUE) /\ IsConfigForOutboundPacket(p)
           i == OutboundIndex(c, p)
<1>1. UNCHANGED <<config, runs, pending>>
  BY DEF AppSends, fixed, serverVars
<1>2. conns[c] \in Seq(ClientConnection) /\ config \in Configs /\ runs[c] \in Nat
  BY DEF ArriveInv
<1>3. NewClientConnections(c, p) \subseteq ClientConnection
  <2>1. p.sport \in Nat
    BY FlowType DEF Request
  <2>2. <<c, runs[c]>> \in Client \X Nat
    BY <1>2
  <2> HIDE DEF p
  <2> QED
    BY <2>1, <2>2 DEF NewClientConnections, ClientConnection
<1>4. PICK q : net' = net \cup {q} /\ Tunnelled(q)
  <2>1. CASE ~mine /\ Sends(c, p)
    <3>1. ~Grabs(f)
      BY <1>2, <2>1, GrabbedIsCaptured, GrabbedIsTaken
    <3> QED
      BY <2>1, <3>1, RequestIntact DEF Sends
  <2>2. CASE i # 0 /\ \E q \in ClientSends(conns[c][i], p) : Sends(c, q)
    <3>1. conns[c][i] \in ClientConnection
      BY <1>2, <2>2, OutboundIndexType
    <3> QED
      BY <1>2, <2>2, <3>1, ClientSendsTunnelled DEF Sends
  <2>3. CASE \E k \in NewClientConnections(c, p) : \E q \in ClientSends(k, p) : Sends(c, q)
    BY <1>2, <1>3, <2>3, ClientSendsTunnelled DEF Sends
  <2>4. CASE \E k \in NewClientConnections(c, p) : ~TakesOutbound(k, p) /\ Sends(c, p)
    BY <2>4, RefusedIsLarge, RequestIntact DEF Sends
  <2> QED
    BY <2>1, <2>2, <2>3, <2>4 DEF AppSends
<1>5. conns' \in [Client -> Seq(ClientConnection)]
  <2>1. \/ UNCHANGED conns
        \/ \E k \in NewClientConnections(c, p) : conns' = [conns EXCEPT ![c] = Append(@, k)]
    BY DEF AppSends
  <2> HIDE DEF p
  <2>2. ASSUME NEW k \in NewClientConnections(c, p), conns' = [conns EXCEPT ![c] = Append(@, k)]
        PROVE  conns' \in [Client -> Seq(ClientConnection)]
    <3>1. Append(conns[c], k) \in Seq(ClientConnection)
      BY <1>2, <1>3
    <3> QED
      BY <2>2, <3>1 DEF ArriveInv
  <2> QED
    BY <2>1, <2>2 DEF ArriveInv
<1>6. ClientConnection' = ClientConnection
  BY <1>1 DEF ClientConnection
<1>7. \A x : (Tunnelled(x)' <=> Tunnelled(x)) /\ (Arrived(x)' <=> Arrived(x))
  BY <1>1 DEF Tunnelled, Arrived, Intact, IsRequest, Grabs, TooLarge
<1> QED
  BY <1>1, <1>4, <1>5, <1>6, <1>7 DEF ArriveInv

-----------------------------------------------------------------------------
(* What the server makes of it *)

\* A request in a redirect passes the server's filter and its configuration.
LEMMA RedirectIsTaken ==
  ASSUME config \in Configs, NEW p, Tunnelled(p), IsRequest(p), p.dst = Server
  PROVE  /\ config.Mode \in Redirect
         /\ Captured(ServerFilters, p, FALSE) /\ IsServerConfigForInboundPacket(p)
<1>1. /\ config.Mode \in Redirect
      /\ p.proto = GetTunnelProtocol(config.Mode)
      /\ IsPortInRange(config.TunnelPorts, p.dport) /\ p.dport \in Nat
  BY DEF Tunnelled
<1>2. IsServerConfigForInboundPacket(p)
  BY <1>1, PortType DEF IsServerConfigForInboundPacket
<1>3. PICK i \in DOMAIN config.TunnelPorts : InItem(p.dport, config.TunnelPorts[i])
  BY <1>1 DEF IsPortInRange
<1> DEFINE first == config.TunnelPorts[i].StartPort
           last == config.TunnelPorts[i].EndPort
           ipOnly == capture = "ipOnly"
           filter == GetFilter(ipOnly, FALSE, None, <<config.ServerIp, 0>>,
                               GetTunnelProtocol(config.Mode), None, <<first, last>>)
<1>4. filter \in ServerFilters
  <2>1. <<first, last>> \in Items(config.TunnelPorts)
    BY DEF Items
  <2>2. config.Mode \notin Sockets
    BY <1>1 DEF Redirect, Sockets
  <2> QED
    BY <2>1, <2>2 DEF ServerFilters, AddServerFilters
<1>5. first \in Nat /\ last \in Nat /\ first <= p.dport /\ p.dport <= last
  BY <1>3, PortType DEF InItem
<1>6. config.ServerIp \in Nat /\ MaxIp(config.ServerIp, 0) = config.ServerIp
  BY PortType, MaxIpOne, RouteAssumption
<1>7. /\ filter.send = FALSE /\ filter.srcIps[1] = 0 /\ filter.srcPorts[1] = 0
      /\ filter.desIps = <<config.ServerIp, config.ServerIp>>
      /\ filter.protocol \in {"any", p.proto}
      /\ filter.desPorts \in {<<0, 0>>, <<first, MaxPort(first, last)>>}
  BY <1>1, <1>6 DEF GetFilter, None
<1> HIDE DEF filter
<1>8. Within(p.dst, filter.desIps)
  <2>1. CASE config.ServerIp = 0
    BY <1>7, <2>1, WithinAny
  <2>2. CASE config.ServerIp = Server
    BY <1>6, <1>7, <2>2, WithinOne
  <2> QED
    BY <2>1, <2>2, PortType
<1>9. Within(p.dport, filter.desPorts)
  <2>1. CASE filter.desPorts = <<0, 0>>
    BY <2>1, WithinAny
  <2>2. CASE filter.desPorts = <<first, MaxPort(first, last)>>
    <3> HIDE DEF first, last
    <3>1. MaxPort(first, last) = last \/ (MaxPort(first, last) = first /\ last <= first)
      BY <1>5, SMT DEF MaxPort
    <3>2. p.dport <= MaxPort(first, last)
      BY <1>1, <1>5, <3>1
    <3> QED
      BY <1>5, <2>2, <3>2 DEF Within
  <2> QED
    BY <1>7, <2>1, <2>2
<1>10. Within(p.src, filter.srcIps) /\ Within(p.sport, filter.srcPorts)
  BY <1>7, WithinAny
<1>11. Matches(filter, p, FALSE)
  BY <1>7, <1>8, <1>9, <1>10 DEF Matches
<1> QED
  BY <1>1, <1>2, <1>4, <1>11 DEF Captured

\* The connection gives the service the request as the application sent it.
LEMMA ToServiceIntact ==
  ASSUME config \in Configs, NEW p, Tunnelled(p), p.dst = Server, NEW k, NEW q \in ToService(k, p),
         config.Mode \notin Redirect => p.body.kind = "packet"
  PROVE  Intact(q)
<1>1. CASE config.Mode \in Redirect
  <2> DEFINE d == DecryptPacket(p)
             s == SetSrcIp(d, k.VirtualIp)
             t == SetDesPort(s, config.RealPort)
  <2>1. q = RecalculateChecksum(t)
    BY <1>1 DEF ToService
  <2>2. /\ IsPacket(d) /\ d.body = p.body /\ d.dst = p.dst /\ d.proto = p.proto
        /\ HasPorts(p.proto) => d.enc = p.enc - 1
    BY CryptFacts DEF Tunnelled
  <2> HIDE DEF d
  <2>3. /\ IsPacket(s) /\ s.body = p.body /\ s.dst = p.dst /\ s.proto = p.proto /\ s.enc = d.enc
    BY <2>2, SetFacts
  <2> HIDE DEF s
  <2>4. /\ IsPacket(t) /\ t.body = p.body /\ t.dst = p.dst /\ t.proto = p.proto /\ t.enc = d.enc
        /\ t.dport = config.RealPort
    BY <2>3, SetFacts
  <2> HIDE DEF t
  <2>5. /\ q.body = p.body /\ q.dst = p.dst /\ q.proto = p.proto /\ q.enc = d.enc
        /\ q.dport = config.RealPort /\ q.sums = AllSums
    BY <2>1, <2>4, SetFacts
  <2> SUFFICES ASSUME IsRequest(q)
               PROVE  /\ q.dst = Server /\ q.proto = FlowData[q.body.flow].proto
                      /\ q.dport = FlowData[q.body.flow].dport
                      /\ q.enc = 0 /\ q.sums = AllSums
    BY DEF Intact
  <2>6. IsRequest(p)
    BY <2>5 DEF IsRequest
  <2>7. p.proto = GetTunnelProtocol(config.Mode) /\ p.enc = 1 /\ Grabs(p.body.flow)
    BY <2>6 DEF Tunnelled, IsRequest
  <2>8. /\ FlowData[p.body.flow].proto = p.proto /\ FlowData[p.body.flow].dport = config.RealPort
        /\ HasPorts(p.proto)
    BY <1>1, <2>7, RedirectGrabs
  <2>9. q.enc = 0
    BY <2>2, <2>5, <2>7, <2>8
  <2> QED
    BY <2>5, <2>8, <2>9
<1>2. CASE config.Mode \notin Redirect
  <2> DEFINE m == p.body.packet
             s == SetSrcIp(m, k.VirtualIp)
  <2>1. q = RecalculateChecksum(s)
    BY <1>2 DEF ToService, Translate, Carried
  <2>2. IsPacket(m) /\ Intact(m)
    BY <1>2 DEF Tunnelled
  <2> HIDE DEF m
  <2>3. /\ IsPacket(s) /\ s.body = m.body /\ s.dst = m.dst /\ s.proto = m.proto
        /\ s.dport = m.dport /\ s.enc = m.enc
    BY <2>2, SetFacts
  <2> HIDE DEF s
  <2>4. /\ q.body = m.body /\ q.dst = m.dst /\ q.proto = m.proto
        /\ q.dport = m.dport /\ q.enc = m.enc /\ q.sums = AllSums
    BY <2>1, <2>3, SetFacts
  <2> QED
    BY <2>2, <2>4 DEF Intact, IsRequest
<1> QED
  BY <1>1, <1>2

\* What Arrives adds.
LEMMA ArrivesFacts ==
  ASSUME NEW packets, Arrives(packets), \A q \in packets : q.body.kind = "data" => Intact(q)
  PROVE  \A r \in pending' : r \in pending \/ Arrived(r.packet)
BY DEF Arrives, Arrived

\* A redirect takes what comes from the connection's own address and port.
LEMMA RedirectTakes ==
  ASSUME NEW k, NEW p, k.ClientIp = p.src, k.ClientPort = p.sport, config.Mode \in Redirect
  PROVE  TakesInbound(k, p)
BY DEF TakesInbound, Redirect

LEMMA ServerReceivesArrive ==
  ASSUME ArriveInv, NEW p, ServerReceives(p)
  PROVE  \A r \in pending' : r \in pending \/ Arrived(r.packet)
<1>1. config \in Configs /\ Tunnelled(p) /\ p.dst = Server
  BY DEF ServerReceives, ArriveInv
<1>2. CASE /\ Captured(ServerFilters, p, FALSE) /\ IsServerConfigForInboundPacket(p)
           /\ config.Mode \notin Sockets
           /\ ServerProcesses(p)
  <2> DEFINE i == InboundIndex(p)
             new == NewServerConnection(p)
  <2>1. \/ i # 0 /\ Arrives(ToService(Connections[i], p))
        \/ TakesInbound(new, p) /\ Arrives(ToService(new, p))
        \/ ~TakesInbound(new, p) /\ Arrives({p})
    BY <1>2 DEF ServerProcesses, InboundIndex
  <2>2. i # 0 => TakesInbound(Connections[i], p)
    BY InboundIndexTakes
  <2> HIDE DEF i
  <2>3. ASSUME NEW k, TakesInbound(k, p), Arrives(ToService(k, p))
        PROVE  \A r \in pending' : r \in pending \/ Arrived(r.packet)
    <3>1. config.Mode \notin Redirect => p.body.kind = "packet"
      BY <2>3 DEF TakesInbound, Carries
    <3> QED
      BY <1>1, <2>3, <3>1, ToServiceIntact, ArrivesFacts
  <2>4. CASE ~TakesInbound(new, p) /\ Arrives({p})
    <3>1. new.ClientIp = p.src /\ new.ClientPort = p.sport
      BY DEF NewServerConnection
    <3> HIDE DEF new
    <3>2. config.Mode \notin Redirect
      BY <2>4, <3>1, RedirectTakes
    <3>3. Intact(p)
      BY <1>1, <3>2 DEF Tunnelled, Intact
    <3> QED
      BY <2>4, <3>3, ArrivesFacts
  <2> HIDE DEF new
  <2> QED
    BY <2>1, <2>2, <2>3, <2>4
<1>3. CASE config.Mode \in Sockets /\ Carries(p) /\ HostReceives(p)
  <2>1. PICK k : Arrives(ToService(k, p))
    BY <1>3 DEF HostReceives
  <2>2. p.body.kind = "packet"
    BY <1>3 DEF Carries
  <2> QED
    BY <1>1, <2>1, <2>2, ToServiceIntact, ArrivesFacts
<1>4. CASE /\ ~(Captured(ServerFilters, p, FALSE) /\ IsServerConfigForInboundPacket(p)
                /\ config.Mode \notin Sockets)
           /\ Arrives({p})
  <2>1. ~IsRequest(p)
    <3> SUFFICES ASSUME IsRequest(p) PROVE FALSE
      OBVIOUS
    <3>1. /\ config.Mode \in Redirect
          /\ Captured(ServerFilters, p, FALSE) /\ IsServerConfigForInboundPacket(p)
      BY <1>1, RedirectIsTaken
    <3> QED
      BY <1>4, <3>1 DEF Redirect, Sockets
  <2> QED
    BY <1>4, <2>1, ArrivesFacts DEF Intact
<1> QED
  BY <1>2, <1>3, <1>4 DEF ServerReceives

\* Answers are no requests, whatever carries them.
LEMMA ReplyTunnelled ==
  ASSUME NEW r, NEW k
  PROVE  /\ Tunnelled(Reply(r))
         /\ \A q \in ServerSends(k, Reply(r)) : Tunnelled(q)
<1> DEFINE p == Reply(r)
<1>1. IsPacket(p) /\ p.body.kind = "data" /\ p.body.reply = TRUE
  BY DEF Reply, IsPacket, PacketFields
<1> HIDE DEF p
<1>2. IsPacket(ForClient(k, p)) /\ ForClient(k, p).body = p.body
  <2> DEFINE s == SetDesIp(p, k.ClientLocalIp)
  <2>1. IsPacket(s) /\ s.body = p.body
    BY <1>1, SetFacts
  <2> HIDE DEF s
  <2>2. IsPacket(RecalculateChecksum(s)) /\ RecalculateChecksum(s).body = s.body
    BY <2>1, SetFacts
  <2>3. ForClient(k, p) = RecalculateChecksum(s)
    BY DEF ForClient, s
  <2> QED
    BY <2>1, <2>2, <2>3
<1>3. Intact(ForClient(k, p))
  BY <1>1, <1>2 DEF Intact, IsRequest
<1>4. Tunnelled(p)
  BY <1>1 DEF Tunnelled, IsRequest
<1>5. ASSUME NEW q \in ServerSends(k, p) PROVE Tunnelled(q)
  <2>1. CASE config.Mode \in Redirect
    <3> DEFINE s == SetSrcPort(p, k.TunnelPort)
               d == SetDesIp(s, k.ClientIp)
               e == EncryptPacket(d)
    <3>1. q = RecalculateChecksum(e)
      BY <1>5, <2>1 DEF ServerSends, RedirectAnswers, Redirect
    <3>2. IsPacket(s) /\ s.body = p.body
      BY <1>1, SetFacts
    <3> HIDE DEF s
    <3>3. IsPacket(d) /\ d.body = p.body
      BY <3>2, SetFacts
    <3> HIDE DEF d
    <3>4. IsPacket(e) /\ e.body = p.body
      BY <3>3, CryptFacts
    <3> HIDE DEF e
    <3>5. IsPacket(q) /\ q.body = p.body
      BY <3>1, <3>4, SetFacts
    <3> QED
      BY <1>1, <3>5, NoRequest DEF IsRequest
  <2>2. CASE config.Mode = "UDP-Simple-Tunnel"
    <3>1. q \in SimpleAnswers(k, p)
      BY <1>5, <2>2 DEF ServerSends, Redirect
    <3>2. CASE p.large
      BY <3>1, <3>2 DEF SimpleAnswers
    <3>3. CASE ~p.large
      BY <1>2, <1>3, <3>1, <3>3, WrapTunnelled DEF SimpleAnswers
    <3> QED
      BY <3>2, <3>3
  <2>3. CASE config.Mode = "UDP-Tunnel"
    <3>1. q \in UdpAnswers(k, p)
      BY <1>5, <2>3 DEF ServerSends, Redirect
    <3> QED
      BY <1>2, <1>3, <3>1, WrapTunnelled DEF UdpAnswers
  <2>4. CASE config.Mode \notin Redirect \cup {"UDP-Simple-Tunnel", "UDP-Tunnel"}
    <3>1. q \in SocketAnswers(k, p)
      BY <1>5, <2>4 DEF ServerSends
    <3> QED
      BY <1>2, <1>3, <3>1, WrapTunnelled DEF SocketAnswers
  <2> QED
    BY <2>1, <2>2, <2>3, <2>4
<1> QED
  BY <1>4, <1>5 DEF p

\* A removed connection leaves its requests at the service as they are, and what is
\* still kept was not its.
LEMMA Forgotten ==
  ASSUME NEW ips, Forget(ips), NEW r \in pending'
  PROVE  \E s \in pending :
           /\ r.packet = s.packet /\ r.kept \in BOOLEAN
           /\ r.kept => s.kept /\ s.packet.src \notin ips
<1>1. PICK s \in pending : r = [packet |-> s.packet, kept |-> s.kept /\ s.packet.src \notin ips]
  BY DEF Forget
<1>2. r.packet = s.packet /\ r.kept = (s.kept /\ s.packet.src \notin ips)
  BY <1>1
<1>3. r.kept \in BOOLEAN
  BY <1>2, Zenon
<1> QED
  BY <1>2, <1>3

\* Requests are tunnelled on their way and intact at the service.
LEMMA ArriveInvariant == Spec => []ArriveInv
<1>1. Init => ArriveInv
  <2> SUFFICES ASSUME Init PROVE ArriveInv
    OBVIOUS
  <2>1. /\ config \in Configs /\ net = {} /\ pending = {}
        /\ runs = [c \in Client |-> 0] /\ conns = [c \in Client |-> <<>>]
    BY DEF Init
  <2>2. <<>> \in Seq(ClientConnection)
    OBVIOUS
  <2> QED
    BY <2>1, <2>2 DEF ArriveInv
<1>2. ArriveInv /\ [Next]_vars => ArriveInv'
  <2> SUFFICES ASSUME ArriveInv, [Next]_vars PROVE ArriveInv'
    OBVIOUS
  <2>1. ASSUME NEW c \in Client, NEW f \in Flow, AppSends(c, f) PROVE ArriveInv'
    BY <2>1, AppSendsArrive
  <2>2. ASSUME config' = config
        PROVE  /\ ClientConnection' = ClientConnection
               /\ \A x : (Tunnelled(x)' <=> Tunnelled(x)) /\ (Arrived(x)' <=> Arrived(x))
    BY <2>2 DEF ClientConnection, Tunnelled, Arrived, Intact, IsRequest, Grabs, TooLarge
  <2>3. ASSUME UNCHANGED <<config, runs, conns>>,
               \A p \in net' : p \in net \/ Tunnelled(p),
               \A r \in pending' : r \in pending \/ Arrived(r.packet)
        PROVE  ArriveInv'
    BY <2>2, <2>3 DEF ArriveInv
  <2>4. ASSUME NEW c \in Client, ClientRestarts(c) PROVE ArriveInv'
    <3>1. /\ UNCHANGED <<config, net, pending>>
          /\ runs' = [runs EXCEPT ![c] = @ + 1] /\ conns' = [conns EXCEPT ![c] = <<>>]
      BY <2>4 DEF ClientRestarts, fixed, serverVars
    <3>2. runs' \in [Client -> Nat] /\ conns' \in [Client -> Seq(ClientConnection)]
      <4>1. <<>> \in Seq(ClientConnection)
        OBVIOUS
      <4>2. conns' \in [Client -> Seq(ClientConnection)]
        BY <3>1, <4>1 DEF ArriveInv
      <4>3. runs' \in [Client -> Nat]
        BY <3>1 DEF ArriveInv
      <4> QED
        BY <4>2, <4>3
    <3> QED
      BY <2>2, <3>1, <3>2 DEF ArriveInv
  <2>5. ASSUME NEW p \in net, ServerReceives(p) PROVE ArriveInv'
    <3>1. UNCHANGED <<config, runs, conns>> /\ net' \subseteq net
      BY <2>5 DEF ServerReceives, fixed, clientVars
    <3> QED
      BY <2>3, <2>5, <3>1, ServerReceivesArrive
  <2>6. ASSUME NEW p \in net, NEW c \in Client, ClientReceives(c, p) PROVE ArriveInv'
    BY <2>3, <2>6 DEF ClientReceives, fixed, serverVars
  <2>7. ASSUME NEW r \in pending, ServiceReplies(r) PROVE ArriveInv'
    <3>1. UNCHANGED <<config, runs, conns>> /\ pending' \subseteq pending
      BY <2>7 DEF ServiceReplies, fixed, clientVars
    <3>2. net' = net \/ \E q : net' = net \cup {q} /\ Tunnelled(q)
      BY <2>7, ReplyTunnelled DEF ServiceReplies
    <3> QED
      BY <2>3, <3>1, <3>2
  <2>8. ASSUME NEW i \in DOMAIN Connections, ServerTimeout(i) PROVE ArriveInv'
    <3>1. UNCHANGED <<config, runs, conns, net>> /\ Forget({Connections[i].VirtualIp})
      BY <2>8 DEF ServerTimeout, fixed, clientVars
    <3>2. \A r \in pending' : Arrived(r.packet)
      BY <3>1, Forgotten DEF ArriveInv
    <3> QED
      BY <2>3, <3>1, <3>2
  <2>9. CASE ServerRestarts
    <3>1. /\ UNCHANGED <<config, runs, conns, net>>
          /\ Forget({Connections[i].VirtualIp : i \in DOMAIN Connections})
      BY <2>9 DEF ServerRestarts, fixed, clientVars
    <3>2. \A r \in pending' : Arrived(r.packet)
      BY <3>1, Forgotten DEF ArriveInv
    <3> QED
      BY <2>3, <3>1, <3>2
  <2>10. CASE UNCHANGED vars
    BY <2>3, <2>10 DEF vars
  <2> QED
    BY <2>1, <2>4, <2>5, <2>6, <2>7, <2>8, <2>9, <2>10 DEF Next
<1> QED
  BY <1>1, <1>2, PTL DEF Spec

\* What ProcessOutboundPacket of a client's connection does to a request, that of
\* the server's undoes: the service gets what the application sent, in every mode
\* and for any configurations, filters, flows and clients.
THEOREM IntactCorrect == Spec => []ArrivesIntact
<1>1. ArriveInv => ArrivesIntact
  BY DEF ArriveInv, ArrivesIntact, Arrived, Intact, IsRequest
<1> QED
  BY <1>1, ArriveInvariant, PTL

-----------------------------------------------------------------------------
(* The owners of addresses, ports and sessions *)

\* OwnersInv follows a request and its answer through the network, the server's
\* connections and the service, and says at each place which client they are of.

\* The address and the port of a client as the network sees them.
OuterIp(c) == IF NatIndex[c] = 0 THEN LocalIp[c] ELSE NatIp
OuterPort(c, proto, port) ==
  IF NatIndex[c] # 0 /\ HasPorts(proto) THEN NatPort(c, port) ELSE port
\* What is sent to the address and port reaches the client.
Reaches(c, ip, port) == ip = OuterIp(c) /\ (NatIndex[c] # 0 => port \div 100 = NatIndex[c])
\* An address the server may give to a connection.
IsVirtual(ip) == \E i \in Indices(range, MaxVirtualIps) : ip = range.StartIp + i
\* What the tunnel has to carry.
Carriable(f) == Grabs(f) /\ ~TooLarge(f)
\* The modes whose packets name a session.
Sessions == Sockets \cup {"UDP-Tunnel"}

\* A request, wherever it is.
Asked(p) ==
  /\ p \in DataPacket /\ ~p.body.reply /\ p.dst = Server
  /\ p.proto = FlowData[p.body.flow].proto
\* A request as an application sent it, or as a redirect changed it.
ThereData(p) ==
  /\ Asked(p) /\ p.src = OuterIp(p.body.from)
  /\ p.sport = OuterPort(p.body.from, p.proto, FlowData[p.body.flow].sport)
  /\ p.enc \in 0 .. 1 /\ (config.Mode \notin Redirect => p.enc = 0)
\* A request in a packet of the tunnel.
ThereTunnel(p) ==
  LET m == p.body.packet IN
  /\ p.body.kind = "packet" /\ p.proto \in {"TCP", "UDP"} /\ p.dst = Server
  /\ p.sport \in Nat /\ p.dport \in Nat
  /\ Asked(m) /\ m.src = LocalIp[m.body.from] /\ m.enc = 0 /\ m.sums = AllSums
  /\ Reaches(m.body.from, p.src, p.sport)
  /\ config.Mode \in Sessions => p.body.session \in {m.body.from} \X Nat
\* An answer on its way back, as the service or a redirect sent it: when it is kept
\* and for a client, it is for the one that asked, and encrypted if the tunnel has
\* to carry it.
BackData(p) ==
  /\ p \in DataPacket /\ p.body.reply /\ p.dst # Server /\ p.enc \in -1 .. 2
  /\ p.body.kept /\ ~IsVirtual(p.dst) =>
       /\ p.dst = OuterIp(p.body.from)
       /\ HasPorts(p.proto) => Reaches(p.body.from, p.dst, p.dport)
       /\ Carriable(p.body.flow) =>
            /\ config.Mode \in Redirect /\ p.src = Server /\ p.enc = 1
            /\ p.sport \in AllPorts(config.TunnelPorts)
            /\ p.proto = FlowData[p.body.flow].proto
            /\ p.dport = OuterPort(p.body.from, p.proto, FlowData[p.body.flow].sport)
\* An answer in a packet of the tunnel.
BackTunnel(p) ==
  LET m == p.body.packet IN
  /\ p.body.kind = "packet" /\ p.proto \in {"TCP", "UDP"} /\ p.dst # Server
  /\ m \in DataPacket /\ m.body.reply
  /\ m.body.kept =>
       /\ Reaches(m.body.from, p.dst, p.dport)
       /\ m.src = Server /\ m.dst = LocalIp[m.body.from] /\ m.enc = 0
\* A request at the service: one that no connection took, or that has the address
\* of its connection.
Waits(p) ==
  /\ Asked(p) /\ p.enc \in -1 .. 1 /\ (config.Mode \notin Redirect => p.enc = 0)
  /\ \/ /\ p.src = OuterIp(p.body.from) /\ ~Carriable(p.body.flow)
        /\ p.sport = OuterPort(p.body.from, p.proto, FlowData[p.body.flow].sport)
     \/ /\ p.src = 0 \/ IsVirtual(p.src)
        /\ Carriable(p.body.flow) => p.enc = 0
        /\ config.Mode \in Redirect =>
             /\ HasPorts(p.proto)
             /\ p.sport = OuterPort(p.body.from, p.proto, FlowData[p.body.flow].sport)
\* A connection of the server is the client's.
Owns(c, k) ==
  /\ Reaches(c, k.ClientIp, k.ClientPort)
  /\ config.Mode \notin Redirect => k.ClientLocalIp = LocalIp[c]
  /\ config.Mode \in Sessions => k.Session \in {c} \X Nat
  /\ \A i \in DOMAIN k.Ports : Reaches(c, k.ClientIp, k.Ports[i][2])

ServerConnection ==
  [ClientIp : Nat, VirtualIp : Nat, ClientPort : Nat, TunnelPort : Nat, LocalIp : {Server},
   ClientLocalIp : Nat, Session : {<<>>} \cup (Client \X Nat), Ports : Seq(Nat \X Nat),
   NextPort : 0 .. MaxPorts - 1]
IsConnection(k) ==
  /\ k \in ServerConnection /\ Len(k.Ports) <= MaxPorts
  /\ config.Mode \in Redirect => k.TunnelPort \in AllPorts(config.TunnelPorts)
  /\ \E c \in Client : Owns(c, k)

\* A connection of this run of the client.
OwnConnection(c) == {k \in ClientConnection : k.ClientPort \in 0 .. 99 /\ k.Session = <<c, runs[c]>>}
ClientsInv ==
  /\ runs \in [Client -> Nat] /\ restarts \in Nat
  /\ conns \in [Client -> Seq(ClientConnection)]
  /\ asked \in [Client -> SUBSET (Flow \X Nat)] /\ got \in [Client -> SUBSET DataPacket]
  /\ \A c \in Client : conns[c] \in Seq(OwnConnection(c)) /\ asked[c] \subseteq Flow \X (0 .. runs[c])

\* The parts of the invariant: the clients, the network, the requests at the
\* service, the server's list, and what applications got.
NetInv ==
  \A p \in net : ThereData(p) \/ ThereTunnel(p) \/ BackData(p) \/ BackTunnel(p)
\* As long as the connection is kept that gave the request its address, the address
\* is that of a connection of the client that asked.
Served(r, connections) ==
  r.kept /\ r.packet.src # 0 /\ IsVirtual(r.packet.src) =>
    \E i \in DOMAIN connections :
      /\ connections[i].VirtualIp = r.packet.src /\ Owns(r.packet.body.from, connections[i])
      /\ config.Mode \in Redirect => connections[i].ClientPort = r.packet.sport
PendingInv ==
  \A r \in pending :
    r.kept \in BOOLEAN /\ Waits(r.packet) /\ Served(r, Connections)
\* Addresses come from those in use, and no two connections have the same.
HasAddress(k, used) == k.VirtualIp = 0 \/ \E n \in used : k.VirtualIp = range.StartIp + n
Apart(connections) ==
  \A i, j \in DOMAIN connections :
    connections[i].VirtualIp = connections[j].VirtualIp => i = j \/ connections[i].VirtualIp = 0
ConnectionsOf(connections, used) ==
  /\ connections \in Seq(ServerConnection)
  /\ used \subseteq Indices(range, MaxVirtualIps)
  /\ \A i \in DOMAIN connections : IsConnection(connections[i]) /\ HasAddress(connections[i], used)
  /\ Apart(connections)
ConnectionsInv == ConnectionsOf(Connections, VirtualIps)
GotInv ==
  \A c \in Client : \A p \in got[c] :
    /\ p \in DataPacket
    /\ p.body.kept =>
         /\ p.body.from = c
         /\ Carriable(p.body.flow) => p.src = Server /\ p.dst = LocalIp[c] /\ p.enc = 0 /\ p.sums = AllSums
OwnersInv ==
  /\ config \in Configs /\ range \in Ranges
  /\ ClientsInv /\ NetInv /\ PendingInv /\ ConnectionsInv /\ GotInv

-----------------------------------------------------------------------------
(* Addresses *)

\* A port below 100 and the number of a client behind the NAT can be told apart.
LEMMA Fits ==
  ASSUME NEW n \in Nat, NEW port \in 0 .. 99
  PROVE  /\ 100 * n + port \in Nat
         /\ (100 * n + port) \div 100 = n /\ (100 * n + port) % 100 = port
OBVIOUS

\* The address a client has on the network is neither 0 nor the server's.
LEMMA OuterFacts ==
  ASSUME NEW c \in Client
  PROVE  /\ NatIndex[c] \in Nat /\ LocalIp[c] \in Nat
         /\ OuterIp(c) \in Nat /\ OuterIp(c) # 0 /\ OuterIp(c) # Server
<1>1. NatIndex[c] \in Nat /\ LocalIp[c] \in Nat
  BY RouteAssumption, AddressAssumption
<1>2. OuterIp(c) \in {NatIp} \cup {LocalIp[d] : d \in {d \in Client : NatIndex[d] = 0}}
  BY DEF OuterIp
<1> QED
  BY <1>1, <1>2, AddressAssumption

\* A virtual address is no client's and not the server's.
LEMMA VirtualFacts ==
  ASSUME range \in Ranges, NEW ip, IsVirtual(ip)
  PROVE  ip \in Nat /\ ip # Server /\ \A c \in Client : ip # OuterIp(c)
<1>1. PICK i \in Indices(range, MaxVirtualIps) : ip = range.StartIp + i
  BY DEF IsVirtual
<1>2. /\ range.StartIp \in Nat /\ ip # Server
      /\ ip \notin {NatIp} \cup {LocalIp[d] : d \in {d \in Client : NatIndex[d] = 0}}
  BY <1>1, AddressAssumption
<1>3. i \in Nat
  BY <1>1 DEF Indices
<1> QED
  BY <1>1, <1>2, <1>3 DEF OuterIp

\* Clients with the same number differ in their addresses.
LEMMA ClientsDiffer ==
  ASSUME NEW c \in Client, NEW d \in Client, NatIndex[c] = NatIndex[d], OuterIp(c) = OuterIp(d)
  PROVE  c = d
<1>1. CASE NatIndex[c] = 0
  BY <1>1, AddressAssumption DEF OuterIp
<1>2. CASE NatIndex[c] # 0
  BY <1>2, AddressAssumption
<1> QED
  BY <1>1, <1>2

\* An address belongs to one client that is not behind the NAT, or to the NAT.
LEMMA OwnAddress ==
  ASSUME NEW c \in Client, NEW d \in Client, OuterIp(c) = OuterIp(d)
  PROVE  NatIndex[c] = 0 <=> NatIndex[d] = 0
BY AddressAssumption DEF OuterIp

\* An address and a port are those of one client.
LEMMA OneClient ==
  ASSUME NEW c \in Client, NEW d \in Client, NEW ip, NEW port,
         Reaches(c, ip, port), Reaches(d, ip, port)
  PROVE  c = d
<1>1. OuterIp(c) = OuterIp(d)
  BY DEF Reaches
<1>2. NatIndex[c] = NatIndex[d]
  BY <1>1, OwnAddress DEF Reaches
<1> QED
  BY <1>1, <1>2, ClientsDiffer

\* A packet goes to the client it is for.
LEMMA ReceiverIs ==
  ASSUME NEW p, NEW c \in Receivers(p)
  PROVE  /\ c \in Client /\ p.dst = OuterIp(c)
         /\ NatIndex[c] # 0 => HasPorts(p.proto) /\ p.dport \div 100 = NatIndex[c]
         /\ \A d \in Client : p.dst = OuterIp(d) /\ (HasPorts(p.proto) => Reaches(d, p.dst, p.dport)) => c = d
<1>1. /\ c \in Client /\ p.dst = OuterIp(c)
      /\ NatIndex[c] # 0 => HasPorts(p.proto) /\ p.dport \div 100 = NatIndex[c]
  BY DEF Receivers, OuterIp
<1>2. ASSUME NEW d \in Client, p.dst = OuterIp(d), HasPorts(p.proto) => Reaches(d, p.dst, p.dport)
      PROVE  c = d
  <2>1. CASE NatIndex[c] = 0
    BY <1>1, <1>2, <2>1, OwnAddress, ClientsDiffer
  <2>2. CASE NatIndex[c] # 0
    <3>1. Reaches(c, p.dst, p.dport) /\ Reaches(d, p.dst, p.dport)
      BY <1>1, <1>2, <2>2 DEF Reaches
    <3> QED
      BY <1>1, <3>1, OneClient
  <2> QED
    BY <2>1, <2>2
<1> QED
  BY <1>1, <1>2

\* The ports of applications and of the tunnel are below 100.
LEMMA FlowPort ==
  ASSUME NEW f \in Flow
  PROVE  FlowData[f].sport \in 0 .. 99
BY FlowType, AddressAssumption

LEMMA TunnelPortFacts ==
  ASSUME config \in Configs, NEW port \in AllPorts(config.TunnelPorts)
  PROVE  port \in 0 .. 99
BY PortInRange, AddressAssumption

\* The NAT's port and back.
LEMMA OuterPortFacts ==
  ASSUME NEW c \in Client, NEW proto, NEW port \in 0 .. 99
  PROVE  /\ OuterPort(c, proto, port) \in Nat
         /\ HasPorts(proto) => Reaches(c, OuterIp(c), OuterPort(c, proto, port))
         /\ NatIndex[c] # 0 /\ HasPorts(proto) => OuterPort(c, proto, port) % 100 = port
         /\ NatIndex[c] = 0 \/ ~HasPorts(proto) => OuterPort(c, proto, port) = port
<1>1. NatIndex[c] \in Nat
  BY OuterFacts
<1> DEFINE given == 100 * NatIndex[c] + port
<1>2. given \in Nat /\ given \div 100 = NatIndex[c] /\ given % 100 = port
  BY <1>1, Fits
<1>3. OuterPort(c, proto, port) = IF NatIndex[c] # 0 /\ HasPorts(proto) THEN given ELSE port
  BY DEF OuterPort, NatPort
<1> HIDE DEF given
<1>4. port \in Nat
  OBVIOUS
<1> QED
  BY <1>2, <1>3, <1>4 DEF Reaches

-----------------------------------------------------------------------------
(* What the operations of a packet give *)

\* The types of a packet's fields.
LEMMA DataFields ==
  ASSUME NEW p \in DataPacket
  PROVE  /\ p.src \in Nat /\ p.dst \in Nat /\ p.proto \in Protocol /\ p.sport \in Nat /\ p.dport \in Nat
         /\ p.enc \in -2 .. 2 /\ p.large \in BOOLEAN /\ p.sums \in SUBSET AllSums
         /\ p.body.kind = "data" /\ p.body.from \in Client /\ p.body.flow \in Flow
         /\ p.body.run \in Nat /\ p.body.reply \in BOOLEAN /\ p.body.kept \in BOOLEAN
         /\ p.body \in Body
BY DEF DataPacket, Body

\* What the operations on packets change, and that they give packets again
\* (PacketHelper's Set..., RecalculateChecksum, CryptPacket and the NAT).
LEMMA SetSrcIpData ==
  ASSUME NEW p \in DataPacket, NEW x \in Nat
  PROVE  LET q == SetSrcIp(p, x) IN
         /\ q \in DataPacket /\ q.src = x /\ q.dst = p.dst /\ q.proto = p.proto
         /\ q.sport = p.sport /\ q.dport = p.dport /\ q.enc = p.enc /\ q.large = p.large
         /\ q.body = p.body
<1> DEFINE sums == IF x = p.src THEN p.sums ELSE {}
           q == [p EXCEPT !.src = x, !.sums = sums]
<1>1. SetSrcIp(p, x) = q
  BY DEF SetSrcIp
<1>2. sums \in SUBSET AllSums
  BY DataFields
<1> HIDE DEF sums
<1>3. /\ q \in DataPacket /\ q.src = x /\ q.dst = p.dst /\ q.proto = p.proto
      /\ q.sport = p.sport /\ q.dport = p.dport /\ q.enc = p.enc /\ q.large = p.large
      /\ q.body = p.body
  BY <1>2 DEF DataPacket
<1> QED
  BY <1>1, <1>3

LEMMA SetDesIpData ==
  ASSUME NEW p \in DataPacket, NEW x \in Nat
  PROVE  LET q == SetDesIp(p, x) IN
         /\ q \in DataPacket /\ q.src = p.src /\ q.dst = x /\ q.proto = p.proto
         /\ q.sport = p.sport /\ q.dport = p.dport /\ q.enc = p.enc /\ q.large = p.large
         /\ q.body = p.body
<1> DEFINE sums == IF x = p.dst THEN p.sums ELSE {}
           q == [p EXCEPT !.dst = x, !.sums = sums]
<1>1. SetDesIp(p, x) = q
  BY DEF SetDesIp
<1>2. sums \in SUBSET AllSums
  BY DataFields
<1> HIDE DEF sums
<1>3. /\ q \in DataPacket /\ q.src = p.src /\ q.dst = x /\ q.proto = p.proto
      /\ q.sport = p.sport /\ q.dport = p.dport /\ q.enc = p.enc /\ q.large = p.large
      /\ q.body = p.body
  BY <1>2 DEF DataPacket
<1> QED
  BY <1>1, <1>3

LEMMA SetSrcPortData ==
  ASSUME NEW p \in DataPacket, NEW x \in Nat
  PROVE  LET q == SetSrcPort(p, x) IN
         /\ q \in DataPacket /\ q.src = p.src /\ q.dst = p.dst /\ q.proto = p.proto
         /\ q.sport = x /\ q.dport = p.dport /\ q.enc = p.enc /\ q.large = p.large
         /\ q.body = p.body
<1> DEFINE sums == IF x = p.sport THEN p.sums ELSE p.sums \ {"transport"}
           q == [p EXCEPT !.sport = x, !.sums = sums]
<1>1. SetSrcPort(p, x) = q
  BY DEF SetSrcPort
<1>2. sums \in SUBSET AllSums
  BY DataFields
<1> HIDE DEF sums
<1>3. /\ q \in DataPacket /\ q.src = p.src /\ q.dst = p.dst /\ q.proto = p.proto
      /\ q.sport = x /\ q.dport = p.dport /\ q.enc = p.enc /\ q.large = p.large
      /\ q.body = p.body
  BY <1>2 DEF DataPacket
<1> QED
  BY <1>1, <1>3

LEMMA SetDesPortData ==
  ASSUME NEW p \in DataPacket, NEW x \in Nat
  PROVE  LET q == SetDesPort(p, x) IN
         /\ q \in DataPacket /\ q.src = p.src /\ q.dst = p.dst /\ q.proto = p.proto
         /\ q.sport = p.sport /\ q.dport = x /\ q.enc = p.enc /\ q.large = p.large
         /\ q.body = p.body
<1> DEFINE sums == IF x = p.dport THEN p.sums ELSE p.sums \ {"transport"}
           q == [p EXCEPT !.dport = x, !.sums = sums]
<1>1. SetDesPort(p, x) = q
  BY DEF SetDesPort
<1>2. sums \in SUBSET AllSums
  BY DataFields
<1> HIDE DEF sums
<1>3. /\ q \in DataPacket /\ q.src = p.src /\ q.dst = p.dst /\ q.proto = p.proto
      /\ q.sport = p.sport /\ q.dport = x /\ q.enc = p.enc /\ q.large = p.large
      /\ q.body = p.body
  BY <1>2 DEF DataPacket
<1> QED
  BY <1>1, <1>3

LEMMA ChecksumData ==
  ASSUME NEW p \in DataPacket
  PROVE  LET q == RecalculateChecksum(p) IN
         /\ q \in DataPacket /\ q.src = p.src /\ q.dst = p.dst /\ q.proto = p.proto
         /\ q.sport = p.sport /\ q.dport = p.dport /\ q.enc = p.enc /\ q.large = p.large
         /\ q.body = p.body /\ q.sums = AllSums
BY DEF DataPacket, RecalculateChecksum

LEMMA EncryptData ==
  ASSUME NEW p \in DataPacket, p.enc < 2
  PROVE  LET q == EncryptPacket(p) IN
         /\ q \in DataPacket /\ q.src = p.src /\ q.dst = p.dst /\ q.proto = p.proto
         /\ q.sport = p.sport /\ q.dport = p.dport /\ q.large = p.large
         /\ q.body = p.body
         /\ q.enc = IF HasPorts(p.proto) THEN p.enc + 1 ELSE p.enc
<1> DEFINE q == [p EXCEPT !.enc = p.enc + 1]
<1>1. /\ q \in DataPacket /\ q.src = p.src /\ q.dst = p.dst /\ q.proto = p.proto
      /\ q.sport = p.sport /\ q.dport = p.dport /\ q.large = p.large
      /\ q.body = p.body /\ q.enc = p.enc + 1
  <2>1. p.enc + 1 \in -2 .. 2
    BY DataFields
  <2> QED
    BY <2>1 DEF DataPacket
<1>2. EncryptPacket(p) = IF HasPorts(p.proto) THEN RecalculateChecksum(q) ELSE p
  BY DEF EncryptPacket
<1> HIDE DEF q
<1> QED
  BY <1>1, <1>2, ChecksumData

LEMMA DecryptData ==
  ASSUME NEW p \in DataPacket, p.enc > -2
  PROVE  LET q == DecryptPacket(p) IN
         /\ q \in DataPacket /\ q.src = p.src /\ q.dst = p.dst /\ q.proto = p.proto
         /\ q.sport = p.sport /\ q.dport = p.dport /\ q.large = p.large
         /\ q.body = p.body
         /\ q.enc = IF HasPorts(p.proto) THEN p.enc - 1 ELSE p.enc
<1> DEFINE q == [p EXCEPT !.enc = p.enc - 1]
<1>1. /\ q \in DataPacket /\ q.src = p.src /\ q.dst = p.dst /\ q.proto = p.proto
      /\ q.sport = p.sport /\ q.dport = p.dport /\ q.large = p.large
      /\ q.body = p.body /\ q.enc = p.enc - 1
  <2>1. p.enc - 1 \in -2 .. 2
    BY DataFields
  <2> QED
    BY <2>1 DEF DataPacket
<1>2. DecryptPacket(p) = IF HasPorts(p.proto) THEN RecalculateChecksum(q) ELSE p
  BY DEF DecryptPacket
<1> HIDE DEF q
<1> QED
  BY <1>1, <1>2, ChecksumData

\* The NAT.
LEMMA NattedData ==
  ASSUME NEW p \in DataPacket, NEW c \in Client, p.src = LocalIp[c], p.sport \in 0 .. 99
  PROVE  LET q == Natted(c, p) IN
         /\ q \in DataPacket /\ q.src = OuterIp(c) /\ q.dst = p.dst /\ q.proto = p.proto
         /\ q.sport = OuterPort(c, p.proto, p.sport) /\ q.dport = p.dport /\ q.enc = p.enc
         /\ q.large = p.large /\ q.body = p.body
<1> DEFINE port == OuterPort(c, p.proto, p.sport)
           q == [p EXCEPT !.src = NatIp, !.sport = port]
<1>1. CASE NatIndex[c] = 0
  BY <1>1 DEF Natted, OuterIp, OuterPort
<1>2. CASE NatIndex[c] # 0
  <2>1. Natted(c, p) = q
    BY <1>2 DEF Natted, OuterPort
  <2>2. port \in Nat /\ NatIp \in Nat
    BY OuterPortFacts, AddressAssumption
  <2> HIDE DEF port
  <2>3. /\ q \in DataPacket /\ q.src = NatIp /\ q.dst = p.dst /\ q.proto = p.proto
        /\ q.sport = port /\ q.dport = p.dport /\ q.enc = p.enc
        /\ q.large = p.large /\ q.body = p.body
    BY <2>2 DEF DataPacket
  <2>4. OuterIp(c) = NatIp
    BY <1>2 DEF OuterIp
  <2> QED
    BY <2>1, <2>3, <2>4 DEF port
<1> QED
  BY <1>1, <1>2

LEMMA UnnattedData ==
  ASSUME NEW p \in DataPacket, NEW c \in Client, p.dst = OuterIp(c)
  PROVE  LET q == Unnatted(c, p) IN
         /\ q \in DataPacket /\ q.src = p.src /\ q.dst = LocalIp[c] /\ q.proto = p.proto
         /\ q.sport = p.sport /\ q.enc = p.enc /\ q.large = p.large /\ q.body = p.body
         /\ q.dport = IF NatIndex[c] = 0 THEN p.dport ELSE p.dport % 100
<1> DEFINE port == p.dport % 100
           q == [p EXCEPT !.dst = LocalIp[c], !.dport = port]
<1>1. CASE NatIndex[c] = 0
  BY <1>1 DEF Unnatted, OuterIp
<1>2. CASE NatIndex[c] # 0
  <2>1. Unnatted(c, p) = q
    BY <1>2 DEF Unnatted
  <2>2. port \in Nat /\ LocalIp[c] \in Nat
    BY DataFields, OuterFacts
  <2> HIDE DEF port
  <2>3. /\ q \in DataPacket /\ q.src = p.src /\ q.dst = LocalIp[c] /\ q.proto = p.proto
        /\ q.sport = p.sport /\ q.dport = port /\ q.enc = p.enc
        /\ q.large = p.large /\ q.body = p.body
    BY <2>2 DEF DataPacket
  <2> QED
    BY <1>2, <2>1, <2>3 DEF port
<1> QED
  BY <1>1, <1>2

\* A packet that carries another, behind the NAT.
LEMMA WrapFacts ==
  ASSUME NEW p, NEW session, NEW protocol, NEW src, NEW dst, NEW sport, NEW dport
  PROVE  LET w == Wrap(p, session, protocol, src, dst, sport, dport) IN
         /\ IsPacket(w) /\ w.src = src /\ w.dst = dst /\ w.proto = protocol /\ w.sport = sport
         /\ w.dport = dport /\ w.enc = 1 /\ w.body.kind = "packet"
         /\ w.body.session = session /\ w.body.packet = p
BY DEF Wrap, IsPacket, PacketFields

LEMMA NattedFacts ==
  ASSUME NEW p, IsPacket(p), NEW c \in Client, p.src = LocalIp[c], p.sport \in 0 .. 99, HasPorts(p.proto)
  PROVE  LET q == Natted(c, p) IN
         /\ q.dst = p.dst /\ q.proto = p.proto /\ q.dport = p.dport /\ q.enc = p.enc /\ q.body = p.body
         /\ q.sport \in Nat /\ Reaches(c, q.src, q.sport)
<1> DEFINE port == OuterPort(c, p.proto, p.sport)
           q == [p EXCEPT !.src = NatIp, !.sport = port]
<1>1. port \in Nat /\ Reaches(c, OuterIp(c), port)
  BY OuterPortFacts
<1>2. CASE NatIndex[c] = 0
  <2>1. Natted(c, p) = p /\ OuterIp(c) = p.src /\ port = p.sport
    BY <1>2 DEF Natted, OuterIp, OuterPort
  <2> HIDE DEF port
  <2> QED
    BY <1>1, <2>1
<1>3. CASE NatIndex[c] # 0
  <2>1. Natted(c, p) = q /\ OuterIp(c) = NatIp
    BY <1>3 DEF Natted, OuterPort, OuterIp
  <2> HIDE DEF port
  <2>2. /\ q.src = NatIp /\ q.dst = p.dst /\ q.proto = p.proto
        /\ q.sport = port /\ q.dport = p.dport /\ q.enc = p.enc /\ q.body = p.body
    BY DEF IsPacket, PacketFields
  <2> QED
    BY <1>1, <2>1, <2>2
<1> QED
  BY <1>2, <1>3

-----------------------------------------------------------------------------
(* What a client sends *)

\* What an application sends.
LEMMA RequestData ==
  ASSUME NEW c \in Client, NEW f \in Flow, runs[c] \in Nat
  PROVE  LET p == Request(c, f) IN
         /\ p \in DataPacket /\ Asked(p) /\ p.src = LocalIp[c] /\ p.sport = FlowData[f].sport
         /\ p.dport = FlowData[f].dport /\ p.proto = FlowData[f].proto /\ p.dst = Server
         /\ p.large = FlowData[f].large /\ p.enc = 0 /\ p.sums = AllSums
         /\ p.body.from = c /\ p.body.flow = f /\ p.body.run = runs[c] /\ p.sport \in 0 .. 99
<1> DEFINE p == Request(c, f)
<1>1. LocalIp[c] \in Nat /\ Server \in Nat /\ FlowData[f].sport \in 0 .. 99
  BY OuterFacts, FlowPort, RouteAssumption
<1>2. /\ FlowData[f].proto \in Protocol /\ FlowData[f].sport \in Nat /\ FlowData[f].dport \in Nat
      /\ FlowData[f].large \in BOOLEAN
  BY RouteAssumption
<1>3. p.body \in Body
  BY DEF Request, Body
<1>4. p \in DataPacket
  BY <1>1, <1>2, <1>3 DEF Request, DataPacket
<1>5. /\ p.src = LocalIp[c] /\ p.sport = FlowData[f].sport
      /\ p.dport = FlowData[f].dport /\ p.proto = FlowData[f].proto /\ p.dst = Server
      /\ p.large = FlowData[f].large /\ p.enc = 0 /\ p.sums = AllSums
      /\ p.body.from = c /\ p.body.flow = f /\ p.body.run = runs[c] /\ p.body.reply = FALSE
  BY DEF Request
<1> HIDE DEF p
<1>6. Asked(p)
  BY <1>4, <1>5 DEF Asked
<1> QED
  BY <1>1, <1>4, <1>5, <1>6 DEF p

\* The request as it is.
LEMMA RequestThere ==
  ASSUME NEW c \in Client, NEW f \in Flow, runs[c] \in Nat
  PROVE  ThereData(Natted(c, Request(c, f)))
<1> DEFINE p == Request(c, f)
           n == Natted(c, p)
<1>1. /\ p \in DataPacket /\ Asked(p) /\ p.src = LocalIp[c] /\ p.sport = FlowData[f].sport
      /\ p.enc = 0 /\ p.body.from = c /\ p.body.flow = f /\ p.sport \in 0 .. 99
  BY RequestData
<1> HIDE DEF p
<1>2. /\ n \in DataPacket /\ n.src = OuterIp(c) /\ n.dst = p.dst /\ n.proto = p.proto
      /\ n.sport = OuterPort(c, p.proto, p.sport) /\ n.enc = p.enc /\ n.body = p.body
  BY <1>1, NattedData
<1> HIDE DEF n
<1>3. ThereData(n)
  BY <1>1, <1>2 DEF ThereData, Asked
<1> QED
  BY <1>3 DEF n, p

\* A request as a redirect sends it.
LEMMA RedirectThere ==
  ASSUME NEW c \in Client, NEW f \in Flow, runs[c] \in Nat, config.Mode \in Redirect, NEW port \in Nat
  PROVE  ThereData(Natted(c, RecalculateChecksum(EncryptPacket(SetDesPort(Request(c, f), port)))))
<1> DEFINE p == Request(c, f)
           d == SetDesPort(p, port)
           e == EncryptPacket(d)
           q == RecalculateChecksum(e)
           n == Natted(c, q)
<1>1. /\ p \in DataPacket /\ Asked(p) /\ p.src = LocalIp[c] /\ p.sport = FlowData[f].sport
      /\ p.enc = 0 /\ p.body.from = c /\ p.body.flow = f /\ p.sport \in 0 .. 99
  BY RequestData
<1> HIDE DEF p
<1>2. /\ d \in DataPacket /\ d.src = p.src /\ d.dst = p.dst /\ d.proto = p.proto
      /\ d.sport = p.sport /\ d.enc = p.enc /\ d.body = p.body
  BY <1>1, SetDesPortData
<1> HIDE DEF d
<1>3. /\ e \in DataPacket /\ e.src = p.src /\ e.dst = p.dst /\ e.proto = p.proto
      /\ e.sport = p.sport /\ e.enc \in 0 .. 1 /\ e.body = p.body
  <2>1. d.enc < 2
    BY <1>1, <1>2
  <2> QED
    BY <1>1, <1>2, <2>1, EncryptData
<1> HIDE DEF e
<1>4. /\ q \in DataPacket /\ q.src = p.src /\ q.dst = p.dst /\ q.proto = p.proto
      /\ q.sport = p.sport /\ q.enc \in 0 .. 1 /\ q.body = p.body
  BY <1>3, ChecksumData
<1> HIDE DEF q
<1>5. /\ n \in DataPacket /\ n.src = OuterIp(c) /\ n.dst = p.dst /\ n.proto = p.proto
      /\ n.sport = OuterPort(c, p.proto, p.sport) /\ n.enc \in 0 .. 1 /\ n.body = p.body
  <2>1. q.src = LocalIp[c] /\ q.sport \in 0 .. 99
    BY <1>1, <1>4
  <2> QED
    BY <1>4, <2>1, NattedData
<1> HIDE DEF n
<1>6. ThereData(n)
  BY <1>1, <1>5 DEF ThereData, Asked
<1> QED
  BY <1>6 DEF n, q, e, d, p

\* A request in a packet of a tunnel.
LEMMA WrapThere ==
  ASSUME NEW c \in Client, NEW f \in Flow, runs[c] \in Nat, NEW session, NEW protocol \in {"TCP", "UDP"},
         NEW sport \in 0 .. 99, NEW dport \in Nat,
         config.Mode \in Sessions => session \in {c} \X Nat
  PROVE  ThereTunnel(Natted(c, Wrap(Request(c, f), session, protocol, LocalIp[c], Server, sport, dport)))
<1> DEFINE p == Request(c, f)
           w == Wrap(p, session, protocol, LocalIp[c], Server, sport, dport)
           n == Natted(c, w)
<1>1. /\ Asked(p) /\ p.src = LocalIp[c] /\ p.enc = 0 /\ p.sums = AllSums /\ p.body.from = c
  BY RequestData
<1> HIDE DEF p
<1>2. /\ IsPacket(w) /\ w.src = LocalIp[c] /\ w.dst = Server /\ w.proto = protocol /\ w.sport = sport
      /\ w.dport = dport /\ w.enc = 1 /\ w.body.kind = "packet"
      /\ w.body.session = session /\ w.body.packet = p
  BY WrapFacts
<1> HIDE DEF w
<1>3. /\ n.dst = w.dst /\ n.proto = w.proto /\ n.dport = w.dport /\ n.body = w.body
      /\ n.sport \in Nat /\ Reaches(c, n.src, n.sport)
  BY <1>2, NattedFacts DEF HasPorts
<1> HIDE DEF n
<1>4. ThereTunnel(n)
  BY <1>1, <1>2, <1>3 DEF ThereTunnel
<1> QED
  BY <1>4 DEF n, w, p

\* Whatever a client's connection sends comes from the client's address, and from
\* a port of the client's.
LEMMA ClientSendsThere ==
  ASSUME NEW c \in Client, NEW f \in Flow, config \in Configs, runs[c] \in Nat,
         NEW k \in OwnConnection(c), NEW q \in ClientSends(k, Request(c, f))
  PROVE  ThereData(Natted(c, q)) \/ ThereTunnel(Natted(c, q))
<1> DEFINE p == Request(c, f)
<1>0. /\ p.src = LocalIp[c] /\ k \in ClientConnection /\ k.ClientPort \in 0 .. 99
      /\ k.Session \in {c} \X Nat
  BY RequestData DEF OwnConnection
<1>1. CASE config.Mode \in Redirect
  <2>1. q \in RedirectSends(k, p)
    BY <1>1 DEF ClientSends, Redirect
  <2>2. k.TunnelPort \in Nat
    BY <1>0, <1>1, PortInRange DEF ClientConnection
  <2> QED
    BY <1>1, <2>1, <2>2, RedirectThere DEF RedirectSends
<1>2. CASE config.Mode = "UDP-Simple-Tunnel"
  <2>1. q \in SimpleSends(k, p)
    BY <1>2 DEF ClientSends, Redirect
  <2>2. k.TunnelPort \in Nat
    BY <1>0, <1>2, PortInRange DEF ClientConnection
  <2>3. config.Mode \notin Sessions
    BY <1>2 DEF Sessions, Sockets
  <2>4. q = Wrap(p, <<>>, "UDP", LocalIp[c], Server, k.ClientPort, k.TunnelPort)
    BY <1>0, <2>1 DEF SimpleSends
  <2> HIDE DEF p
  <2> QED
    BY <1>0, <2>2, <2>3, <2>4, WrapThere DEF p
<1>3. CASE config.Mode = "UDP-Tunnel"
  <2>1. q \in UdpSends(k, p)
    BY <1>3 DEF ClientSends, Redirect
  <2>2. PICK clientPort, serverPort \in AllPorts(config.TunnelPorts) :
               q = Wrap(p, k.Session, "UDP", LocalIp[c], Server, clientPort, serverPort)
    BY <1>0, <2>1 DEF UdpSends
  <2>3. clientPort \in 0 .. 99 /\ serverPort \in Nat
    BY TunnelPortFacts, PortInRange
  <2> HIDE DEF p
  <2> QED
    BY <1>0, <2>2, <2>3, WrapThere DEF p
<1>4. CASE config.Mode \notin Redirect \cup {"UDP-Simple-Tunnel", "UDP-Tunnel"}
  <2>1. q \in SocketSends(k, p)
    BY <1>4 DEF ClientSends
  <2>2. PICK port \in AllPorts(config.TunnelPorts) :
               q = Wrap(p, k.Session, "TCP", LocalIp[c], Server, 1, port)
    BY <1>0, <2>1 DEF SocketSends
  <2>3. port \in Nat /\ 1 \in 0 .. 99
    BY PortInRange
  <2> HIDE DEF p
  <2> QED
    BY <1>0, <2>2, <2>3, WrapThere DEF p
<1> QED
  BY <1>1, <1>2, <1>3, <1>4

\* What a step adds to the network, and what it does to the client's lists.
LEMMA AppSendsThere ==
  ASSUME OwnersInv, NEW c \in Client, NEW f \in Flow, AppSends(c, f)
  PROVE  /\ \A p \in net' : p \in net \/ ThereData(p) \/ ThereTunnel(p)
         /\ \/ conns' = conns
            \/ \E k \in OwnConnection(c) : conns' = [conns EXCEPT ![c] = Append(@, k)]
<1> DEFINE p == Request(c, f)
           mine == Captured(ClientFilters, p, TRUE) /\ IsConfigForOutboundPacket(p)
           i == OutboundIndex(c, p)
<1>1. config \in Configs /\ runs[c] \in Nat /\ conns[c] \in Seq(OwnConnection(c))
  BY DEF OwnersInv, ClientsInv
<1>2. NewClientConnections(c, p) \subseteq OwnConnection(c)
  <2>1. p.sport \in 0 .. 99
    BY <1>1, RequestData
  <2>2. <<c, runs[c]>> \in Client \X Nat
    BY <1>1
  <2> HIDE DEF p
  <2> QED
    BY <2>1, <2>2 DEF NewClientConnections, ClientConnection, OwnConnection
<1>3. /\ \/ net' = net \cup {Natted(c, p)}
         \/ \E k \in OwnConnection(c) : \E q \in ClientSends(k, p) : net' = net \cup {Natted(c, q)}
      /\ \/ conns' = conns
         \/ \E k \in OwnConnection(c) : conns' = [conns EXCEPT ![c] = Append(@, k)]
  <2>1. CASE ~mine /\ Sends(c, p) /\ UNCHANGED conns
    BY <2>1 DEF Sends
  <2>2. CASE i # 0 /\ (\E q \in ClientSends(conns[c][i], p) : Sends(c, q)) /\ UNCHANGED conns
    <3>1. conns[c][i] \in OwnConnection(c)
      BY <1>1, <2>2, OutboundIndexType
    <3> QED
      BY <2>2, <3>1 DEF Sends
  <2>3. ASSUME NEW k \in NewClientConnections(c, p), conns' = [conns EXCEPT ![c] = Append(@, k)],
               \/ \E q \in ClientSends(k, p) : Sends(c, q)
               \/ Sends(c, p)
        PROVE  <1>3
    <3>1. k \in OwnConnection(c)
      BY <1>2
    <3> HIDE DEF p
    <3> QED
      BY <2>3, <3>1 DEF Sends
  <2> HIDE DEF p
  <2> QED
    BY <2>1, <2>2, <2>3 DEF AppSends, p
<1> HIDE DEF p
<1>4. ThereData(Natted(c, p))
  BY <1>1, RequestThere DEF p
<1>5. ASSUME NEW k \in OwnConnection(c), NEW q \in ClientSends(k, p)
      PROVE  ThereData(Natted(c, q)) \/ ThereTunnel(Natted(c, q))
  BY <1>1, <1>5, ClientSendsThere DEF p
<1> QED
  BY <1>3, <1>4, <1>5

-----------------------------------------------------------------------------
(* The server's connections and addresses *)

Constant == config' = config /\ range' = range

\* What is said of packets and connections depends on the configuration only.
LEMMA SameShapes ==
  ASSUME Constant
  PROVE  /\ \A p : /\ ThereData(p)' = ThereData(p) /\ ThereTunnel(p)' = ThereTunnel(p)
                   /\ BackData(p)' = BackData(p) /\ BackTunnel(p)' = BackTunnel(p)
                   /\ Waits(p)' = Waits(p)
         /\ \A f : Carriable(f)' = Carriable(f)
         /\ ClientConnection' = ClientConnection
BY DEF Constant, ThereData, ThereTunnel, BackData, BackTunnel, Waits, IsVirtual,
       Carriable, Grabs, TooLarge, Asked, ClientConnection

\* Nor does what is said of the lists.
LEMMA SameConnections ==
  ASSUME Constant, ConnectionsOf(Connections', VirtualIps')
  PROVE  ConnectionsInv'
BY DEF Constant, ConnectionsInv, ConnectionsOf, IsConnection, HasAddress, Apart, Owns, IsVirtual

LEMMA SamePending ==
  ASSUME Constant,
         \A r \in pending' :
           r.kept \in BOOLEAN /\ Waits(r.packet) /\ Served(r, Connections')
  PROVE  PendingInv'
BY SameShapes DEF PendingInv, Served, IsVirtual, Owns, Constant

\* GetNewIp gives an address of the range that is not in use, or 0.
LEMMA NewIndexFacts ==
  ASSUME range \in Ranges
  PROVE  LET new == NewIndex(VirtualIps, range, MaxVirtualIps)
             ip == GetNewIp(VirtualIps, range, MaxVirtualIps)
         IN /\ new \subseteq Indices(range, MaxVirtualIps) /\ new \cap VirtualIps = {}
            /\ ip \in Nat
            /\ ip = 0 \/ \E n \in new : ip = range.StartIp + n
            /\ \A n \in new : ip = range.StartIp + n
<1> DEFINE free == Indices(range, MaxVirtualIps) \ VirtualIps
           new == NewIndex(VirtualIps, range, MaxVirtualIps)
           ip == GetNewIp(VirtualIps, range, MaxVirtualIps)
<1>0. range.StartIp \in Nat
  BY AddressAssumption
<1>1. free \subseteq Nat
  BY DEF Indices
<1>2. CASE free = {}
  BY <1>2 DEF NewIndex, GetNewIp
<1>3. CASE free # {}
  <2> HIDE DEF free
  <2>1. \E i \in free : \A j \in free : i <= j
    <3>1. PICK x \in free : \A y \in free : ~(<<y, x>> \in OpToRel(<, Nat))
      BY <1>1, <1>3, WFMin, NatLessThanWellFounded
    <3>2. \A y \in free : ~(y < x)
      BY <1>1, <3>1 DEF OpToRel
    <3>3. \A y \in free : x <= y
      BY <1>1, <3>2
    <3> QED
      BY <3>3
  <2> DEFINE n == CHOOSE i \in free : \A j \in free : i <= j
  <2>2. n \in free
    BY <2>1
  <2>3. new = {n}
    BY <1>3 DEF NewIndex, free
  <2> HIDE DEF n
  <2>4. ip = range.StartIp + n
    BY <2>3 DEF GetNewIp
  <2>5. new \subseteq free /\ n \in Nat
    BY <1>1, <2>2, <2>3
  <2> HIDE DEF new, ip
  <2>6. /\ new \subseteq Indices(range, MaxVirtualIps) /\ new \cap VirtualIps = {}
    BY <2>5 DEF free
  <2>7. ip \in Nat
    BY <1>0, <2>4, <2>5
  <2> QED
    BY <2>3, <2>4, <2>6, <2>7 DEF new, ip
<1> QED
  BY <1>2, <1>3

\* The address of a connection is a virtual one or none.
LEMMA ConnectionFacts ==
  ASSUME range \in Ranges, ConnectionsInv, NEW i \in DOMAIN Connections
  PROVE  LET k == Connections[i] IN
         /\ k \in ServerConnection /\ IsConnection(k) /\ HasAddress(k, VirtualIps)
         /\ k.VirtualIp \in Nat /\ (k.VirtualIp = 0 \/ IsVirtual(k.VirtualIp))
<1> DEFINE k == Connections[i]
<1>1. /\ IsConnection(k) /\ k \in ServerConnection /\ HasAddress(k, VirtualIps)
      /\ VirtualIps \subseteq Indices(range, MaxVirtualIps)
  BY DEF ConnectionsInv, ConnectionsOf, IsConnection
<1> HIDE DEF k
<1>2. k.VirtualIp \in Nat
  BY <1>1 DEF ServerConnection
<1>3. k.VirtualIp = 0 \/ IsVirtual(k.VirtualIp)
  BY <1>1 DEF IsVirtual, HasAddress
<1> QED
  BY <1>1, <1>2, <1>3 DEF k

\* A connection has one owner.
LEMMA OneOwner ==
  ASSUME NEW c \in Client, NEW d \in Client, NEW k, Owns(c, k), Owns(d, k)
  PROVE  c = d
BY OneClient DEF Owns

\* A connection changes, and keeps its address.
LEMMA ConnectionChanges ==
  ASSUME range \in Ranges, ConnectionsInv, NEW i \in DOMAIN Connections, NEW k, IsConnection(k),
         k.VirtualIp = Connections[i].VirtualIp
  PROVE  ConnectionsOf([Connections EXCEPT ![i] = k], VirtualIps)
<1> DEFINE after == [Connections EXCEPT ![i] = k]
<1>1. k \in ServerConnection /\ Connections \in Seq(ServerConnection)
  BY DEF IsConnection, ConnectionsInv, ConnectionsOf
<1>2. after \in Seq(ServerConnection) /\ DOMAIN after = DOMAIN Connections
  BY <1>1
<1>3. \A j \in DOMAIN Connections : after[j] = IF j = i THEN k ELSE Connections[j]
  BY <1>1
<1> HIDE DEF after
<1>4. \A j \in DOMAIN Connections : after[j].VirtualIp = Connections[j].VirtualIp
  BY <1>3
<1>5. \A j \in DOMAIN Connections : IsConnection(after[j]) /\ HasAddress(after[j], VirtualIps)
  BY <1>3, <1>4, ConnectionFacts DEF HasAddress
<1>6. Apart(after)
  BY <1>2, <1>4 DEF Apart, ConnectionsInv, ConnectionsOf
<1>7. ConnectionsOf(after, VirtualIps)
  BY <1>2, <1>5, <1>6 DEF ConnectionsOf, ConnectionsInv
<1> QED
  BY <1>7 DEF after

\* What Append gives.
LEMMA Appended ==
  ASSUME NEW S, NEW s \in Seq(S), NEW x \in S
  PROVE  /\ Append(s, x) \in Seq(S) /\ DOMAIN Append(s, x) = 1 .. Len(s) + 1
         /\ DOMAIN s = 1 .. Len(s) /\ Len(s) \in Nat
         /\ Append(s, x)[Len(s) + 1] = x
         /\ \A j \in DOMAIN s : Append(s, x)[j] = s[j]
OBVIOUS

\* A connection is added, with an address no other one has.
LEMMA ConnectionAdded ==
  ASSUME range \in Ranges, ConnectionsInv, NEW k, IsConnection(k),
         k.VirtualIp = GetNewIp(VirtualIps, range, MaxVirtualIps)
  PROVE  ConnectionsOf(Append(Connections, k),
                       VirtualIps \cup NewIndex(VirtualIps, range, MaxVirtualIps))
<1> DEFINE new == NewIndex(VirtualIps, range, MaxVirtualIps)
           last == Len(Connections) + 1
           after == Append(Connections, k)
<1>1. k \in ServerConnection /\ Connections \in Seq(ServerConnection)
  BY DEF IsConnection, ConnectionsInv, ConnectionsOf
<1>2. /\ after \in Seq(ServerConnection) /\ DOMAIN after = 1 .. last
      /\ DOMAIN Connections = 1 .. Len(Connections) /\ Len(Connections) \in Nat
      /\ after[last] = k
      /\ \A j \in DOMAIN Connections : after[j] = Connections[j]
  BY <1>1, Appended
<1>3. \A j \in DOMAIN after : j = last \/ j \in DOMAIN Connections
  BY <1>2
<1>4. /\ new \subseteq Indices(range, MaxVirtualIps) /\ new \cap VirtualIps = {}
      /\ k.VirtualIp = 0 \/ \E n \in new : k.VirtualIp = range.StartIp + n
      /\ range.StartIp \in Nat /\ VirtualIps \subseteq Indices(range, MaxVirtualIps)
  BY NewIndexFacts, AddressAssumption DEF ConnectionsInv, ConnectionsOf
<1>5. VirtualIps \subseteq Nat /\ new \subseteq Nat
  BY <1>4 DEF Indices
<1> HIDE DEF new, last, after
<1>6. ASSUME NEW j \in DOMAIN Connections
      PROVE  Connections[j].VirtualIp = k.VirtualIp => k.VirtualIp = 0
  <2> SUFFICES ASSUME Connections[j].VirtualIp = k.VirtualIp, k.VirtualIp # 0 PROVE FALSE
    OBVIOUS
  <2>1. PICK m \in VirtualIps : Connections[j].VirtualIp = range.StartIp + m
    BY ConnectionFacts DEF HasAddress
  <2>2. PICK n \in new : k.VirtualIp = range.StartIp + n
    BY <1>4
  <2>3. m \in Nat /\ n \in Nat /\ range.StartIp + m = range.StartIp + n
    BY <1>5, <2>1, <2>2
  <2>4. m = n
    BY <1>4, <2>3
  <2> QED
    BY <1>4, <2>4
<1>7. ASSUME NEW j \in DOMAIN after
      PROVE  IsConnection(after[j]) /\ HasAddress(after[j], VirtualIps \cup new)
  <2>1. CASE j = last
    BY <1>2, <1>4, <2>1 DEF HasAddress
  <2>2. CASE j \in DOMAIN Connections
    BY <1>2, <2>2, ConnectionFacts DEF HasAddress
  <2> QED
    BY <1>3, <2>1, <2>2
<1>8. ASSUME NEW j \in DOMAIN after, NEW l \in DOMAIN after,
             after[j].VirtualIp = after[l].VirtualIp, j # l
      PROVE  after[j].VirtualIp = 0
  <2>1. CASE j = last
    <3>1. l \in DOMAIN Connections
      BY <1>3, <1>8, <2>1
    <3> QED
      BY <1>2, <1>6, <1>8, <2>1, <3>1
  <2>2. CASE l = last
    <3>1. j \in DOMAIN Connections
      BY <1>3, <1>8, <2>2
    <3> QED
      BY <1>2, <1>6, <1>8, <2>2, <3>1
  <2>3. CASE j \in DOMAIN Connections /\ l \in DOMAIN Connections
    BY <1>2, <1>8, <2>3 DEF ConnectionsInv, ConnectionsOf, Apart
  <2> QED
    BY <1>3, <2>1, <2>2, <2>3
<1>9. Apart(after)
  BY <1>8 DEF Apart
<1>10. ConnectionsOf(after, VirtualIps \cup new)
  BY <1>2, <1>4, <1>7, <1>9 DEF ConnectionsOf
<1> QED
  BY <1>10 DEF after, new

\* An address is taken and given back: no other one is.
LEMMA AddressReturned ==
  ASSUME range \in Ranges, ConnectionsInv
  PROVE  ConnectionsOf(Connections,
                       ReleaseIp(VirtualIps \cup NewIndex(VirtualIps, range, MaxVirtualIps),
                                 GetNewIp(VirtualIps, range, MaxVirtualIps), range))
<1> DEFINE new == NewIndex(VirtualIps, range, MaxVirtualIps)
           ip == GetNewIp(VirtualIps, range, MaxVirtualIps)
           after == ReleaseIp(VirtualIps \cup new, ip, range)
<1>1. /\ new \subseteq Indices(range, MaxVirtualIps) /\ new \cap VirtualIps = {}
      /\ ip = 0 \/ \E n \in new : ip = range.StartIp + n
      /\ range.StartIp \in Nat /\ VirtualIps \subseteq Indices(range, MaxVirtualIps)
  BY NewIndexFacts, AddressAssumption DEF ConnectionsInv, ConnectionsOf
<1>2. after = (VirtualIps \cup new) \ ({ip - range.StartIp} \ {0})
  BY DEF ReleaseIp
<1> HIDE DEF new, ip, after
<1>3. VirtualIps \subseteq Nat /\ new \subseteq Nat
  BY <1>1 DEF Indices
<1>4. VirtualIps \cap ({ip - range.StartIp} \ {0}) = {}
  <2>1. CASE ip = 0
    <3>1. \A n \in VirtualIps : n = ip - range.StartIp => n = 0
      BY <1>1, <1>3, <2>1
    <3> QED
      BY <3>1
  <2>2. ASSUME NEW n \in new, ip = range.StartIp + n PROVE <1>4
    <3>1. ip - range.StartIp = n
      BY <1>1, <1>3, <2>2
    <3> QED
      BY <1>1, <3>1
  <2> QED
    BY <1>1, <2>1, <2>2
<1>5. VirtualIps \subseteq after /\ after \subseteq Indices(range, MaxVirtualIps)
  BY <1>1, <1>2, <1>4
<1>6. ConnectionsOf(Connections, after)
  BY <1>5 DEF ConnectionsInv, ConnectionsOf, HasAddress
<1> QED
  BY <1>6 DEF after, ip, new

-----------------------------------------------------------------------------
(* What the server makes of a packet *)

\* The client a packet on the way to the server comes from.
From(p) == IF p.body.kind = "packet" THEN p.body.packet.body.from ELSE p.body.from
There(p) == p.dst = Server /\ (ThereData(p) \/ ThereTunnel(p))

\* All that is said of a connection's owner, but for what the next packet decides.
Prepared(c, k) ==
  /\ k \in ServerConnection /\ Len(k.Ports) <= MaxPorts
  /\ config.Mode \in Redirect => k.TunnelPort \in AllPorts(config.TunnelPorts)
  /\ Reaches(c, k.ClientIp, k.ClientPort)
  /\ \A i \in DOMAIN k.Ports : Reaches(c, k.ClientIp, k.Ports[i][2])

\* A packet for the server names the client it comes from, by its address and port
\* and by what it carries.
LEMMA ThereFacts ==
  ASSUME NEW p, There(p)
  PROVE  /\ From(p) \in Client /\ p.src \in Nat /\ p.sport \in Nat /\ p.dport \in Nat
         /\ HasPorts(p.proto) => Reaches(From(p), p.src, p.sport)
         /\ Carries(p) => /\ ThereTunnel(p) /\ Asked(Carried(p)) /\ Carried(p) \in DataPacket
                          /\ Carried(p).src = LocalIp[From(p)]
                          /\ IsValidChecksum(Carried(p)) /\ Carried(p).body.from = From(p)
<1>1. CASE ThereData(p)
  <2>1. /\ p \in DataPacket /\ p.src = OuterIp(p.body.from)
        /\ p.sport = OuterPort(p.body.from, p.proto, FlowData[p.body.flow].sport)
    BY <1>1 DEF ThereData, Asked
  <2>2. /\ p.src \in Nat /\ p.sport \in Nat /\ p.dport \in Nat /\ p.body.kind = "data"
        /\ p.body.from \in Client /\ p.body.flow \in Flow
    BY <2>1, DataFields
  <2>3. FlowData[p.body.flow].sport \in 0 .. 99
    BY <2>2, FlowPort
  <2>4. HasPorts(p.proto) => Reaches(p.body.from, p.src, p.sport)
    <3> DEFINE c == p.body.from
               proto == p.proto
               port == FlowData[p.body.flow].sport
    <3>1. c \in Client /\ port \in 0 .. 99 /\ p.src = OuterIp(c) /\ p.sport = OuterPort(c, proto, port)
      BY <2>1, <2>2, <2>3
    <3> HIDE DEF c, proto, port
    <3>2. HasPorts(proto) => Reaches(c, OuterIp(c), OuterPort(c, proto, port))
      BY <3>1, OuterPortFacts
    <3> QED
      BY <3>1, <3>2 DEF c, proto
  <2> QED
    BY <2>2, <2>4 DEF From, Carries
<1>2. CASE ThereTunnel(p)
  <2> DEFINE m == p.body.packet
  <2>1. /\ p.body.kind = "packet" /\ p.sport \in Nat /\ p.dport \in Nat
        /\ Asked(m) /\ m \in DataPacket /\ m.src = LocalIp[m.body.from] /\ m.sums = AllSums
        /\ Reaches(m.body.from, p.src, p.sport)
    BY <1>2 DEF ThereTunnel, Asked
  <2>2. From(p) = m.body.from /\ Carried(p) = m
    BY <2>1 DEF From, Carried
  <2> HIDE DEF m
  <2>3. m.body.from \in Client
    BY <2>1, DataFields
  <2>4. p.src \in Nat
    BY <2>1, <2>3, OuterFacts DEF Reaches
  <2>5. IsValidChecksum(m)
    BY <2>1 DEF IsValidChecksum, AllSums
  <2> QED
    BY <1>2, <2>1, <2>2, <2>3, <2>4, <2>5
<1> QED
  BY <1>1, <1>2 DEF There

\* The session of a packet is its client's.
LEMMA SessionFacts ==
  ASSUME NEW p, There(p), Carries(p), config.Mode \in Sessions
  PROVE  p.body.session \in {From(p)} \X Nat
<1>1. ThereTunnel(p)
  BY ThereFacts
<1> QED
  BY <1>1 DEF ThereTunnel, From

\* A session is of one client.
LEMMA SessionOwner ==
  ASSUME NEW c \in Client, NEW d \in Client, NEW session, session \in {c} \X Nat, session \in {d} \X Nat
  PROVE  c = d
OBVIOUS

LEMMA NoSession ==
  ASSUME NEW c
  PROVE  <<>> \notin {c} \X Nat
<1> SUFFICES ASSUME <<>> \in {c} \X Nat PROVE FALSE
  OBVIOUS
<1>1. \E x \in {c}, y \in Nat : <<>> = <<x, y>>
  OBVIOUS
<1>2. \A x, y : Len(<<>>) = 0 /\ Len(<<x, y>>) = 2
  OBVIOUS
<1> QED
  BY <1>1, <1>2

\* A connection that takes a packet is that of the packet's client.
LEMMA TakesOwner ==
  ASSUME config \in Configs, NEW p, There(p), HasPorts(p.proto), NEW k, IsConnection(k), TakesInbound(k, p)
  PROVE  Owns(From(p), k)
<1>1. PICK c \in Client : Owns(c, k)
  BY DEF IsConnection
<1>2. From(p) \in Client /\ Reaches(From(p), p.src, p.sport)
  BY ThereFacts
<1>3. k.ClientIp = p.src
  BY DEF TakesInbound
<1>4. CASE config.Mode \in Redirect \cup {"UDP-Simple-Tunnel"}
  <2>1. p.sport = k.ClientPort
    BY <1>4 DEF TakesInbound, Redirect
  <2>2. Reaches(c, p.src, p.sport)
    BY <1>1, <1>3, <2>1 DEF Owns
  <2> QED
    BY <1>1, <1>2, <2>2, OneClient
<1>5. CASE config.Mode \notin Redirect \cup {"UDP-Simple-Tunnel"}
  <2>1. Carries(p) /\ k.Session \in {<<>>, p.body.session}
    BY <1>5 DEF TakesInbound
  <2>2. config.Mode \in Sessions
    BY <1>5, ConfigType DEF Mode, Sessions
  <2>3. k.Session \in {c} \X Nat /\ p.body.session \in {From(p)} \X Nat
    BY <1>1, <2>1, <2>2, SessionFacts DEF Owns
  <2>4. k.Session = p.body.session
    BY <2>1, <2>3, NoSession
  <2> QED
    BY <1>1, <1>2, <2>3, <2>4, SessionOwner
<1> QED
  BY <1>4, <1>5

\* A connection may take the next packet of its owner.
LEMMA OwnerPrepared ==
  ASSUME NEW c \in Client, NEW k, IsConnection(k), Owns(c, k)
  PROVE  Prepared(c, k)
BY DEF IsConnection, Owns, Prepared

\* So may the one AddConnection makes for the packet.
LEMMA NewPrepared ==
  ASSUME config \in Configs, range \in Ranges, NEW p, There(p), HasPorts(p.proto),
         config.Mode \in Redirect => p.dport \in AllPorts(config.TunnelPorts)
  PROVE  /\ Prepared(From(p), NewServerConnection(p))
         /\ NewServerConnection(p).VirtualIp = GetNewIp(VirtualIps, range, MaxVirtualIps)
<1> DEFINE k == NewServerConnection(p)
           ip == GetNewIp(VirtualIps, range, MaxVirtualIps)
<1>1. /\ p.src \in Nat /\ p.sport \in Nat /\ p.dport \in Nat /\ p.dst = Server
      /\ Reaches(From(p), p.src, p.sport)
  BY ThereFacts DEF There
<1>2. ip \in Nat
  BY NewIndexFacts
<1>3. /\ k.ClientIp = p.src /\ k.ClientPort = p.sport /\ k.TunnelPort = p.dport /\ k.Ports = <<>>
      /\ k.VirtualIp = ip
  BY DEF NewServerConnection
<1>4. 0 \in 0 .. MaxPorts - 1 /\ MaxPorts \in Nat
  BY RouteAssumption
<1>5. <<>> \in Seq(Nat \X Nat) /\ Len(<<>>) = 0 /\ DOMAIN <<>> = {}
  OBVIOUS
<1> HIDE DEF ip
<1>6. k \in ServerConnection
  BY <1>1, <1>2, <1>4, <1>5 DEF NewServerConnection, ServerConnection, ip
<1> HIDE DEF k
<1>7. Len(k.Ports) <= MaxPorts
  BY <1>3, <1>4, <1>5
<1>8. \A i \in DOMAIN k.Ports : FALSE
  BY <1>3, <1>5
<1>9. Prepared(From(p), k)
  BY <1>1, <1>3, <1>6, <1>7, <1>8 DEF Prepared
<1> QED
  BY <1>3, <1>9 DEF k, ip

\* What EXCEPT gives.
LEMMA Replaced ==
  ASSUME NEW S, NEW s \in Seq(S), NEW x \in S, NEW n \in Int
  PROVE  /\ [s EXCEPT ![n] = x] \in Seq(S) /\ Len([s EXCEPT ![n] = x]) = Len(s)
         /\ \A i \in DOMAIN [s EXCEPT ![n] = x] :
              [s EXCEPT ![n] = x][i] = x \/ (i \in DOMAIN s /\ [s EXCEPT ![n] = x][i] = s[i])
<1>1. [s EXCEPT ![n] = x] \in Seq(S)
  <2>1. CASE n \in DOMAIN s
    BY <2>1
  <2>2. CASE n \notin DOMAIN s
    <3>1. s = [i \in DOMAIN s |-> s[i]]
      OBVIOUS
    <3>2. [s EXCEPT ![n] = x] = s
      BY <2>2, <3>1
    <3> QED
      BY <3>2
  <2> QED
    BY <2>1, <2>2
<1>2. DOMAIN [s EXCEPT ![n] = x] = DOMAIN s
  OBVIOUS
<1>3. Len([s EXCEPT ![n] = x]) = Len(s)
  BY <1>1, <1>2
<1>4. \A i \in DOMAIN s : [s EXCEPT ![n] = x][i] = x \/ [s EXCEPT ![n] = x][i] = s[i]
  OBVIOUS
<1> QED
  BY <1>1, <1>2, <1>3, <1>4

\* PortManager keeps what it had or replaces one pair, and never grows too long.
LEMMA AddPortFacts ==
  ASSUME NEW k \in ServerConnection, Len(k.Ports) <= MaxPorts, NEW pair \in Nat \X Nat
  PROVE  LET a == AddPort(k, pair) IN
         /\ a \in ServerConnection /\ Len(a.Ports) <= MaxPorts
         /\ a.ClientIp = k.ClientIp /\ a.VirtualIp = k.VirtualIp /\ a.ClientPort = k.ClientPort
         /\ a.TunnelPort = k.TunnelPort /\ a.Session = k.Session
         /\ \A i \in DOMAIN a.Ports : a.Ports[i] = pair \/ (i \in DOMAIN k.Ports /\ a.Ports[i] = k.Ports[i])
<1> DEFINE grown == Append(k.Ports, pair)
           turned == [k.Ports EXCEPT ![k.NextPort + 1] = pair]
           ports == IF Len(k.Ports) < MaxPorts THEN grown ELSE turned
           next == (k.NextPort + 1) % MaxPorts
           a == [k EXCEPT !.Ports = ports, !.NextPort = next]
<1>1. AddPort(k, pair) = a
  BY DEF AddPort
<1>2. k.Ports \in Seq(Nat \X Nat) /\ k.NextPort \in 0 .. MaxPorts - 1 /\ MaxPorts \in Nat \ {0}
  BY RouteAssumption DEF ServerConnection
<1>3. next \in 0 .. MaxPorts - 1
  BY <1>2
<1> DEFINE Pair == Nat \X Nat
<1> HIDE DEF Pair
<1>4. pair \in Pair /\ k.Ports \in Seq(Pair)
  BY <1>2 DEF Pair
<1>5. /\ ports \in Seq(Pair) /\ Len(ports) <= MaxPorts
      /\ \A i \in DOMAIN ports : ports[i] = pair \/ (i \in DOMAIN k.Ports /\ ports[i] = k.Ports[i])
  <2>1. CASE Len(k.Ports) < MaxPorts
    <3>1. /\ grown \in Seq(Pair) /\ Len(grown) = Len(k.Ports) + 1 /\ Len(k.Ports) \in Nat
          /\ \A i \in DOMAIN grown : grown[i] = pair \/ (i \in DOMAIN k.Ports /\ grown[i] = k.Ports[i])
      BY <1>4
    <3>2. Len(grown) <= MaxPorts
      BY <1>2, <2>1, <3>1
    <3> QED
      BY <2>1, <3>1, <3>2
  <2>2. CASE ~(Len(k.Ports) < MaxPorts)
    <3> DEFINE n == k.NextPort + 1
    <3>1. n \in Int
      BY <1>2
    <3> HIDE DEF n
    <3>2. /\ [k.Ports EXCEPT ![n] = pair] \in Seq(Pair)
          /\ Len([k.Ports EXCEPT ![n] = pair]) = Len(k.Ports)
          /\ \A i \in DOMAIN [k.Ports EXCEPT ![n] = pair] :
               [k.Ports EXCEPT ![n] = pair][i] = pair
               \/ (i \in DOMAIN k.Ports /\ [k.Ports EXCEPT ![n] = pair][i] = k.Ports[i])
      BY <1>4, <3>1, Replaced
    <3>3. ports = [k.Ports EXCEPT ![n] = pair]
      BY <2>2 DEF n
    <3> QED
      BY <3>2, <3>3
  <2> QED
    BY <2>1, <2>2
<1> HIDE DEF ports, next
<1>6. ports \in Seq(Nat \X Nat)
  BY <1>5 DEF Pair
<1>7. a \in ServerConnection
  BY <1>3, <1>6 DEF ServerConnection
<1>8. /\ a.ClientIp = k.ClientIp /\ a.VirtualIp = k.VirtualIp /\ a.ClientPort = k.ClientPort
      /\ a.TunnelPort = k.TunnelPort /\ a.Session = k.Session /\ a.Ports = ports
  BY DEF ServerConnection
<1> HIDE DEF a
<1> QED
  BY <1>1, <1>5, <1>7, <1>8

\* ReceiveData keeps the client's own address and nothing else.
LEMMA LearnFacts ==
  ASSUME NEW k \in ServerConnection, NEW p \in DataPacket
  PROVE  LET a == Learn(k, p) IN
         /\ a \in ServerConnection /\ a.ClientLocalIp = p.src
         /\ a.ClientIp = k.ClientIp /\ a.VirtualIp = k.VirtualIp /\ a.ClientPort = k.ClientPort
         /\ a.TunnelPort = k.TunnelPort /\ a.Session = k.Session /\ a.Ports = k.Ports
BY DataFields DEF Learn, ServerConnection

\* A connection takes the session of its first packet.
LEMMA SessionSet ==
  ASSUME NEW k \in ServerConnection, NEW session \in {<<>>} \cup (Client \X Nat)
  PROVE  LET a == [k EXCEPT !.Session = session] IN
         /\ a \in ServerConnection /\ a.Session = session
         /\ a.ClientIp = k.ClientIp /\ a.VirtualIp = k.VirtualIp /\ a.ClientPort = k.ClientPort
         /\ a.TunnelPort = k.TunnelPort /\ a.Ports = k.Ports /\ a.ClientLocalIp = k.ClientLocalIp
BY DEF ServerConnection

\* A connection that has learnt its client's address is the client's.
LEMMA LearnOwns ==
  ASSUME NEW c \in Client, NEW k, Prepared(c, k), NEW m \in DataPacket, m.src = LocalIp[c],
         config.Mode \in Sessions => k.Session \in {c} \X Nat
  PROVE  LET a == Learn(k, m) IN
         /\ IsConnection(a) /\ Owns(c, a)
         /\ a.VirtualIp = k.VirtualIp /\ a.ClientPort = k.ClientPort /\ a.TunnelPort = k.TunnelPort
         /\ a.Session = k.Session
<1> DEFINE a == Learn(k, m)
<1>1. k \in ServerConnection
  BY DEF Prepared
<1>2. /\ a \in ServerConnection /\ a.ClientLocalIp = m.src
      /\ a.ClientIp = k.ClientIp /\ a.VirtualIp = k.VirtualIp /\ a.ClientPort = k.ClientPort
      /\ a.TunnelPort = k.TunnelPort /\ a.Session = k.Session /\ a.Ports = k.Ports
  BY <1>1, LearnFacts
<1> HIDE DEF a
<1>3. Owns(c, a)
  BY <1>2 DEF Owns, Prepared
<1>4. IsConnection(a)
  BY <1>2, <1>3 DEF IsConnection, Prepared
<1> QED
  BY <1>2, <1>3, <1>4 DEF a

\* After a packet a connection is that of the packet's client.
LEMMA AfterOwns ==
  ASSUME config \in Configs, NEW p, There(p), HasPorts(p.proto), NEW k, Prepared(From(p), k), TakesInbound(k, p)
  PROVE  LET a == AfterInbound(k, p) IN
         /\ IsConnection(a) /\ Owns(From(p), a)
         /\ a.VirtualIp = k.VirtualIp /\ a.ClientPort = k.ClientPort /\ a.TunnelPort = k.TunnelPort
<1> DEFINE c == From(p)
           m == Carried(p)
<1>1. c \in Client /\ p.sport \in Nat /\ p.dport \in Nat /\ Reaches(c, p.src, p.sport)
  BY ThereFacts
<1>2. k.ClientIp = p.src /\ k \in ServerConnection
  BY DEF TakesInbound, Prepared
<1>3. Carries(p) => m \in DataPacket /\ m.src = LocalIp[c] /\ IsValidChecksum(m)
  BY ThereFacts
<1>4. config.Mode \in Sessions /\ Carries(p) => p.body.session \in {c} \X Nat
  BY SessionFacts
<1>5. CASE config.Mode \in Redirect
  <2>1. AfterInbound(k, p) = k
    BY <1>5 DEF AfterInbound, Redirect
  <2>2. config.Mode \notin Sessions
    BY <1>5 DEF Redirect, Sessions, Sockets
  <2> HIDE DEF c
  <2>3. Owns(c, k)
    BY <1>5, <2>2 DEF Owns, Prepared, c
  <2>4. IsConnection(k)
    BY <1>1, <2>3 DEF IsConnection, Prepared, c
  <2> QED
    BY <2>1, <2>3, <2>4 DEF c
<1>6. CASE config.Mode = "UDP-Simple-Tunnel"
  <2>1. AfterInbound(k, p) = Learn(k, m)
    BY <1>6 DEF AfterInbound, Redirect
  <2>2. config.Mode \notin Sessions
    BY <1>6 DEF Sessions, Sockets
  <2>3. Carries(p)
    BY <1>6 DEF TakesInbound, Redirect
  <2> QED
    BY <1>1, <1>3, <2>1, <2>2, <2>3, LearnOwns
<1>7. CASE config.Mode \notin Redirect \cup {"UDP-Simple-Tunnel"}
  <2>1. Carries(p)
    BY <1>7 DEF TakesInbound
  <2>2. config.Mode \in Sessions
    BY <1>7, ConfigType DEF Mode, Sessions
  <2> DEFINE session == p.body.session
             b == [k EXCEPT !.Session = session]
             pair == <<p.dport, p.sport>>
             s == AddPort(b, pair)
  <2>3. AfterInbound(k, p) = Learn(s, m)
    BY <1>3, <1>7, <2>1 DEF AfterInbound
  <2>4. session \in {c} \X Nat /\ session \in {<<>>} \cup (Client \X Nat)
    BY <1>1, <1>4, <2>1, <2>2
  <2> HIDE DEF session
  <2>5. /\ b \in ServerConnection /\ b.Session = session
        /\ b.ClientIp = k.ClientIp /\ b.VirtualIp = k.VirtualIp /\ b.ClientPort = k.ClientPort
        /\ b.TunnelPort = k.TunnelPort /\ b.Ports = k.Ports
    BY <1>2, <2>4, SessionSet
  <2> HIDE DEF b
  <2>6. pair \in Nat \X Nat /\ pair[2] = p.sport
    BY <1>1
  <2>7. Len(b.Ports) <= MaxPorts
    BY <2>5 DEF Prepared
  <2> HIDE DEF pair
  <2>8. /\ s \in ServerConnection /\ Len(s.Ports) <= MaxPorts
        /\ s.ClientIp = b.ClientIp /\ s.VirtualIp = b.VirtualIp /\ s.ClientPort = b.ClientPort
        /\ s.TunnelPort = b.TunnelPort /\ s.Session = b.Session
        /\ \A i \in DOMAIN s.Ports : s.Ports[i] = pair \/ (i \in DOMAIN b.Ports /\ s.Ports[i] = b.Ports[i])
    BY <2>5, <2>6, <2>7, AddPortFacts
  <2> HIDE DEF s, c, m
  <2>9. ASSUME NEW i \in DOMAIN s.Ports PROVE Reaches(c, s.ClientIp, s.Ports[i][2])
    <3>1. CASE s.Ports[i] = pair
      BY <1>1, <1>2, <2>5, <2>6, <2>8, <3>1
    <3>2. CASE i \in DOMAIN b.Ports /\ s.Ports[i] = b.Ports[i]
      BY <2>5, <2>8, <3>2 DEF Prepared, c
    <3> QED
      BY <2>8, <3>1, <3>2
  <2>10. Prepared(c, s)
    BY <2>5, <2>8, <2>9 DEF Prepared, c
  <2>11. /\ IsConnection(Learn(s, m)) /\ Owns(c, Learn(s, m)) /\ Learn(s, m).VirtualIp = s.VirtualIp
         /\ Learn(s, m).ClientPort = s.ClientPort /\ Learn(s, m).TunnelPort = s.TunnelPort
    BY <1>1, <1>3, <2>1, <2>4, <2>5, <2>8, <2>10, LearnOwns
  <2> QED
    BY <2>3, <2>5, <2>8, <2>11 DEF c, m
<1> QED
  BY <1>5, <1>6, <1>7

\* What goes to the service from a connection waits there under the connection's
\* address.
LEMMA ToServiceWaits ==
  ASSUME config \in Configs, NEW p, There(p), Tunnelled(p),
         config.Mode \in Redirect => HasPorts(p.proto),
         config.Mode \notin Redirect => Carries(p),
         NEW k, k.VirtualIp \in Nat, k.VirtualIp = 0 \/ IsVirtual(k.VirtualIp),
         NEW q \in ToService(k, p), q.body.kind = "data"
  PROVE  /\ Waits(q) /\ q.src = k.VirtualIp /\ q.body.from = From(p)
         /\ config.Mode \in Redirect => q.sport = p.sport
<1>1. Intact(q) /\ p.dst = Server
  BY ToServiceIntact DEF There, Carries
<1>2. CASE config.Mode \in Redirect
  <2> DEFINE d == DecryptPacket(p)
             s == SetSrcIp(d, k.VirtualIp)
             t == SetDesPort(s, config.RealPort)
  <2>1. q = RecalculateChecksum(t)
    BY <1>2 DEF ToService
  <2>2. p.body.kind = "data"
    <3>1. d.body = p.body /\ IsPacket(d)
      BY CryptFacts DEF Tunnelled
    <3> HIDE DEF d
    <3>2. s.body = d.body /\ IsPacket(s)
      BY <3>1, SetFacts
    <3> HIDE DEF s
    <3>3. t.body = s.body /\ IsPacket(t)
      BY <3>2, SetFacts
    <3> HIDE DEF t
    <3>4. q.body = t.body
      BY <2>1, <3>3, SetFacts
    <3> QED
      BY <3>1, <3>2, <3>3, <3>4
  <2>3. ThereData(p)
    BY <2>2 DEF There, ThereTunnel
  <2>4. /\ p \in DataPacket /\ p.enc \in 0 .. 1 /\ ~p.body.reply /\ p.dst = Server
        /\ p.proto = FlowData[p.body.flow].proto
        /\ p.sport = OuterPort(p.body.from, p.proto, FlowData[p.body.flow].sport)
    BY <2>3 DEF ThereData, Asked
  <2>5. /\ d \in DataPacket /\ d.dst = p.dst /\ d.proto = p.proto
        /\ d.sport = p.sport /\ d.body = p.body /\ d.enc = p.enc - 1
    BY <1>2, <2>4, DecryptData
  <2> HIDE DEF d
  <2>6. /\ s \in DataPacket /\ s.src = k.VirtualIp /\ s.dst = p.dst /\ s.proto = p.proto
        /\ s.sport = p.sport /\ s.body = p.body /\ s.enc = p.enc - 1
    BY <2>5, SetSrcIpData
  <2> HIDE DEF s
  <2>7. config.RealPort \in Nat
    BY ConfigType
  <2>8. /\ t \in DataPacket /\ t.src = k.VirtualIp /\ t.dst = p.dst /\ t.proto = p.proto
        /\ t.sport = p.sport /\ t.body = p.body /\ t.enc = p.enc - 1
    BY <2>6, <2>7, SetDesPortData
  <2> HIDE DEF t
  <2>9. /\ q \in DataPacket /\ q.src = k.VirtualIp /\ q.dst = p.dst /\ q.proto = p.proto
        /\ q.sport = p.sport /\ q.body = p.body /\ q.enc = p.enc - 1
    BY <2>1, <2>8, ChecksumData
  <2>10. q.enc \in -1 .. 1 /\ Asked(q)
    BY <2>4, <2>9 DEF Asked
  <2>11. Carriable(q.body.flow) => q.enc = 0
    BY <1>1, <2>2, <2>4, <2>9 DEF Intact, IsRequest, Carriable
  <2>12. /\ HasPorts(q.proto)
         /\ q.sport = OuterPort(q.body.from, q.proto, FlowData[q.body.flow].sport)
    BY <1>2, <2>4, <2>9
  <2>13. Waits(q)
    BY <1>2, <2>9, <2>10, <2>11, <2>12 DEF Waits
  <2> QED
    BY <2>2, <2>9, <2>13 DEF From
<1>3. CASE config.Mode \notin Redirect
  <2> DEFINE m == Carried(p)
             s == SetSrcIp(m, k.VirtualIp)
  <2>1. q = RecalculateChecksum(s)
    BY <1>3 DEF ToService, Translate
  <2>2. ThereTunnel(p) /\ Asked(m) /\ m.body.from = From(p)
    BY <1>3, ThereFacts
  <2>3. /\ m \in DataPacket /\ ~m.body.reply /\ m.dst = Server
        /\ m.proto = FlowData[m.body.flow].proto /\ m.enc = 0
    BY <2>2 DEF Asked, ThereTunnel, Carried
  <2> HIDE DEF m
  <2>4. /\ s \in DataPacket /\ s.src = k.VirtualIp /\ s.dst = m.dst /\ s.proto = m.proto
        /\ s.sport = m.sport /\ s.body = m.body /\ s.enc = m.enc
    BY <2>3, SetSrcIpData
  <2> HIDE DEF s
  <2>5. /\ q \in DataPacket /\ q.src = k.VirtualIp /\ q.dst = m.dst /\ q.proto = m.proto
        /\ q.sport = m.sport /\ q.body = m.body /\ q.enc = m.enc
    BY <2>1, <2>4, ChecksumData
  <2>6. Asked(q) /\ q.enc = 0
    BY <2>3, <2>5 DEF Asked
  <2>7. Waits(q)
    BY <1>3, <2>5, <2>6 DEF Waits
  <2> QED
    BY <1>3, <2>2, <2>5, <2>7 DEF Carried
<1> QED
  BY <1>2, <1>3

\* What no connection takes waits as it came, and is nothing the tunnel carries.
LEMMA PassedWaits ==
  ASSUME NEW p, There(p), Intact(p), ~Carriable(p.body.flow), p.body.kind = "data"
  PROVE  Waits(p) /\ p.src # 0 /\ (range \in Ranges => ~IsVirtual(p.src))
<1>1. ThereData(p)
  BY DEF There, ThereTunnel
<1>2. Asked(p) /\ p.src = OuterIp(p.body.from) /\ p.body.from \in Client
  BY <1>1, DataFields DEF ThereData, Asked
<1>3. Waits(p)
  BY <1>1, <1>2 DEF ThereData, Waits
<1> QED
  BY <1>2, <1>3, OuterFacts, VirtualFacts

\* Connections that keep their addresses and owners.
Continues(before, after) ==
  \A i \in DOMAIN before :
    /\ i \in DOMAIN after /\ after[i].VirtualIp = before[i].VirtualIp
    /\ after[i].ClientPort = before[i].ClientPort
    /\ \A c \in Client : Owns(c, before[i]) => Owns(c, after[i])

\* A request keeps its connection.
LEMMA ServedStill ==
  ASSUME NEW r, r.packet.body.from \in Client, NEW before, NEW after,
         Continues(before, after), Served(r, before)
  PROVE  Served(r, after)
<1> SUFFICES ASSUME r.kept, r.packet.src # 0, IsVirtual(r.packet.src)
             PROVE  \E i \in DOMAIN after :
                      /\ after[i].VirtualIp = r.packet.src /\ Owns(r.packet.body.from, after[i])
                      /\ config.Mode \in Redirect => after[i].ClientPort = r.packet.sport
  BY DEF Served
<1>1. PICK i \in DOMAIN before :
        /\ before[i].VirtualIp = r.packet.src /\ Owns(r.packet.body.from, before[i])
        /\ config.Mode \in Redirect => before[i].ClientPort = r.packet.sport
  BY DEF Served
<1> QED
  BY <1>1 DEF Continues

\* What Arrives adds waits, and has its connection.
LEMMA ArrivesServed ==
  ASSUME OwnersInv, NEW packets, Arrives(packets), Continues(Connections, Connections'),
         \A q \in packets : q.body.kind = "data" =>
           /\ Waits(q)
           /\ q.src # 0 /\ IsVirtual(q.src) =>
                \E i \in DOMAIN Connections' :
                  /\ Connections'[i].VirtualIp = q.src /\ Owns(q.body.from, Connections'[i])
                  /\ config.Mode \in Redirect => Connections'[i].ClientPort = q.sport
  PROVE  \A r \in pending' :
           r.kept \in BOOLEAN /\ Waits(r.packet) /\ Served(r, Connections')
<1> SUFFICES ASSUME NEW r \in pending'
             PROVE  r.kept \in BOOLEAN /\ Waits(r.packet) /\ Served(r, Connections')
  OBVIOUS
<1>1. CASE r \in pending
  <2>1. r.kept \in BOOLEAN /\ Waits(r.packet) /\ Served(r, Connections)
    BY <1>1 DEF OwnersInv, PendingInv
  <2>2. r.packet.body.from \in Client
    BY <2>1, DataFields DEF Waits, Asked
  <2> QED
    BY <2>1, <2>2, ServedStill
<1>2. CASE r \notin pending
  <2>1. PICK q \in packets : r = [packet |-> q, kept |-> TRUE] /\ q.body.kind = "data"
    BY <1>2 DEF Arrives
  <2>2. r.packet = q /\ r.kept = TRUE
    BY <2>1
  <2> QED
    BY <2>1, <2>2 DEF Served
<1> QED
  BY <1>1, <1>2

\* A port of the range is one of its ports.
LEMMA PortOfRange ==
  ASSUME NEW items, NEW port, IsPortInRange(items, port), port \in Int,
         \A i \in DOMAIN items : items[i].StartPort \in Nat /\ items[i].EndPort \in Nat
  PROVE  port \in AllPorts(items)
BY DEF IsPortInRange, InItem, AllPorts

\* SelectInSeq finds an index that satisfies its test, or none.
LEMMA IndexIn ==
  ASSUME NEW I, I \subseteq Nat, NEW i, i = IF I # {} THEN Min(I) ELSE 0, i # 0
  PROVE  i \in I
BY MinIndex

\* A change of one connection that keeps its address and owner, and a new one.
LEMMA ChangeContinues ==
  ASSUME OwnersInv, NEW i \in DOMAIN Connections, NEW c \in Client, Owns(c, Connections[i]),
         NEW k, Owns(c, k), k.VirtualIp = Connections[i].VirtualIp, k.ClientPort = Connections[i].ClientPort
  PROVE  /\ Continues(Connections, [Connections EXCEPT ![i] = k])
         /\ i \in DOMAIN [Connections EXCEPT ![i] = k] /\ [Connections EXCEPT ![i] = k][i] = k
         /\ \A j \in DOMAIN [Connections EXCEPT ![i] = k] :
              j = i \/ (j \in DOMAIN Connections /\ [Connections EXCEPT ![i] = k][j] = Connections[j])
<1> DEFINE after == [Connections EXCEPT ![i] = k]
<1>1. Connections \in Seq(ServerConnection)
  BY DEF OwnersInv, ConnectionsInv, ConnectionsOf
<1>2. DOMAIN after = DOMAIN Connections /\ after[i] = k
  BY <1>1
<1>3. \A j \in DOMAIN Connections : j # i => after[j] = Connections[j]
  BY <1>1
<1> HIDE DEF after
<1>4. ASSUME NEW j \in DOMAIN Connections
      PROVE  /\ j \in DOMAIN after /\ after[j].VirtualIp = Connections[j].VirtualIp
             /\ after[j].ClientPort = Connections[j].ClientPort
             /\ \A d \in Client : Owns(d, Connections[j]) => Owns(d, after[j])
  <2>1. CASE j = i
    BY <1>2, <2>1, OneOwner
  <2>2. CASE j # i
    BY <1>2, <1>3, <2>2
  <2> QED
    BY <2>1, <2>2
<1>5. Continues(Connections, after)
  BY <1>4 DEF Continues
<1> QED
  BY <1>2, <1>3, <1>5 DEF after

\* A new connection at the end of the list leaves the others alone.
LEMMA AppendContinues ==
  ASSUME OwnersInv, NEW k \in ServerConnection
  PROVE  LET after == Append(Connections, k) IN
         /\ Continues(Connections, after)
         /\ \E i \in DOMAIN after : after[i] = k
         /\ \A i \in DOMAIN after : after[i] = k \/ \E j \in DOMAIN Connections : after[i] = Connections[j]
<1> DEFINE after == Append(Connections, k)
           last == Len(Connections) + 1
<1>1. Connections \in Seq(ServerConnection)
  BY DEF OwnersInv, ConnectionsInv, ConnectionsOf
<1>2. /\ DOMAIN after = 1 .. last /\ DOMAIN Connections = 1 .. Len(Connections)
      /\ Len(Connections) \in Nat /\ after[last] = k
      /\ \A j \in DOMAIN Connections : after[j] = Connections[j]
  BY <1>1, Appended
<1> HIDE DEF after
<1>3. /\ last \in DOMAIN after /\ DOMAIN Connections \subseteq DOMAIN after
      /\ \A i \in DOMAIN after : i = last \/ i \in DOMAIN Connections
  BY <1>2
<1> HIDE DEF last
<1>4. Continues(Connections, after)
  BY <1>2, <1>3 DEF Continues
<1> QED
  BY <1>2, <1>3, <1>4 DEF after

\* A connection keeps its ports, session and owner, or begins with a packet.
Kept(before, after) ==
  /\ after.ClientPort = before.ClientPort /\ after.TunnelPort = before.TunnelPort
  /\ config.Mode \in Sockets => after.Session = before.Session
  /\ \A c \in Client : Owns(c, after) => Owns(c, before)
Begun(p, k) ==
  /\ There(p) /\ Owns(From(p), k) /\ k.ClientPort = p.sport /\ k.TunnelPort = p.dport
  /\ config.Mode \in Sockets => k.Session = p.body.session
  /\ config.Mode \notin Redirect => Carries(p)
  /\ config.Mode \in Redirect =>
       p.proto = GetTunnelProtocol(config.Mode) /\ p.dport \in AllPorts(config.TunnelPorts)

\* Every connection after the step is one from before, or begins with the packet.
Follows(p) ==
  \A i \in DOMAIN Connections' :
    \/ \E j \in DOMAIN Connections : Kept(Connections[j], Connections'[i])
    \/ Begun(p, Connections'[i])

\* What has to be shown of a step of the server.
ServerGoal ==
  /\ ConnectionsOf(Connections', VirtualIps')
  /\ \A r \in pending' :
       r.kept \in BOOLEAN /\ Waits(r.packet) /\ Served(r, Connections')

\* A connection of the list takes the packet.
LEMMA KnownServes ==
  ASSUME OwnersInv, NEW p, There(p), Tunnelled(p), NEW i \in DOMAIN Connections,
         Owns(From(p), Connections[i]),
         config.Mode \in Redirect => HasPorts(p.proto) /\ Connections[i].ClientPort = p.sport,
         config.Mode \notin Redirect => Carries(p),
         NEW k, IsConnection(k), Owns(From(p), k), k.VirtualIp = Connections[i].VirtualIp,
         Kept(Connections[i], k),
         Connections' = [Connections EXCEPT ![i] = k], VirtualIps' = VirtualIps,
         Arrives(ToService(Connections[i], p))
  PROVE  ServerGoal /\ Follows(p)
<1> DEFINE b == Connections[i]
           c == From(p)
<1>1. config \in Configs /\ range \in Ranges /\ ConnectionsInv /\ c \in Client
  BY ThereFacts DEF OwnersInv
<1>2. b.VirtualIp \in Nat /\ (b.VirtualIp = 0 \/ IsVirtual(b.VirtualIp))
  BY <1>1, ConnectionFacts
<1>3. /\ Continues(Connections, Connections')
      /\ i \in DOMAIN Connections' /\ Connections'[i] = k
      /\ \A j \in DOMAIN Connections' :
           j = i \/ (j \in DOMAIN Connections /\ Connections'[j] = Connections[j])
  BY <1>1, ChangeContinues DEF Kept
<1> DEFINE ip == b.VirtualIp
           sent == ToService(b, p)
<1>4. ASSUME NEW q \in sent, q.body.kind = "data"
      PROVE  /\ Waits(q) /\ q.src = ip /\ q.body.from = c
             /\ config.Mode \in Redirect => q.sport = p.sport
  BY <1>1, <1>2, <1>4, ToServiceWaits
<1> HIDE DEF c, sent, ip
<1>5. ASSUME NEW q \in sent, q.body.kind = "data"
      PROVE  /\ Waits(q)
             /\ \E j \in DOMAIN Connections' :
                  /\ Connections'[j].VirtualIp = q.src /\ Owns(q.body.from, Connections'[j])
                  /\ config.Mode \in Redirect => Connections'[j].ClientPort = q.sport
  BY <1>3, <1>4, <1>5 DEF c, ip, Kept
<1>6. Arrives(sent)
  BY DEF sent
<1>7. \A r \in pending' :
        r.kept \in BOOLEAN /\ Waits(r.packet) /\ Served(r, Connections')
  BY <1>3, <1>5, <1>6, ArrivesServed
<1>8. ConnectionsOf(Connections', VirtualIps')
  BY <1>1, ConnectionChanges
<1>9. \A j \in DOMAIN Connections' : \E l \in DOMAIN Connections : Kept(Connections[l], Connections'[j])
  BY <1>3 DEF Kept
<1> QED
  BY <1>7, <1>8, <1>9 DEF ServerGoal, Follows

\* A new connection takes it.
LEMMA NewServes ==
  ASSUME OwnersInv, NEW p, There(p), Tunnelled(p),
         config.Mode \in Redirect => HasPorts(p.proto),
         config.Mode \notin Redirect => Carries(p),
         NEW b, b.VirtualIp = GetNewIp(VirtualIps, range, MaxVirtualIps),
         NEW k, IsConnection(k), k.VirtualIp = b.VirtualIp, Begun(p, k),
         Connections' = Append(Connections, k), Use,
         Arrives(ToService(b, p))
  PROVE  ServerGoal /\ Follows(p)
<1> DEFINE c == From(p)
           ip == b.VirtualIp
           sent == ToService(b, p)
<1>1. config \in Configs /\ range \in Ranges /\ ConnectionsInv /\ c \in Client
  BY ThereFacts DEF OwnersInv
<1>2. ip \in Nat /\ (ip = 0 \/ IsVirtual(ip))
  BY <1>1, NewIndexFacts DEF IsVirtual
<1>3. k \in ServerConnection
  BY DEF IsConnection
<1>4. /\ Continues(Connections, Connections') /\ \E j \in DOMAIN Connections' : Connections'[j] = k
      /\ \A i \in DOMAIN Connections' :
           Connections'[i] = k \/ \E j \in DOMAIN Connections : Connections'[i] = Connections[j]
  BY <1>3, AppendContinues
<1>5. ASSUME NEW q \in sent, q.body.kind = "data"
      PROVE  /\ Waits(q) /\ q.src = ip /\ q.body.from = c
             /\ config.Mode \in Redirect => q.sport = p.sport
  BY <1>1, <1>2, <1>5, ToServiceWaits
<1> HIDE DEF c, sent, ip
<1>6. ASSUME NEW q \in sent, q.body.kind = "data"
      PROVE  /\ Waits(q)
             /\ \E j \in DOMAIN Connections' :
                  /\ Connections'[j].VirtualIp = q.src /\ Owns(q.body.from, Connections'[j])
                  /\ config.Mode \in Redirect => Connections'[j].ClientPort = q.sport
  BY <1>4, <1>5, <1>6 DEF c, ip, Begun
<1>7. Arrives(sent)
  BY DEF sent
<1>8. \A r \in pending' :
        r.kept \in BOOLEAN /\ Waits(r.packet) /\ Served(r, Connections')
  BY <1>4, <1>6, <1>7, ArrivesServed
<1>9. ConnectionsOf(Connections', VirtualIps')
  BY <1>1, ConnectionAdded DEF Use
<1>10. \A i \in DOMAIN Connections' :
         \/ \E j \in DOMAIN Connections : Kept(Connections[j], Connections'[i])
         \/ Begun(p, Connections'[i])
  BY <1>4 DEF Kept
<1> QED
  BY <1>8, <1>9, <1>10 DEF ServerGoal, Follows

\* No connection takes it.
LEMMA PassedServes ==
  ASSUME OwnersInv, NEW p, There(p), Intact(p), ~IsRequest(p), Connections' = Connections,
         ConnectionsOf(Connections, VirtualIps'), Arrives({p})
  PROVE  ServerGoal /\ Follows(p)
<1>1. range \in Ranges
  BY DEF OwnersInv
<1>2. Continues(Connections, Connections')
  BY DEF Continues
<1>3. ASSUME p.body.kind = "data"
      PROVE  Waits(p) /\ ~IsVirtual(p.src)
  <2>1. ThereData(p)
    BY <1>3 DEF There, ThereTunnel
  <2>2. ~p.body.reply
    BY <2>1 DEF ThereData, Asked
  <2>3. ~Carriable(p.body.flow)
    BY <1>3, <2>2 DEF IsRequest, Carriable
  <2> QED
    BY <1>1, <1>3, <2>3, PassedWaits
<1>4. \A r \in pending' :
        r.kept \in BOOLEAN /\ Waits(r.packet) /\ Served(r, Connections')
  BY <1>2, <1>3, ArrivesServed
<1> QED
  BY <1>4 DEF ServerGoal, Follows, Kept

\* ProcessCapturedPackets keeps connections, addresses and requests with their
\* clients.
LEMMA ServerProcessesOwners ==
  ASSUME OwnersInv, NEW p, There(p), Tunnelled(p), config.Mode \notin Sockets,
         IsServerConfigForInboundPacket(p), ServerProcesses(p)
  PROVE  ServerGoal /\ Follows(p)
<1> DEFINE i == InboundIndex(p)
           new == NewServerConnection(p)
<1>1. /\ config \in Configs /\ range \in Ranges /\ ConnectionsInv
      /\ p.sport \in Nat /\ p.dport \in Nat
  BY ThereFacts DEF OwnersInv
<1>2. /\ HasPorts(p.proto) /\ p.dport \in AllPorts(config.TunnelPorts)
      /\ p.proto = GetTunnelProtocol(config.Mode)
  <2>1. p.proto = GetTunnelProtocol(config.Mode) /\ IsPortInRange(config.TunnelPorts, p.dport)
    BY DEF IsServerConfigForInboundPacket
  <2>2. HasPorts(p.proto)
    BY <2>1 DEF GetTunnelProtocol, HasPorts
  <2>3. p.dport \in AllPorts(config.TunnelPorts)
    BY <1>1, <2>1, PortOfRange, PortType
  <2> QED
    BY <2>1, <2>2, <2>3
<1>3. ASSUME NEW k, TakesInbound(k, p)
      PROVE  /\ config.Mode \notin Redirect => Carries(p)
             /\ config.Mode \in Redirect => k.ClientPort = p.sport
  BY <1>3 DEF TakesInbound, Redirect
<1>4. CASE i # 0
  <2> DEFINE b == Connections[i]
             k == AfterInbound(b, p)
  <2>1. /\ Connections' = [Connections EXCEPT ![i] = AfterInbound(@, p)]
        /\ Arrives(ToService(b, p)) /\ VirtualIps' = VirtualIps
    BY <1>4 DEF ServerProcesses, InboundIndex
  <2>2. TakesInbound(b, p) /\ i \in DOMAIN Connections
    <3> DEFINE I == {j \in 1 .. Len(Connections) : TakesInbound(Connections[j], p)}
    <3>1. i = IF I # {} THEN Min(I) ELSE 0
      BY DEF InboundIndex, SelectInSeq
    <3>2. I \subseteq Nat
      OBVIOUS
    <3>3. DOMAIN Connections = 1 .. Len(Connections)
      BY <1>1 DEF ConnectionsInv, ConnectionsOf
    <3> HIDE DEF I, i
    <3>4. i \in I
      BY <1>4, <3>1, <3>2, IndexIn
    <3> QED
      BY <3>3, <3>4 DEF I
  <2> HIDE DEF i
  <2>3. IsConnection(b)
    BY <1>1, <2>2, ConnectionFacts
  <2>4. Owns(From(p), b) /\ From(p) \in Client
    BY <1>1, <1>2, <2>2, <2>3, TakesOwner, ThereFacts
  <2>5. Prepared(From(p), b)
    BY <2>3, <2>4, OwnerPrepared
  <2>6. /\ IsConnection(k) /\ Owns(From(p), k) /\ k.VirtualIp = b.VirtualIp
        /\ k.ClientPort = b.ClientPort /\ k.TunnelPort = b.TunnelPort
    BY <1>1, <1>2, <2>2, <2>5, AfterOwns
  <2>7. Connections' = [Connections EXCEPT ![i] = k]
    BY <2>1
  <2> HIDE DEF k
  <2>8. Kept(b, k)
    BY <2>4, <2>6, OneOwner DEF Kept
  <2> QED
    BY <1>2, <1>3, <2>1, <2>2, <2>4, <2>6, <2>7, <2>8, KnownServes
<1>5. CASE i = 0 /\ TakesInbound(new, p)
  <2> DEFINE k == AfterInbound(new, p)
  <2>1. Connections' = Append(Connections, k) /\ Arrives(ToService(new, p)) /\ Use
    BY <1>5 DEF ServerProcesses, InboundIndex
  <2>2. /\ Prepared(From(p), new) /\ new.VirtualIp = GetNewIp(VirtualIps, range, MaxVirtualIps)
        /\ new.ClientPort = p.sport /\ new.TunnelPort = p.dport
    BY <1>1, <1>2, NewPrepared DEF NewServerConnection
  <2>3. TakesInbound(new, p)
    BY <1>5
  <2> HIDE DEF new
  <2>4. /\ IsConnection(k) /\ Owns(From(p), k) /\ k.VirtualIp = new.VirtualIp
        /\ k.ClientPort = new.ClientPort /\ k.TunnelPort = new.TunnelPort
    BY <1>1, <1>2, <2>2, <2>3, AfterOwns
  <2> HIDE DEF k
  <2>5. Begun(p, k)
    BY <1>2, <1>3, <2>2, <2>3, <2>4 DEF Begun
  <2> QED
    BY <1>2, <1>3, <2>1, <2>2, <2>3, <2>4, <2>5, NewServes
<1>6. CASE i = 0 /\ ~TakesInbound(new, p)
  <2>1. /\ Connections' = Connections /\ Arrives({p})
        /\ VirtualIps' = ReleaseIp(VirtualIps \cup NewIndex(VirtualIps, range, MaxVirtualIps),
                                   new.VirtualIp, range)
    BY <1>6 DEF ServerProcesses, InboundIndex
  <2>2. new.VirtualIp = GetNewIp(VirtualIps, range, MaxVirtualIps)
    BY DEF NewServerConnection
  <2>3. ConnectionsOf(Connections, VirtualIps')
    BY <1>1, <2>1, <2>2, AddressReturned
  <2>4. new.ClientIp = p.src /\ new.ClientPort = p.sport
    BY DEF NewServerConnection
  <2>5. config.Mode \notin Redirect
    BY <1>6, <2>4, RedirectTakes
  <2>6. ~IsRequest(p)
    BY <2>5 DEF Tunnelled
  <2>7. Intact(p)
    BY <2>6 DEF Intact
  <2> QED
    BY <2>1, <2>3, <2>6, <2>7, PassedServes
<1> QED
  BY <1>4, <1>5, <1>6

\* So does an answer thread of the host, by the session.
LEMMA HostReceivesOwners ==
  ASSUME OwnersInv, NEW p, There(p), Tunnelled(p), config.Mode \in Sockets, Carries(p), HostReceives(p)
  PROVE  ServerGoal /\ Follows(p)
<1> DEFINE session == p.body.session
           i == SelectInSeq(Connections, LAMBDA k : k.Session = p.body.session)
           new == [NewServerConnection(p) EXCEPT !.Session = session]
           m == Carried(p)
           c == From(p)
<1>1. config \in Configs /\ range \in Ranges /\ ConnectionsInv
  BY DEF OwnersInv
<1>2. config.Mode \in Sessions /\ config.Mode \notin Redirect
  BY DEF Sessions, Sockets, Redirect
<1>3. /\ c \in Client /\ m \in DataPacket /\ m.src = LocalIp[c] /\ IsValidChecksum(m)
      /\ ThereTunnel(p)
  BY ThereFacts
<1>4. session \in {c} \X Nat
  BY <1>2, SessionFacts
<1>5. HasPorts(p.proto)
  BY <1>3 DEF ThereTunnel, HasPorts
<1>6. CASE i # 0
  <2> DEFINE b == Connections[i]
             k == Learn(b, m)
  <2>1. /\ Connections' = [Connections EXCEPT ![i] = k] /\ VirtualIps' = VirtualIps
        /\ Arrives(ToService(b, p))
    BY <1>3, <1>6 DEF HostReceives
  <2>2. b.Session = session /\ i \in DOMAIN Connections
    <3> DEFINE I == {j \in 1 .. Len(Connections) : Connections[j].Session = p.body.session}
    <3>1. i = IF I # {} THEN Min(I) ELSE 0
      BY DEF SelectInSeq
    <3>2. I \subseteq Nat
      OBVIOUS
    <3>3. DOMAIN Connections = 1 .. Len(Connections)
      BY <1>1 DEF ConnectionsInv, ConnectionsOf
    <3> HIDE DEF I, i
    <3>4. i \in I
      BY <1>6, <3>1, <3>2, IndexIn
    <3> QED
      BY <3>3, <3>4 DEF I
  <2> HIDE DEF i
  <2>3. IsConnection(b)
    BY <1>1, <2>2, ConnectionFacts
  <2>4. PICK d \in Client : Owns(d, b)
    BY <2>3 DEF IsConnection
  <2>5. b.Session \in {d} \X Nat
    BY <1>2, <2>4 DEF Owns
  <2>6. d = c
    BY <1>3, <1>4, <2>2, <2>5, SessionOwner
  <2>7. Owns(c, b)
    BY <2>4, <2>6
  <2> HIDE DEF c, m, session
  <2>8. Prepared(c, b) /\ b.Session \in {c} \X Nat
    BY <1>3, <1>4, <2>2, <2>3, <2>7, OwnerPrepared
  <2>9. /\ IsConnection(k) /\ Owns(c, k) /\ k.VirtualIp = b.VirtualIp
        /\ k.ClientPort = b.ClientPort /\ k.TunnelPort = b.TunnelPort /\ k.Session = b.Session
    BY <1>3, <2>8, LearnOwns
  <2> HIDE DEF k
  <2>10. Kept(b, k)
    BY <1>3, <2>7, <2>9, OneOwner DEF Kept
  <2> QED
    BY <1>2, <2>1, <2>2, <2>7, <2>9, <2>10, KnownServes DEF c
<1>7. CASE i = 0
  <2> DEFINE k == Learn(new, m)
             n == NewServerConnection(p)
  <2>1. /\ Connections' = Append(Connections, k) /\ Use /\ Arrives(ToService(new, p))
    BY <1>3, <1>7 DEF HostReceives
  <2>2. Prepared(c, n) /\ n.VirtualIp = GetNewIp(VirtualIps, range, MaxVirtualIps)
    BY <1>1, <1>2, <1>5, NewPrepared
  <2>3. n \in ServerConnection /\ session \in {<<>>} \cup (Client \X Nat)
    BY <1>3, <1>4, <2>2 DEF Prepared
  <2> HIDE DEF n, c, m, session
  <2>4. /\ new \in ServerConnection /\ new.Session = session
        /\ new.ClientIp = n.ClientIp /\ new.VirtualIp = n.VirtualIp /\ new.ClientPort = n.ClientPort
        /\ new.TunnelPort = n.TunnelPort /\ new.Ports = n.Ports
    BY <2>3, SessionSet DEF n
  <2> HIDE DEF new
  <2>5. Prepared(c, new)
    BY <2>2, <2>4 DEF Prepared
  <2>6. /\ IsConnection(k) /\ Owns(c, k) /\ k.VirtualIp = new.VirtualIp
        /\ k.ClientPort = new.ClientPort /\ k.TunnelPort = new.TunnelPort /\ k.Session = new.Session
    BY <1>3, <1>4, <2>4, <2>5, LearnOwns
  <2> HIDE DEF k
  <2>7. n.ClientPort = p.sport /\ n.TunnelPort = p.dport
    BY DEF n, NewServerConnection
  <2>8. Begun(p, k)
    BY <1>2, <2>4, <2>6, <2>7 DEF Begun, c, session
  <2> QED
    BY <1>2, <2>1, <2>2, <2>4, <2>6, <2>8, NewServes DEF c
<1> QED
  BY <1>6, <1>7

\* A packet that arrives at the server is one that a client sent.
LEMMA FromClient ==
  ASSUME OwnersInv, NEW p \in net, p.dst = Server
  PROVE  There(p)
BY DEF OwnersInv, NetInv, There, BackData, BackTunnel

\* Whatever the server does with a packet.
LEMMA ServerReceivesOwners ==
  ASSUME OwnersInv, ArriveInv, NEW p \in net, ServerReceives(p)
  PROVE  ServerGoal /\ Follows(p)
<1>1. There(p) /\ Tunnelled(p) /\ config \in Configs /\ p.dst = Server
  BY FromClient DEF ServerReceives, ArriveInv
<1>2. CASE /\ Captured(ServerFilters, p, FALSE) /\ IsServerConfigForInboundPacket(p)
           /\ config.Mode \notin Sockets /\ ServerProcesses(p)
  BY <1>1, <1>2, ServerProcessesOwners
<1>3. CASE config.Mode \in Sockets /\ Carries(p) /\ HostReceives(p)
  BY <1>1, <1>3, HostReceivesOwners
<1>4. CASE /\ ~(Captured(ServerFilters, p, FALSE) /\ IsServerConfigForInboundPacket(p)
                /\ config.Mode \notin Sockets)
           /\ Arrives({p}) /\ UNCHANGED <<Connections, VirtualIps>>
  <2>1. ~IsRequest(p)
    <3> SUFFICES ASSUME IsRequest(p) PROVE FALSE
      OBVIOUS
    <3>1. /\ config.Mode \in Redirect
          /\ Captured(ServerFilters, p, FALSE) /\ IsServerConfigForInboundPacket(p)
      BY <1>1, RedirectIsTaken
    <3> QED
      BY <1>4, <3>1 DEF Redirect, Sockets
  <2>2. Intact(p)
    BY <2>1 DEF Intact
  <2>3. ConnectionsOf(Connections, VirtualIps')
    BY <1>4 DEF OwnersInv, ConnectionsInv
  <2> QED
    BY <1>1, <1>4, <2>1, <2>2, <2>3, PassedServes
<1> QED
  BY <1>2, <1>3, <1>4 DEF ServerReceives

-----------------------------------------------------------------------------
(* Answers *)

\* What a service answers.
LEMMA ReplyFacts ==
  ASSUME OwnersInv, NEW r \in pending
  PROVE  LET p == Reply(r) q == r.packet IN
         /\ p \in DataPacket /\ p.body.reply /\ p.src = Server /\ p.dst = q.src
         /\ p.proto = q.proto /\ p.sport = q.dport /\ p.dport = q.sport /\ p.enc = q.enc
         /\ p.body.from = q.body.from /\ p.body.flow = q.body.flow
         /\ p.body.kept => r.kept /\ q.src # 0
         /\ Waits(q) /\ Served(r, Connections)
<1> DEFINE p == Reply(r)
           q == r.packet
<1>1. Waits(q) /\ Served(r, Connections)
  BY DEF OwnersInv, PendingInv
<1> HIDE DEF q
<1>2. q \in DataPacket /\ q.dst = Server
  BY <1>1 DEF Waits, Asked
<1>3. /\ p.src = q.dst /\ p.dst = q.src /\ p.proto = q.proto /\ p.sport = q.dport /\ p.dport = q.sport
      /\ p.enc = q.enc /\ p.body.reply = TRUE
      /\ p.body.from = q.body.from /\ p.body.flow = q.body.flow
      /\ p.body.kept = (r.kept /\ q.src # 0)
  BY DEF Reply, q
<1>4. p.body \in Body
  BY <1>2, DataFields DEF Reply, Body, q
<1>5. p \in DataPacket
  BY <1>2, <1>4, DataFields DEF Reply, DataPacket, q
<1> QED
  BY <1>1, <1>2, <1>3, <1>5 DEF q

\* A reply that no connection takes.
LEMMA PlainBack ==
  ASSUME OwnersInv, NEW r \in pending
  PROVE  BackData(Reply(r))
<1> DEFINE p == Reply(r)
           q == r.packet
<1>0. range \in Ranges
  BY DEF OwnersInv
<1>1. /\ p \in DataPacket /\ p.body.reply /\ p.dst = q.src /\ p.proto = q.proto
      /\ p.dport = q.sport /\ p.enc = q.enc
      /\ p.body.from = q.body.from /\ p.body.flow = q.body.flow
      /\ p.body.kept => q.src # 0
      /\ Waits(q)
  BY ReplyFacts
<1> HIDE DEF p, q
<1>2. /\ q \in DataPacket /\ q.enc \in -1 .. 1 /\ q.body.from \in Client /\ q.body.flow \in Flow
  BY <1>1, DataFields DEF Waits, Asked
<1>3. CASE /\ q.src = OuterIp(q.body.from) /\ ~Carriable(q.body.flow)
           /\ q.sport = OuterPort(q.body.from, q.proto, FlowData[q.body.flow].sport)
  <2>1. q.src # Server
    BY <1>2, <1>3, OuterFacts
  <2>2. FlowData[q.body.flow].sport \in 0 .. 99
    BY <1>2, FlowPort
  <2>3. HasPorts(q.proto) => Reaches(q.body.from, q.src, q.sport)
    BY <1>2, <1>3, <2>2, OuterPortFacts
  <2>4. BackData(p)
    BY <1>1, <1>2, <1>3, <2>1, <2>3 DEF BackData
  <2> QED
    BY <2>4 DEF p
<1>4. CASE q.src = 0 \/ IsVirtual(q.src)
  <2>1. q.src # Server
    BY <1>0, <1>4, VirtualFacts, RouteAssumption
  <2>2. BackData(p)
    BY <1>1, <1>2, <1>4, <2>1 DEF BackData
  <2> QED
    BY <2>2 DEF p
<1> QED
  BY <1>1, <1>3, <1>4 DEF Waits

\* FindByVirtualIp finds a connection with the address.
LEMMA FoundByVirtualIp ==
  ASSUME OwnersInv, NEW ip, FindByVirtualIp(ip) # 0
  PROVE  /\ FindByVirtualIp(ip) \in DOMAIN Connections
         /\ Connections[FindByVirtualIp(ip)].VirtualIp = ip
<1> DEFINE I == {j \in 1 .. Len(Connections) : Connections[j].VirtualIp = ip}
           i == FindByVirtualIp(ip)
<1>1. i = IF I # {} THEN Min(I) ELSE 0
  BY DEF SelectInSeq, FindByVirtualIp
<1>2. I \subseteq Nat /\ i # 0
  OBVIOUS
<1>3. DOMAIN Connections = 1 .. Len(Connections)
  BY DEF OwnersInv, ConnectionsInv, ConnectionsOf
<1> HIDE DEF I, i
<1>4. i \in I
  BY <1>1, <1>2, IndexIn
<1> QED
  BY <1>3, <1>4 DEF I, i

\* The connection a reply is sent through: it is a client's, and that of the
\* client which asked when the reply is kept.
LEMMA ReplyConnection ==
  ASSUME OwnersInv, NEW r \in pending, FindByVirtualIp(Reply(r).dst) # 0
  PROVE  LET k == Connections[FindByVirtualIp(Reply(r).dst)] q == r.packet IN
         /\ IsConnection(k)
         /\ q.enc \in -1 .. 1
         /\ Carriable(q.body.flow) => q.enc = 0
         /\ config.Mode \in Redirect =>
              /\ HasPorts(q.proto)
              /\ q.sport = OuterPort(q.body.from, q.proto, FlowData[q.body.flow].sport)
         /\ config.Mode \notin Redirect => q.enc = 0
         /\ Reply(r).body.kept =>
              Owns(q.body.from, k) /\ (config.Mode \in Redirect => k.ClientPort = q.sport)
<1> DEFINE p == Reply(r)
           q == r.packet
           i == FindByVirtualIp(p.dst)
           k == Connections[i]
<1>0. range \in Ranges /\ ConnectionsInv
  BY DEF OwnersInv
<1>1. /\ p.dst = q.src
      /\ p.body.kept => r.kept /\ q.src # 0
      /\ Waits(q) /\ Served(r, Connections)
  BY ReplyFacts
<1>2. i \in DOMAIN Connections /\ k.VirtualIp = p.dst
  BY FoundByVirtualIp
<1> HIDE DEF p, i
<1>3. IsConnection(k) /\ (q.src = 0 \/ IsVirtual(q.src))
  BY <1>0, <1>1, <1>2, ConnectionFacts
<1>4. Asked(q) /\ q.body.from \in Client
  BY <1>1, DataFields DEF Waits, Asked
<1>5. q.src # OuterIp(q.body.from)
  BY <1>0, <1>3, <1>4, OuterFacts, VirtualFacts
<1>6. /\ q.enc \in -1 .. 1
      /\ Carriable(q.body.flow) => q.enc = 0
      /\ config.Mode \in Redirect =>
           /\ HasPorts(q.proto)
           /\ q.sport = OuterPort(q.body.from, q.proto, FlowData[q.body.flow].sport)
      /\ config.Mode \notin Redirect => q.enc = 0
  BY <1>1, <1>5 DEF Waits
<1>7. ASSUME p.body.kept
      PROVE  Owns(q.body.from, k) /\ (config.Mode \in Redirect => k.ClientPort = q.sport)
  <2>1. IsVirtual(q.src) /\ r.kept /\ q.src # 0
    BY <1>1, <1>3, <1>7
  <2>2. PICK j \in DOMAIN Connections :
          /\ Connections[j].VirtualIp = q.src /\ Owns(q.body.from, Connections[j])
          /\ config.Mode \in Redirect => Connections[j].ClientPort = q.sport
    BY <1>1, <2>1 DEF Served
  <2>3. i = j
    BY <1>0, <1>1, <1>2, <2>1, <2>2 DEF ConnectionsInv, ConnectionsOf, Apart
  <2> QED
    BY <2>2, <2>3
<1> QED
  BY <1>3, <1>6, <1>7 DEF p, i

\* The address and the ports a connection sends to.
LEMMA ConnectionReach ==
  ASSUME NEW k, IsConnection(k)
  PROVE  /\ k \in ServerConnection /\ k.ClientIp \in Nat /\ k.ClientIp # Server
         /\ k.ClientPort \in Nat /\ k.TunnelPort \in Nat /\ k.ClientLocalIp \in Nat
<1>1. PICK c \in Client : Owns(c, k)
  BY DEF IsConnection
<1>2. k.ClientIp = OuterIp(c)
  BY <1>1 DEF Owns, Reaches
<1> QED
  BY <1>2, OuterFacts DEF IsConnection, ServerConnection

\* What a redirect answers with: the reply, from the connection's port and to its address.
LEMMA RedirectAnswer ==
  ASSUME OwnersInv, NEW r \in pending, config.Mode \in Redirect, FindByVirtualIp(Reply(r).dst) # 0,
         NEW x \in RedirectAnswers(Connections[FindByVirtualIp(Reply(r).dst)], Reply(r))
  PROVE  LET k == Connections[FindByVirtualIp(Reply(r).dst)] q == r.packet IN
         /\ x \in DataPacket /\ x.src = Server /\ x.dst = k.ClientIp /\ x.proto = q.proto
         /\ x.sport = k.TunnelPort /\ x.dport = q.sport /\ x.body = Reply(r).body
         /\ x.enc = q.enc + 1 /\ x.enc \in -1 .. 2
<1> DEFINE p == Reply(r)
           q == r.packet
           k == Connections[FindByVirtualIp(Reply(r).dst)]
           s == SetSrcPort(p, k.TunnelPort)
           d == SetDesIp(s, k.ClientIp)
           e == EncryptPacket(d)
<1>1. /\ p \in DataPacket /\ p.body.reply /\ p.src = Server /\ p.proto = q.proto
      /\ p.dport = q.sport /\ p.enc = q.enc
      /\ p.body.from = q.body.from /\ p.body.flow = q.body.flow
      /\ Waits(q)
  BY ReplyFacts
<1>2. /\ IsConnection(k) /\ q.enc \in -1 .. 1
      /\ Carriable(q.body.flow) => q.enc = 0
      /\ HasPorts(q.proto)
      /\ q.sport = OuterPort(q.body.from, q.proto, FlowData[q.body.flow].sport)
      /\ p.body.kept => Owns(q.body.from, k)
  BY ReplyConnection
<1>3. x = RecalculateChecksum(e)
  BY DEF RedirectAnswers
<1>4. /\ q.body.from \in Client /\ q.body.flow \in Flow /\ q.proto = FlowData[q.body.flow].proto
  BY <1>1, DataFields DEF Waits, Asked
<1> HIDE DEF p, q, k
<1>5. k.ClientIp \in Nat /\ k.ClientIp # Server /\ k.TunnelPort \in Nat
  BY <1>2, ConnectionReach
<1>6. /\ s \in DataPacket /\ s.src = p.src /\ s.dst = p.dst /\ s.proto = p.proto
      /\ s.sport = k.TunnelPort /\ s.dport = p.dport /\ s.enc = p.enc /\ s.body = p.body
  BY <1>1, <1>5, SetSrcPortData
<1> HIDE DEF s
<1>7. /\ d \in DataPacket /\ d.src = s.src /\ d.dst = k.ClientIp /\ d.proto = s.proto
      /\ d.sport = s.sport /\ d.dport = s.dport /\ d.enc = s.enc /\ d.body = s.body
  BY <1>5, <1>6, SetDesIpData
<1> HIDE DEF d
<1>8. d.enc < 2
  BY <1>1, <1>2, <1>6, <1>7
<1>9. /\ e \in DataPacket /\ e.src = d.src /\ e.dst = d.dst /\ e.proto = d.proto
      /\ e.sport = d.sport /\ e.dport = d.dport /\ e.body = d.body
      /\ e.enc = IF HasPorts(d.proto) THEN d.enc + 1 ELSE d.enc
  BY <1>7, <1>8, EncryptData
<1> HIDE DEF e
<1>10. /\ x \in DataPacket /\ x.src = e.src /\ x.dst = e.dst /\ x.proto = e.proto
       /\ x.sport = e.sport /\ x.dport = e.dport /\ x.body = e.body /\ x.enc = e.enc
  BY <1>3, <1>9, ChecksumData
<1>11. /\ x.src = Server /\ x.dst = k.ClientIp /\ x.proto = q.proto
       /\ x.sport = k.TunnelPort /\ x.dport = q.sport /\ x.body = p.body /\ x.enc = q.enc + 1
  BY <1>1, <1>2, <1>6, <1>7, <1>9, <1>10
<1>12. x.enc \in -1 .. 2
  BY <1>2, <1>11
<1> QED
  BY <1>10, <1>11, <1>12 DEF p, q, k

\* A redirect's answer goes to the client that asked, as it expects it.
LEMMA RedirectBack ==
  ASSUME OwnersInv, NEW r \in pending, config.Mode \in Redirect, FindByVirtualIp(Reply(r).dst) # 0,
         NEW x \in RedirectAnswers(Connections[FindByVirtualIp(Reply(r).dst)], Reply(r))
  PROVE  BackData(x)
<1> DEFINE p == Reply(r)
           q == r.packet
           k == Connections[FindByVirtualIp(Reply(r).dst)]
<1>1. /\ p.body.reply /\ p.body.from = q.body.from /\ p.body.flow = q.body.flow /\ Waits(q)
  BY ReplyFacts
<1>2. /\ IsConnection(k)
      /\ Carriable(q.body.flow) => q.enc = 0
      /\ HasPorts(q.proto)
      /\ q.sport = OuterPort(q.body.from, q.proto, FlowData[q.body.flow].sport)
      /\ p.body.kept => Owns(q.body.from, k)
  BY ReplyConnection
<1>3. /\ x \in DataPacket /\ x.src = Server /\ x.dst = k.ClientIp /\ x.proto = q.proto
      /\ x.sport = k.TunnelPort /\ x.dport = q.sport /\ x.body = p.body
      /\ x.enc = q.enc + 1 /\ x.enc \in -1 .. 2
  BY RedirectAnswer
<1>4. /\ q.body.from \in Client /\ q.body.flow \in Flow /\ q.proto = FlowData[q.body.flow].proto
  BY <1>1, DataFields DEF Waits, Asked
<1> HIDE DEF p, q, k
<1>5. k.ClientIp # Server
  BY <1>2, ConnectionReach
<1>6. FlowData[q.body.flow].sport \in 0 .. 99
  BY <1>4, FlowPort
<1>7. ASSUME p.body.kept
      PROVE  /\ x.dst = OuterIp(q.body.from) /\ Reaches(q.body.from, x.dst, x.dport)
  <2>1. x.dst = OuterIp(q.body.from)
    BY <1>2, <1>3, <1>7 DEF Owns, Reaches
  <2>2. Reaches(q.body.from, OuterIp(q.body.from), q.sport)
    <3> DEFINE c == q.body.from
               proto == q.proto
               port == FlowData[q.body.flow].sport
    <3>1. /\ c \in Client /\ port \in 0 .. 99 /\ HasPorts(proto)
          /\ q.sport = OuterPort(c, proto, port)
      BY <1>2, <1>4, <1>6
    <3> HIDE DEF c, proto, port
    <3>2. Reaches(c, OuterIp(c), OuterPort(c, proto, port))
      BY <3>1, OuterPortFacts
    <3> QED
      BY <3>1, <3>2 DEF c
  <2> QED
    BY <1>3, <2>1, <2>2
<1>8. ASSUME Carriable(q.body.flow)
      PROVE  /\ x.enc = 1 /\ x.sport \in AllPorts(config.TunnelPorts)
             /\ x.proto = FlowData[q.body.flow].proto
             /\ x.dport = OuterPort(q.body.from, x.proto, FlowData[q.body.flow].sport)
  BY <1>2, <1>3, <1>4, <1>8 DEF IsConnection
<1> QED
  BY <1>1, <1>3, <1>5, <1>7, <1>8 DEF BackData

\* What a connection of the other modes sends: the reply inside, to a port from
\* which its client has sent.
LEMMA WrapBack ==
  ASSUME OwnersInv, NEW r \in pending, config.Mode \notin Redirect, FindByVirtualIp(Reply(r).dst) # 0,
         NEW k, k = Connections[FindByVirtualIp(Reply(r).dst)],
         NEW session, NEW protocol \in {"TCP", "UDP"}, NEW src, NEW sport,
         NEW dport, dport = k.ClientPort \/ \E i \in DOMAIN k.Ports : dport = k.Ports[i][2]
  PROVE  BackTunnel(Wrap(ForClient(k, Reply(r)), session, protocol, src, k.ClientIp, sport, dport))
<1> DEFINE p == Reply(r)
           q == r.packet
           s == SetDesIp(p, k.ClientLocalIp)
           m == ForClient(k, p)
           w == Wrap(m, session, protocol, src, k.ClientIp, sport, dport)
<1>1. /\ p \in DataPacket /\ p.body.reply /\ p.src = Server /\ p.enc = q.enc
      /\ p.body.from = q.body.from
  BY ReplyFacts
<1>2. IsConnection(k) /\ q.enc = 0 /\ (p.body.kept => Owns(q.body.from, k))
  BY ReplyConnection
<1>3. m = RecalculateChecksum(s)
  BY DEF ForClient
<1> HIDE DEF p, q
<1>4. k.ClientIp # Server /\ k.ClientLocalIp \in Nat
  BY <1>2, ConnectionReach
<1>5. /\ s \in DataPacket /\ s.src = p.src /\ s.dst = k.ClientLocalIp /\ s.enc = p.enc /\ s.body = p.body
  BY <1>1, <1>4, SetDesIpData
<1> HIDE DEF s, m
<1>6. /\ m \in DataPacket /\ m.src = Server /\ m.dst = k.ClientLocalIp /\ m.enc = 0 /\ m.body = p.body
  BY <1>1, <1>2, <1>3, <1>5, ChecksumData
<1>7. /\ w.dst = k.ClientIp /\ w.proto = protocol /\ w.dport = dport
      /\ w.body.kind = "packet" /\ w.body.packet = m
  BY WrapFacts
<1> HIDE DEF w
<1>8. ASSUME p.body.kept
      PROVE  Reaches(m.body.from, w.dst, w.dport) /\ m.dst = LocalIp[m.body.from]
  <2>1. Owns(m.body.from, k)
    BY <1>1, <1>2, <1>6, <1>8
  <2>2. Reaches(m.body.from, k.ClientIp, dport)
    BY <2>1 DEF Owns
  <2>3. k.ClientLocalIp = LocalIp[m.body.from]
    BY <2>1 DEF Owns
  <2> QED
    BY <1>6, <1>7, <2>2, <2>3
<1>9. BackTunnel(w)
  BY <1>1, <1>4, <1>6, <1>7, <1>8 DEF BackTunnel
<1> QED
  BY <1>9 DEF w, m, p

\* Whatever the server's connection sends goes to the client that asked.
LEMMA AnswersBack ==
  ASSUME OwnersInv, NEW r \in pending, FindByVirtualIp(Reply(r).dst) # 0,
         NEW x \in ServerSends(Connections[FindByVirtualIp(Reply(r).dst)], Reply(r))
  PROVE  BackData(x) \/ BackTunnel(x)
<1> DEFINE p == Reply(r)
           k == Connections[FindByVirtualIp(Reply(r).dst)]
<1>1. CASE config.Mode \in Redirect
  BY <1>1, RedirectBack DEF ServerSends, Redirect
<1>2. CASE config.Mode = "UDP-Simple-Tunnel"
  <2>1. x \in SimpleAnswers(k, p) /\ config.Mode \notin Redirect
    BY <1>2 DEF ServerSends, Redirect
  <2>2. x = Wrap(ForClient(k, p), <<>>, "UDP", p.src, k.ClientIp, k.TunnelPort, k.ClientPort)
    BY <2>1 DEF SimpleAnswers
  <2> QED
    BY <2>1, <2>2, WrapBack
<1>3. CASE config.Mode = "UDP-Tunnel"
  <2>1. x \in UdpAnswers(k, p) /\ config.Mode \notin Redirect
    BY <1>3 DEF ServerSends, Redirect
  <2>2. PICK i \in DOMAIN k.Ports :
          x = Wrap(ForClient(k, p), <<>>, "UDP", k.LocalIp, k.ClientIp, k.Ports[i][1], k.Ports[i][2])
    BY <2>1 DEF UdpAnswers
  <2> QED
    BY <2>1, <2>2, WrapBack
<1>4. CASE config.Mode \notin Redirect \cup {"UDP-Simple-Tunnel", "UDP-Tunnel"}
  <2>1. x \in SocketAnswers(k, p)
    BY <1>4 DEF ServerSends
  <2>2. x = Wrap(ForClient(k, p), k.Session, "TCP", k.LocalIp, k.ClientIp, k.TunnelPort, k.ClientPort)
    BY <2>1 DEF SocketAnswers
  <2> QED
    BY <1>4, <2>2, WrapBack
<1> QED
  BY <1>1, <1>2, <1>3, <1>4

\* What an answer adds to the network.
LEMMA ServiceRepliesOwners ==
  ASSUME OwnersInv, NEW r \in pending, ServiceReplies(r)
  PROVE  \A x \in net' : x \in net \/ BackData(x) \/ BackTunnel(x)
<1> DEFINE p == Reply(r)
           i == IF Captured(ServerFilters, p, TRUE) THEN FindByVirtualIp(p.dst) ELSE 0
<1>1. \/ net' = net \cup {p}
      \/ i # 0 /\ \E q \in ServerSends(Connections[i], p) : net' = net \cup {q}
      \/ net' = net
  BY DEF ServiceReplies
<1>2. i # 0 => i = FindByVirtualIp(p.dst)
  OBVIOUS
<1>3. BackData(p)
  BY PlainBack
<1>4. ASSUME i # 0, NEW q \in ServerSends(Connections[i], p)
      PROVE  BackData(q) \/ BackTunnel(q)
  BY <1>2, <1>4, AnswersBack
<1> HIDE DEF i, p
<1> QED
  BY <1>1, <1>3, <1>4

-----------------------------------------------------------------------------
(* What reaches an application *)

\* What holds of a packet an application of a client gets.
Right(c, p) ==
  /\ p \in DataPacket
  /\ p.body.kept =>
       /\ p.body.from = c
       /\ Carriable(p.body.flow) => p.src = Server /\ p.dst = LocalIp[c] /\ p.enc = 0 /\ p.sums = AllSums

\* What Delivers adds to what an application got.
LEMMA DeliversRight ==
  ASSUME OwnersInv, NEW c \in Client, NEW p, Delivers(c, p),
         p.body.kind = "data" /\ (\E f \in Flow : Answers(c, p, f)) => Right(c, p)
  PROVE  /\ got' \in [Client -> SUBSET DataPacket]
         /\ \A d \in Client : \A x \in got'[d] : x \in got[d] \/ Right(d, x)
<1>1. got \in [Client -> SUBSET DataPacket]
  BY DEF OwnersInv, ClientsInv
<1>2. CASE p.body.kind = "data" /\ \E f \in Flow : Answers(c, p, f)
  <2>1. got' = [got EXCEPT ![c] = @ \cup {p}]
    BY <1>2 DEF Delivers
  <2>2. Right(c, p) /\ p \in DataPacket
    BY <1>2 DEF Right
  <2>3. got' \in [Client -> SUBSET DataPacket]
    BY <1>1, <2>1, <2>2
  <2>4. \A d \in Client : \A x \in got'[d] : x \in got[d] \/ (d = c /\ x = p)
    BY <1>1, <2>1
  <2> QED
    BY <2>2, <2>3, <2>4
<1>3. CASE ~(p.body.kind = "data" /\ \E f \in Flow : Answers(c, p, f))
  <2>1. got' = got
    BY <1>3 DEF Delivers
  <2> QED
    BY <1>1, <2>1
<1> QED
  BY <1>2, <1>3

\* A packet at a client is an answer, and for that client when it is kept.
LEMMA AtClient ==
  ASSUME OwnersInv, NEW p \in net, NEW c \in Receivers(p)
  PROVE  /\ c \in Client /\ p.dst = OuterIp(c)
         /\ BackData(p) \/ BackTunnel(p)
         /\ BackData(p) /\ p.body.kept => p.body.from = c /\ ~IsVirtual(p.dst)
         /\ BackTunnel(p) /\ p.body.packet.body.kept => p.body.packet.body.from = c
<1>1. /\ c \in Client /\ p.dst = OuterIp(c)
      /\ \A d \in Client : p.dst = OuterIp(d) /\ (HasPorts(p.proto) => Reaches(d, p.dst, p.dport)) => c = d
  BY ReceiverIs
<1>2. p.dst # Server /\ range \in Ranges
  BY <1>1, OuterFacts DEF OwnersInv
<1>3. BackData(p) \/ BackTunnel(p)
  BY <1>2 DEF OwnersInv, NetInv, ThereData, ThereTunnel, Asked
<1>4. ~IsVirtual(p.dst)
  BY <1>1, <1>2, VirtualFacts
<1>5. ASSUME BackData(p), p.body.kept PROVE p.body.from = c
  <2>1. p.body.from \in Client
    BY <1>5, DataFields DEF BackData
  <2>2. p.dst = OuterIp(p.body.from) /\ (HasPorts(p.proto) => Reaches(p.body.from, p.dst, p.dport))
    BY <1>4, <1>5 DEF BackData
  <2> QED
    BY <1>1, <2>1, <2>2
<1>6. ASSUME BackTunnel(p), p.body.packet.body.kept PROVE p.body.packet.body.from = c
  <2> DEFINE m == p.body.packet
  <2>1. m.body.from \in Client
    BY <1>6, DataFields DEF BackTunnel
  <2>2. Reaches(m.body.from, p.dst, p.dport)
    BY <1>6 DEF BackTunnel
  <2>3. p.dst = OuterIp(m.body.from)
    BY <2>2 DEF Reaches
  <2> HIDE DEF m
  <2>4. c = m.body.from
    BY <1>1, <2>1, <2>2, <2>3
  <2> QED
    BY <2>4 DEF m
<1> QED
  BY <1>1, <1>3, <1>4, <1>5, <1>6

\* The NAT does not look into a packet.
LEMMA UnnattedBody ==
  ASSUME NEW p, IsPacket(p), NEW c
  PROVE  IsPacket(Unnatted(c, p)) /\ Unnatted(c, p).body = p.body /\ Unnatted(c, p).enc = p.enc
BY DEF IsPacket, PacketFields, Unnatted

\* The packet in a tunnel packet is right for the client that gets it.
LEMMA CarriedRight ==
  ASSUME OwnersInv, ArriveInv, NEW p \in net, NEW c \in Receivers(p), Carries(Unnatted(c, p))
  PROVE  Right(c, RecalculateChecksum(Carried(Unnatted(c, p))))
<1> DEFINE m == p.body.packet
           x == RecalculateChecksum(m)
<1>1. Unnatted(c, p).body = p.body
  BY UnnattedBody DEF ArriveInv, Tunnelled
<1>2. p.body.kind = "packet" /\ Carried(Unnatted(c, p)) = m
  BY <1>1 DEF Carries, Carried
<1>3. BackTunnel(p)
  BY <1>2, AtClient, DataFields DEF BackData
<1>4. m \in DataPacket /\ (m.body.kept => m.src = Server /\ m.dst = LocalIp[m.body.from] /\ m.enc = 0)
  BY <1>3 DEF BackTunnel
<1>5. m.body.kept => m.body.from = c
  BY <1>3, AtClient
<1> HIDE DEF m
<1>6. /\ x \in DataPacket /\ x.src = m.src /\ x.dst = m.dst /\ x.enc = m.enc /\ x.body = m.body
      /\ x.sums = AllSums
  BY <1>4, ChecksumData
<1> HIDE DEF x
<1>7. Right(c, x)
  BY <1>4, <1>5, <1>6 DEF Right
<1> QED
  BY <1>2, <1>7 DEF x

\* A redirect's answer, decrypted and from the real port.
LEMMA RedirectRight ==
  ASSUME OwnersInv, ArriveInv, NEW p \in net, NEW c \in Receivers(p), config.Mode \in Redirect,
         NEW x, x = RecalculateChecksum(SetSrcPort(DecryptPacket(Unnatted(c, p)), config.RealPort)),
         x.body.kind = "data"
  PROVE  Right(c, x)
<1> DEFINE q == Unnatted(c, p)
           d == DecryptPacket(q)
           s == SetSrcPort(d, config.RealPort)
<1>1. IsPacket(q) /\ q.body = p.body
  BY UnnattedBody DEF ArriveInv, Tunnelled
<1> HIDE DEF q
<1>2. x.body = p.body
  <2>1. IsPacket(d) /\ d.body = q.body
    BY <1>1, CryptFacts
  <2> HIDE DEF d
  <2>2. IsPacket(s) /\ s.body = d.body
    BY <2>1, SetFacts
  <2>3. x = RecalculateChecksum(s)
    BY DEF s, d, q
  <2> HIDE DEF s
  <2>4. x.body = s.body
    BY <2>2, <2>3, SetFacts
  <2> QED
    BY <1>1, <2>1, <2>2, <2>4
<1>3. BackData(p)
  BY <1>2, AtClient DEF BackTunnel
<1>4. /\ p \in DataPacket /\ p.enc \in -1 .. 2 /\ c \in Client /\ p.dst = OuterIp(c)
      /\ p.body.kept => p.body.from = c /\ ~IsVirtual(p.dst)
  BY <1>3, AtClient DEF BackData
<1>5. config \in Configs /\ config.RealPort \in Nat
  BY ConfigType DEF OwnersInv
<1>6. /\ q \in DataPacket /\ q.src = p.src /\ q.dst = LocalIp[c] /\ q.proto = p.proto
      /\ q.enc = p.enc /\ q.body = p.body
  BY <1>4, UnnattedData DEF q
<1>7. q.enc > -2
  BY <1>4, <1>6
<1>8. /\ d \in DataPacket /\ d.src = q.src /\ d.dst = q.dst /\ d.body = q.body
      /\ d.enc = IF HasPorts(q.proto) THEN q.enc - 1 ELSE q.enc
  BY <1>6, <1>7, DecryptData
<1>9. x = RecalculateChecksum(s)
  BY DEF s, d, q
<1> HIDE DEF d
<1>10. /\ s \in DataPacket /\ s.src = d.src /\ s.dst = d.dst /\ s.enc = d.enc /\ s.body = d.body
  BY <1>5, <1>8, SetSrcPortData
<1> HIDE DEF s
<1>11. /\ x \in DataPacket /\ x.src = s.src /\ x.dst = s.dst /\ x.enc = s.enc /\ x.body = s.body
       /\ x.sums = AllSums
  BY <1>9, <1>10, ChecksumData
<1>12. ASSUME p.body.kept, Carriable(p.body.flow)
       PROVE  x.src = Server /\ x.dst = LocalIp[c] /\ x.enc = 0
  <2>1. p.src = Server /\ p.enc = 1 /\ p.proto = FlowData[p.body.flow].proto
    BY <1>3, <1>4, <1>12 DEF BackData
  <2>2. HasPorts(p.proto)
    BY <1>5, <1>12, <2>1, RedirectGrabs DEF Carriable
  <2> QED
    BY <1>6, <1>8, <1>10, <1>11, <2>1, <2>2
<1> QED
  BY <1>2, <1>4, <1>11, <1>12 DEF Right

\* What goes to an application as it came.
LEMMA PassedRight ==
  ASSUME OwnersInv, ArriveInv, NEW p \in net, NEW c \in Receivers(p),
         Unnatted(c, p).body.kind = "data", NEW g \in Flow, Answers(c, Unnatted(c, p), g)
  PROVE  Right(c, Unnatted(c, p))
<1> DEFINE q == Unnatted(c, p)
           f == p.body.flow
<1>1. q.body = p.body
  BY UnnattedBody DEF ArriveInv, Tunnelled
<1>2. BackData(p)
  BY <1>1, AtClient DEF BackTunnel
<1>3. /\ p \in DataPacket /\ c \in Client /\ p.dst = OuterIp(c)
      /\ p.body.kept => p.body.from = c /\ ~IsVirtual(p.dst)
  BY <1>2, AtClient DEF BackData
<1>4. config \in Configs
  BY DEF OwnersInv
<1>5. /\ q \in DataPacket /\ q.dst = LocalIp[c] /\ q.proto = p.proto /\ q.sport = p.sport
      /\ q.dport = IF NatIndex[c] = 0 THEN p.dport ELSE p.dport % 100
  BY <1>3, UnnattedData
<1>6. q.proto = FlowData[g].proto /\ q.sport = FlowData[g].dport /\ q.dport = FlowData[g].sport
  BY DEF Answers
<1> HIDE DEF q
<1>7. ASSUME p.body.kept, Carriable(f) PROVE FALSE
  <2>1. /\ config.Mode \in Redirect /\ p.sport \in AllPorts(config.TunnelPorts)
        /\ p.proto = FlowData[f].proto /\ p.dport = OuterPort(c, p.proto, FlowData[f].sport)
    BY <1>2, <1>3, <1>7 DEF BackData
  <2>2. /\ FlowData[f].proto = GetTunnelProtocol(config.Mode) /\ FlowData[f].dport = config.RealPort
        /\ HasPorts(p.proto)
    BY <1>4, <1>7, <2>1, RedirectGrabs DEF Carriable
  <2>3. f \in Flow
    BY <1>3, DataFields
  <2> DEFINE port == FlowData[f].sport
  <2>4. port \in 0 .. 99
    BY <2>3, FlowPort
  <2> HIDE DEF port, f
  <2>5. /\ NatIndex[c] # 0 => OuterPort(c, p.proto, port) % 100 = port
        /\ NatIndex[c] = 0 => OuterPort(c, p.proto, port) = port
    BY <1>3, <2>2, <2>4, OuterPortFacts
  <2>6. q.dport = port
    BY <1>5, <2>1, <2>5 DEF port
  <2>7. FlowData[g].proto = FlowData[f].proto /\ FlowData[g].sport = FlowData[f].sport
    BY <1>5, <1>6, <2>1, <2>6 DEF port
  <2>8. FlowData[g].dport \notin AllPorts(config.TunnelPorts)
    BY <1>4, <2>1, <2>2, <2>3, <2>7, TunnelPortsApart
  <2> QED
    BY <1>5, <1>6, <2>1, <2>8
<1>8. Right(c, q)
  BY <1>1, <1>3, <1>5, <1>7 DEF Right
<1> QED
  BY <1>8 DEF q

\* An application gets what is right for it, whichever way it comes.
LEMMA ClientReceivesOwners ==
  ASSUME OwnersInv, ArriveInv, NEW p \in net, NEW c \in Client, ClientReceives(c, p)
  PROVE  /\ got' \in [Client -> SUBSET DataPacket]
         /\ \A d \in Client : \A x \in got'[d] : x \in got[d] \/ Right(d, x)
<1> DEFINE q == Unnatted(c, p)
           i == SelectInSeq(conns[c], LAMBDA k : ClientTakes(k, q))
<1>1. c \in Receivers(p)
  BY DEF ClientReceives
<1>2. i # 0 /\ config.Mode \notin Redirect => Carries(q)
  <2> SUFFICES ASSUME i # 0, config.Mode \notin Redirect PROVE Carries(q)
    OBVIOUS
  <2> DEFINE I == {j \in 1 .. Len(conns[c]) : ClientTakes(conns[c][j], q)}
  <2>1. i = IF I # {} THEN Min(I) ELSE 0
    BY DEF SelectInSeq
  <2>2. I \subseteq Nat
    OBVIOUS
  <2> HIDE DEF I, i
  <2>3. i \in I
    BY <2>1, <2>2, IndexIn
  <2>4. ClientTakes(conns[c][i], q)
    BY <2>3 DEF I
  <2> QED
    BY <2>4 DEF ClientTakes
<1>3. CASE UNCHANGED got
  BY <1>3 DEF OwnersInv, ClientsInv
<1>4. ASSUME i # 0, NEW x \in ClientHands(q), Delivers(c, x)
      PROVE  /\ got' \in [Client -> SUBSET DataPacket]
             /\ \A d \in Client : \A y \in got'[d] : y \in got[d] \/ Right(d, y)
  <2>1. x.body.kind = "data" => Right(c, x)
    <3>1. CASE config.Mode \in Redirect
      <4>1. x = RecalculateChecksum(SetSrcPort(DecryptPacket(q), config.RealPort))
        BY <1>4, <3>1 DEF ClientHands
      <4> QED
        BY <1>1, <3>1, <4>1, RedirectRight
    <3>2. CASE config.Mode \notin Redirect
      <4>1. x = RecalculateChecksum(Carried(q))
        BY <1>4, <3>2 DEF ClientHands
      <4>2. Carries(q)
        BY <1>2, <1>4, <3>2
      <4> QED
        BY <1>1, <4>1, <4>2, CarriedRight
    <3> QED
      BY <3>1, <3>2
  <2> HIDE DEF q, i
  <2> QED
    BY <1>4, <2>1, DeliversRight
<1>5. CASE Delivers(c, q)
  <2>1. q.body.kind = "data" /\ (\E f \in Flow : Answers(c, q, f)) => Right(c, q)
    BY <1>1, PassedRight
  <2> HIDE DEF q
  <2> QED
    BY <1>5, <2>1, DeliversRight
<1>6. CASE CourierTakes(c, q) /\ Delivers(c, RecalculateChecksum(Carried(q)))
  <2>1. Carries(q)
    BY <1>6 DEF CourierTakes
  <2>2. Right(c, RecalculateChecksum(Carried(q)))
    BY <1>1, <2>1, CarriedRight
  <2> HIDE DEF q
  <2> QED
    BY <1>6, <2>2, DeliversRight
<1> QED
  BY <1>3, <1>4, <1>5, <1>6 DEF ClientReceives

-----------------------------------------------------------------------------
(* The theorems *)

\* A part of the invariant holds after a step when what the step adds to the part
\* does.
LEMMA SameNet ==
  ASSUME OwnersInv, Constant,
         \A p \in net' : p \in net \/ ThereData(p) \/ ThereTunnel(p) \/ BackData(p) \/ BackTunnel(p)
  PROVE  NetInv'
BY SameShapes DEF OwnersInv, NetInv

LEMMA SameGot ==
  ASSUME OwnersInv, Constant,
         \A c \in Client : \A p \in got'[c] : p \in got[c] \/ Right(c, p)
  PROVE  GotInv'
BY SameShapes DEF OwnersInv, GotInv, Right

LEMMA SameClients ==
  ASSUME OwnersInv, Constant, UNCHANGED <<conns, runs, asked>>, restarts' \in Nat,
         got' \in [Client -> SUBSET DataPacket]
  PROVE  ClientsInv'
BY SameShapes DEF OwnersInv, ClientsInv, OwnConnection

LEMMA SameServer ==
  ASSUME OwnersInv, Constant, UNCHANGED <<Connections, VirtualIps, restarts>>, pending' \subseteq pending
  PROVE  ConnectionsInv' /\ PendingInv'
<1>1. ConnectionsOf(Connections', VirtualIps')
  BY DEF OwnersInv, ConnectionsInv
<1>2. \A r \in pending' :
        r.kept \in BOOLEAN /\ Waits(r.packet) /\ Served(r, Connections')
  BY DEF OwnersInv, PendingInv
<1> QED
  BY <1>1, <1>2, SameConnections, SamePending

\* An application's packet leaves its client as the client's.
LEMMA AppSendsOwners ==
  ASSUME OwnersInv, NEW c \in Client, NEW f \in Flow, AppSends(c, f)
  PROVE  OwnersInv'
<1>1. /\ Constant /\ UNCHANGED <<runs, got, Connections, VirtualIps, restarts, pending>>
      /\ asked' = [asked EXCEPT ![c] = @ \cup {<<f, runs[c]>>}]
  BY DEF AppSends, fixed, serverVars, Constant
<1>2. /\ \A p \in net' : p \in net \/ ThereData(p) \/ ThereTunnel(p)
      /\ \/ conns' = conns
         \/ \E k \in OwnConnection(c) : conns' = [conns EXCEPT ![c] = Append(@, k)]
  BY AppSendsThere
<1>3. /\ runs \in [Client -> Nat] /\ restarts \in Nat
      /\ conns \in [Client -> Seq(ClientConnection)]
      /\ asked \in [Client -> SUBSET (Flow \X Nat)] /\ got \in [Client -> SUBSET DataPacket]
      /\ \A d \in Client : conns[d] \in Seq(OwnConnection(d)) /\ asked[d] \subseteq Flow \X (0 .. runs[d])
  BY DEF OwnersInv, ClientsInv
<1>4. /\ asked' \in [Client -> SUBSET (Flow \X Nat)]
      /\ \A d \in Client : asked'[d] \subseteq Flow \X (0 .. runs[d])
  <2>1. runs[c] \in 0 .. runs[c] /\ runs[c] \in Nat
    BY <1>3
  <2>2. \A d \in Client : asked'[d] \subseteq asked[d] \cup (IF d = c THEN {<<f, runs[c]>>} ELSE {})
    BY <1>1, <1>3
  <2>3. asked' \in [Client -> SUBSET (Flow \X Nat)]
    BY <1>1, <1>3, <2>1
  <2>4. ASSUME NEW d \in Client PROVE asked'[d] \subseteq Flow \X (0 .. runs[d])
    <3>1. CASE d = c
      BY <1>3, <2>1, <2>2, <3>1
    <3>2. CASE d # c
      BY <1>3, <2>2, <3>2
    <3> QED
      BY <3>1, <3>2
  <2> QED
    BY <2>3, <2>4
<1>5. /\ conns' \in [Client -> Seq(ClientConnection)]
      /\ \A d \in Client : conns'[d] \in Seq(OwnConnection(d))
  <2>1. ASSUME NEW k \in OwnConnection(c), conns' = [conns EXCEPT ![c] = Append(@, k)]
        PROVE  <1>5
    <3>1. Append(conns[c], k) \in Seq(OwnConnection(c)) /\ Append(conns[c], k) \in Seq(ClientConnection)
      <4>1. k \in ClientConnection /\ conns[c] \in Seq(ClientConnection) /\ conns[c] \in Seq(OwnConnection(c))
        BY <1>3 DEF OwnConnection
      <4> QED
        BY <4>1, Appended
    <3>2. conns' \in [Client -> Seq(ClientConnection)]
      BY <1>3, <2>1, <3>1
    <3>3. \A d \in Client : conns'[d] = IF d = c THEN Append(conns[c], k) ELSE conns[d]
      BY <1>3, <2>1
    <3> QED
      BY <1>3, <3>1, <3>2, <3>3
  <2> QED
    BY <1>2, <1>3, <2>1
<1>6. ClientsInv'
  <2>1. \A d \in Client : OwnConnection(d)' = OwnConnection(d)
    BY <1>1, SameShapes DEF OwnConnection
  <2>2. ClientConnection' = ClientConnection
    BY <1>1, SameShapes
  <2> QED
    BY <1>1, <1>3, <1>4, <1>5, <2>1, <2>2 DEF ClientsInv
<1>7. NetInv' /\ GotInv'
  BY <1>1, <1>2, SameNet, SameGot
<1>8. ConnectionsInv' /\ PendingInv'
  BY <1>1, SameServer
<1> QED
  BY <1>1, <1>6, <1>7, <1>8 DEF OwnersInv, Constant

\* A client that starts again has no connections and new sessions.
LEMMA ClientRestartsOwners ==
  ASSUME OwnersInv, NEW c \in Client, ClientRestarts(c)
  PROVE  OwnersInv'
<1>1. /\ Constant /\ UNCHANGED <<asked, got, net, Connections, VirtualIps, restarts, pending>>
      /\ runs' = [runs EXCEPT ![c] = @ + 1] /\ conns' = [conns EXCEPT ![c] = <<>>]
  BY DEF ClientRestarts, fixed, serverVars, Constant
<1>2. /\ runs \in [Client -> Nat] /\ restarts \in Nat
      /\ conns \in [Client -> Seq(ClientConnection)]
      /\ asked \in [Client -> SUBSET (Flow \X Nat)] /\ got \in [Client -> SUBSET DataPacket]
      /\ \A d \in Client : conns[d] \in Seq(OwnConnection(d)) /\ asked[d] \subseteq Flow \X (0 .. runs[d])
  BY DEF OwnersInv, ClientsInv
<1>3. runs' \in [Client -> Nat] /\ \A d \in Client : runs'[d] = IF d = c THEN runs[c] + 1 ELSE runs[d]
  BY <1>1, <1>2
<1>4. conns' \in [Client -> Seq(ClientConnection)]
  <2>1. <<>> \in Seq(ClientConnection)
    OBVIOUS
  <2> QED
    BY <1>1, <1>2, <2>1
<1>5. ASSUME NEW d \in Client
      PROVE  conns'[d] \in Seq(OwnConnection(d)') /\ asked'[d] \subseteq Flow \X (0 .. runs'[d])
  <2>1. CASE d = c
    <3>1. conns'[d] = <<>> /\ <<>> \in Seq(OwnConnection(d)')
      BY <1>1, <1>2, <2>1
    <3>2. 0 .. runs[d] \subseteq 0 .. runs'[d]
      BY <1>2, <1>3, <2>1
    <3> QED
      BY <1>1, <1>2, <3>1, <3>2
  <2>2. CASE d # c
    <3>1. conns'[d] = conns[d] /\ runs'[d] = runs[d]
      BY <1>1, <1>2, <1>3, <2>2
    <3>2. OwnConnection(d)' = OwnConnection(d)
      BY <1>1, <3>1, SameShapes DEF OwnConnection
    <3> QED
      BY <1>1, <1>2, <3>1, <3>2
  <2> QED
    BY <2>1, <2>2
<1>6. ClientsInv'
  <2>1. ClientConnection' = ClientConnection
    BY <1>1, SameShapes
  <2> QED
    BY <1>1, <1>2, <1>3, <1>4, <1>5, <2>1 DEF ClientsInv
<1>7. NetInv' /\ GotInv'
  BY <1>1, SameNet, SameGot
<1>8. ConnectionsInv' /\ PendingInv'
  BY <1>1, SameServer
<1> QED
  BY <1>1, <1>6, <1>7, <1>8 DEF OwnersInv, Constant

\* What RemoveAt gives.
LEMMA Removed ==
  ASSUME NEW S, NEW s \in Seq(S), NEW n \in 1 .. Len(s)
  PROVE  /\ RemoveAt(s, n) \in Seq(S) /\ DOMAIN RemoveAt(s, n) = 1 .. Len(s) - 1
         /\ \A i \in 1 .. Len(s) - 1 : RemoveAt(s, n)[i] = IF i < n THEN s[i] ELSE s[i + 1]
<1> DEFINE a == SubSeq(s, 1, n - 1)
           b == SubSeq(s, n + 1, Len(s))
<1>1. /\ a \in Seq(S) /\ Len(a) = n - 1
      /\ \A i \in 1 .. n - 1 : a[i] = s[i]
  OBVIOUS
<1>2. /\ b \in Seq(S) /\ Len(b) = Len(s) - n
      /\ \A i \in 1 .. Len(s) - n : b[i] = s[n + i]
  OBVIOUS
<1> HIDE DEF a, b
<1>3. /\ a \o b \in Seq(S) /\ Len(a \o b) = Len(s) - 1
      /\ \A i \in 1 .. Len(s) - 1 : (a \o b)[i] = IF i < n THEN a[i] ELSE b[i - (n - 1)]
  <2>1. Len(s) \in Nat /\ a \o b \in Seq(S) /\ Len(a \o b) = Len(a) + Len(b)
    BY <1>1, <1>2
  <2>2. Len(a \o b) = Len(s) - 1
    BY <1>1, <1>2, <2>1
  <2>3. \A i \in 1 .. Len(a) + Len(b) : (a \o b)[i] = IF i <= Len(a) THEN a[i] ELSE b[i - Len(a)]
    BY <1>1, <1>2
  <2>4. Len(a) + Len(b) = Len(s) - 1
    BY <2>1, <2>2
  <2>5. ASSUME NEW i \in 1 .. Len(s) - 1
        PROVE  (a \o b)[i] = IF i < n THEN a[i] ELSE b[i - (n - 1)]
    BY <1>1, <2>3, <2>4
  <2> QED
    BY <2>1, <2>2, <2>5
<1>4. RemoveAt(s, n) = a \o b
  BY DEF RemoveAt, a, b
<1>5. ASSUME NEW i \in 1 .. Len(s) - 1
      PROVE  (a \o b)[i] = IF i < n THEN s[i] ELSE s[i + 1]
  <2>1. CASE i < n
    BY <1>1, <1>3, <2>1
  <2>2. CASE ~(i < n)
    <3>1. i - (n - 1) \in 1 .. Len(s) - n /\ n + (i - (n - 1)) = i + 1
      BY <2>2
    <3> QED
      BY <1>2, <1>3, <2>2, <3>1
  <2> QED
    BY <2>1, <2>2
<1> QED
  BY <1>3, <1>4, <1>5

\* A connection is removed, and with it what was said of its requests.
LEMMA ServerTimeoutOwners ==
  ASSUME OwnersInv, NEW n \in DOMAIN Connections, ServerTimeout(n)
  PROVE  /\ ServerGoal
         /\ \A i \in DOMAIN Connections' : \E j \in DOMAIN Connections : Connections'[i] = Connections[j]
<1> DEFINE k == Connections[n]
           after == RemoveAt(Connections, n)
           used == ReleaseIp(VirtualIps, k.VirtualIp, range)
           len == Len(Connections)
           old(i) == IF i < n THEN i ELSE i + 1
<1>1. /\ range \in Ranges /\ ConnectionsInv /\ Connections \in Seq(ServerConnection)
      /\ VirtualIps \subseteq Indices(range, MaxVirtualIps) /\ Apart(Connections)
      /\ range.StartIp \in Nat
  BY AddressAssumption DEF OwnersInv, ConnectionsInv, ConnectionsOf
<1>2. /\ Connections' = after /\ VirtualIps' = used /\ restarts' = restarts
      /\ Forget({k.VirtualIp})
  BY DEF ServerTimeout
<1>3. len \in Nat /\ DOMAIN Connections = 1 .. len /\ n \in 1 .. len
  BY <1>1
<1>4. /\ after \in Seq(ServerConnection) /\ DOMAIN after = 1 .. len - 1
      /\ \A i \in 1 .. len - 1 : after[i] = IF i < n THEN Connections[i] ELSE Connections[i + 1]
  BY <1>1, <1>3, Removed
<1>5. ASSUME NEW i \in 1 .. len - 1
      PROVE  old(i) \in DOMAIN Connections /\ old(i) # n /\ after[i] = Connections[old(i)]
  BY <1>3, <1>4
<1>6. ASSUME NEW i \in 1 .. len - 1, NEW j \in 1 .. len - 1, old(i) = old(j)
      PROVE  i = j
  BY <1>3, <1>6
<1>7. ASSUME NEW j \in DOMAIN Connections, j # n
      PROVE  \E i \in 1 .. len - 1 : old(i) = j
  <2>1. CASE j < n
    BY <1>3, <1>7, <2>1
  <2>2. CASE j > n
    <3>1. j - 1 \in 1 .. len - 1 /\ old(j - 1) = j
      BY <1>3, <2>2
    <3> QED
      BY <3>1
  <2> QED
    BY <1>3, <1>7, <2>1, <2>2
<1> HIDE DEF old
<1> HIDE DEF after
<1>9. used = VirtualIps \ ({k.VirtualIp - range.StartIp} \ {0})
  BY DEF ReleaseIp
<1> HIDE DEF used
<1>10. ASSUME NEW j \in DOMAIN Connections, j # n
       PROVE  HasAddress(Connections[j], used)
  <2> DEFINE x == Connections[j].VirtualIp
  <2>1. CASE x = 0
    BY <2>1 DEF HasAddress
  <2>2. CASE x # 0
    <3>1. PICK m \in VirtualIps : x = range.StartIp + m
      BY <1>1, <2>2, ConnectionFacts DEF HasAddress
    <3>2. k.VirtualIp # x /\ k.VirtualIp \in Nat
      BY <1>1, <1>10, <2>2, ConnectionFacts DEF Apart
    <3>3. m \in Nat
      BY <1>1, <3>1 DEF Indices
    <3> HIDE DEF x, k
    <3>4. m # k.VirtualIp - range.StartIp
      BY <1>1, <3>1, <3>2, <3>3
    <3>5. m \in used
      BY <1>9, <3>1, <3>4
    <3> QED
      BY <3>1, <3>5 DEF HasAddress, x
  <2> QED
    BY <2>1, <2>2
<1>11. ConnectionsOf(after, used)
  <2>1. \A i \in DOMAIN after : IsConnection(after[i]) /\ HasAddress(after[i], used)
    BY <1>1, <1>5, <1>4, <1>10, ConnectionFacts
  <2>2. Apart(after)
    <3> SUFFICES ASSUME NEW i \in DOMAIN after, NEW j \in DOMAIN after,
                        after[i].VirtualIp = after[j].VirtualIp
                 PROVE  i = j \/ after[i].VirtualIp = 0
      BY DEF Apart
    <3>0. i \in 1 .. len - 1 /\ j \in 1 .. len - 1
      BY <1>4
    <3>1. /\ old(i) \in DOMAIN Connections /\ after[i] = Connections[old(i)]
          /\ old(j) \in DOMAIN Connections /\ after[j] = Connections[old(j)]
      BY <1>5, <3>0
    <3>2. old(i) = old(j) \/ after[i].VirtualIp = 0
      BY <1>1, <3>1 DEF Apart
    <3> QED
      BY <1>6, <3>0, <3>2
  <2>3. used \subseteq Indices(range, MaxVirtualIps)
    BY <1>1, <1>9
  <2> QED
    BY <1>4, <2>1, <2>2, <2>3 DEF ConnectionsOf
<1>12. ASSUME NEW r \in pending'
       PROVE  r.kept \in BOOLEAN /\ Waits(r.packet) /\ Served(r, after)
  <2>0. PICK s \in pending :
          /\ r.packet = s.packet /\ r.kept \in BOOLEAN
          /\ r.kept => s.kept /\ s.packet.src # k.VirtualIp
    BY <1>2, Forgotten
  <2>1. Waits(r.packet) /\ Served(s, Connections)
    BY <2>0 DEF OwnersInv, PendingInv
  <2>2. ASSUME r.kept, r.packet.src # 0, IsVirtual(r.packet.src)
        PROVE  \E i \in DOMAIN after :
                 /\ after[i].VirtualIp = r.packet.src /\ Owns(r.packet.body.from, after[i])
                 /\ config.Mode \in Redirect => after[i].ClientPort = r.packet.sport
    <3>1. PICK j \in DOMAIN Connections :
            /\ Connections[j].VirtualIp = r.packet.src /\ Owns(r.packet.body.from, Connections[j])
            /\ config.Mode \in Redirect => Connections[j].ClientPort = r.packet.sport
      BY <2>0, <2>1, <2>2 DEF Served
    <3>2. j # n
      BY <2>0, <2>2, <3>1
    <3>3. PICK i \in 1 .. len - 1 : old(i) = j
      BY <1>7, <3>2
    <3> QED
      BY <1>5, <1>4, <3>1, <3>3
  <2> QED
    BY <2>0, <2>1, <2>2 DEF Served
<1> QED
  BY <1>2, <1>4, <1>5, <1>11, <1>12 DEF ServerGoal

\* At the start there is nothing.
LEMMA OwnersInit == Init => OwnersInv
<1> SUFFICES ASSUME Init PROVE OwnersInv
  OBVIOUS
<1>1. /\ config \in Configs /\ range \in Ranges
      /\ conns = [c \in Client |-> <<>>] /\ runs = [c \in Client |-> 0]
      /\ asked = [c \in Client |-> {}] /\ got = [c \in Client |-> {}]
      /\ net = {} /\ Connections = <<>> /\ VirtualIps = {} /\ restarts = 0 /\ pending = {}
  BY DEF Init
<1>2. \A S : <<>> \in Seq(S)
  OBVIOUS
<1>3. DOMAIN <<>> = {}
  OBVIOUS
<1>4. ClientsInv
  <2>1. conns \in [Client -> Seq(ClientConnection)] /\ \A c \in Client : conns[c] \in Seq(OwnConnection(c))
    BY <1>1, <1>2
  <2>2. /\ runs \in [Client -> Nat] /\ restarts \in Nat
        /\ asked \in [Client -> SUBSET (Flow \X Nat)] /\ got \in [Client -> SUBSET DataPacket]
        /\ \A c \in Client : asked[c] \subseteq Flow \X (0 .. runs[c])
    BY <1>1
  <2> QED
    BY <2>1, <2>2 DEF ClientsInv
<1>5. NetInv /\ PendingInv /\ GotInv
  BY <1>1 DEF NetInv, PendingInv, GotInv
<1>6. ConnectionsInv
  BY <1>1, <1>2, <1>3 DEF ConnectionsInv, ConnectionsOf, Apart
<1> QED
  BY <1>1, <1>4, <1>5, <1>6 DEF OwnersInv

\* Every step keeps addresses, ports and sessions with their clients.
LEMMA OwnersStep == OwnersInv /\ ArriveInv /\ [Next]_vars => OwnersInv'
<1> SUFFICES ASSUME OwnersInv, ArriveInv, [Next]_vars PROVE OwnersInv'
  OBVIOUS
<1>0. /\ config \in Configs /\ range \in Ranges /\ ClientsInv /\ restarts \in Nat
      /\ got \in [Client -> SUBSET DataPacket]
  BY DEF OwnersInv, ClientsInv
<1>1. ASSUME NEW c \in Client, NEW f \in Flow, AppSends(c, f) PROVE OwnersInv'
  BY <1>1, AppSendsOwners
<1>2. ASSUME NEW c \in Client, ClientRestarts(c) PROVE OwnersInv'
  BY <1>2, ClientRestartsOwners
<1>3. ASSUME Constant, UNCHANGED <<conns, runs, asked, got>>, restarts' = restarts,
             net' \subseteq net, ServerGoal
      PROVE  OwnersInv'
  <2>1. ClientsInv'
    BY <1>0, <1>3, SameClients
  <2>2. NetInv' /\ GotInv'
    BY <1>3, SameNet, SameGot
  <2>3. ConnectionsInv' /\ PendingInv'
    BY <1>3, SameConnections, SamePending DEF ServerGoal
  <2> QED
    BY <1>0, <1>3, <2>1, <2>2, <2>3 DEF OwnersInv, Constant
<1>4. ASSUME NEW p \in net, ServerReceives(p) PROVE OwnersInv'
  <2>1. /\ Constant /\ UNCHANGED <<conns, runs, asked, got>> /\ restarts' = restarts
        /\ net' \subseteq net
    BY <1>4 DEF ServerReceives, fixed, clientVars, Constant
  <2> QED
    BY <1>3, <1>4, <2>1, ServerReceivesOwners
<1>5. ASSUME NEW p \in net, NEW c \in Client, ClientReceives(c, p) PROVE OwnersInv'
  <2>1. /\ Constant /\ UNCHANGED <<conns, runs, asked, Connections, VirtualIps, restarts, pending>>
        /\ net' \subseteq net
    BY <1>5 DEF ClientReceives, fixed, serverVars, Constant
  <2>2. /\ got' \in [Client -> SUBSET DataPacket]
        /\ \A d \in Client : \A x \in got'[d] : x \in got[d] \/ Right(d, x)
    BY <1>5, ClientReceivesOwners
  <2>3. ClientsInv'
    BY <1>0, <2>1, <2>2, SameClients
  <2>4. NetInv' /\ GotInv'
    BY <2>1, <2>2, SameNet, SameGot
  <2>5. ConnectionsInv' /\ PendingInv'
    BY <2>1, SameServer
  <2> QED
    BY <1>0, <2>1, <2>3, <2>4, <2>5 DEF OwnersInv, Constant
<1>6. ASSUME NEW r \in pending, ServiceReplies(r) PROVE OwnersInv'
  <2>1. /\ Constant /\ UNCHANGED <<conns, runs, asked, got, Connections, VirtualIps, restarts>>
        /\ pending' \subseteq pending
    BY <1>6 DEF ServiceReplies, fixed, clientVars, Constant
  <2>2. \A x \in net' : x \in net \/ BackData(x) \/ BackTunnel(x)
    BY <1>6, ServiceRepliesOwners
  <2>3. ClientsInv'
    BY <1>0, <2>1, SameClients
  <2>4. NetInv' /\ GotInv'
    BY <2>1, <2>2, SameNet, SameGot
  <2>5. ConnectionsInv' /\ PendingInv'
    BY <2>1, SameServer
  <2> QED
    BY <1>0, <2>1, <2>3, <2>4, <2>5 DEF OwnersInv, Constant
<1>7. ASSUME NEW i \in DOMAIN Connections, ServerTimeout(i) PROVE OwnersInv'
  <2>1. /\ Constant /\ UNCHANGED <<conns, runs, asked, got>> /\ restarts' = restarts
        /\ net' \subseteq net
    BY <1>7 DEF ServerTimeout, fixed, clientVars, Constant
  <2> QED
    BY <1>3, <1>7, <2>1, ServerTimeoutOwners
<1>8. CASE ServerRestarts
  <2>1. /\ Constant /\ UNCHANGED <<conns, runs, asked, got, net>>
        /\ restarts' = restarts + 1 /\ Connections' = <<>> /\ VirtualIps' = {}
        /\ Forget({Connections[i].VirtualIp : i \in DOMAIN Connections})
    BY <1>8 DEF ServerRestarts, fixed, clientVars, Constant
  <2>2. restarts' \in Nat /\ ClientsInv'
    BY <1>0, <2>1, SameClients
  <2>3. NetInv' /\ GotInv'
    BY <2>1, SameNet, SameGot
  <2>4. ConnectionsOf(Connections', VirtualIps')
    <3>1. \A S : <<>> \in Seq(S)
      OBVIOUS
    <3>2. DOMAIN <<>> = {}
      OBVIOUS
    <3> QED
      BY <2>1, <3>1, <3>2 DEF ConnectionsOf, Apart
  <2>5. ASSUME NEW r \in pending'
        PROVE  r.kept \in BOOLEAN /\ Waits(r.packet) /\ Served(r, Connections')
    <3>1. PICK x \in pending :
            /\ r.packet = x.packet /\ r.kept \in BOOLEAN
            /\ r.kept => x.kept /\ x.packet.src \notin {Connections[i].VirtualIp : i \in DOMAIN Connections}
      BY <2>1, Forgotten
    <3>2. Waits(r.packet) /\ Served(x, Connections)
      BY <3>1 DEF OwnersInv, PendingInv
    <3>3. ~(r.kept /\ r.packet.src # 0 /\ IsVirtual(r.packet.src))
      BY <3>1, <3>2 DEF Served
    <3> QED
      BY <3>1, <3>2, <3>3 DEF Served
  <2>6. ConnectionsInv' /\ PendingInv'
    BY <2>1, <2>4, <2>5, SameConnections, SamePending
  <2> QED
    BY <1>0, <2>1, <2>2, <2>3, <2>6 DEF OwnersInv, Constant
<1>9. CASE UNCHANGED vars
  <2>1. /\ Constant /\ UNCHANGED <<conns, runs, asked, got, net, Connections, VirtualIps, restarts, pending>>
    BY <1>9 DEF vars, Constant
  <2>2. ClientsInv'
    BY <1>0, <2>1, SameClients
  <2>3. NetInv' /\ GotInv'
    BY <2>1, SameNet, SameGot
  <2>4. ConnectionsInv' /\ PendingInv'
    BY <2>1, SameServer
  <2> QED
    BY <1>0, <2>1, <2>2, <2>3, <2>4 DEF OwnersInv, Constant
<1> QED
  BY <1>1, <1>2, <1>4, <1>5, <1>6, <1>7, <1>8, <1>9 DEF Next

\* Addresses, ports and sessions stay with their clients.
THEOREM OwnersInvariant == Spec => []OwnersInv
<1>1. Init => OwnersInv
  BY OwnersInit
<1>2. OwnersInv /\ ArriveInv /\ [Next]_vars => OwnersInv'
  BY OwnersStep
<1> QED
  BY <1>1, <1>2, ArriveInvariant, PTL DEF Spec

\* Every packet is one the programs can send, and PortManager stays within its size.
THEOREM RouteTypeCorrect == Spec => []TypeOK
<1>1. OwnersInv => TypeOK
  <2> SUFFICES ASSUME OwnersInv PROVE TypeOK
    OBVIOUS
  <2>1. config \in Configs /\ range \in Ranges
    BY DEF OwnersInv
  <2>2. ASSUME NEW p \in net PROVE p \in DataPacket \/ IsTunnelPacket(p)
    <3>1. CASE ThereData(p) \/ BackData(p)
      BY <3>1 DEF ThereData, BackData, Asked
    <3>2. CASE ThereTunnel(p) \/ BackTunnel(p)
      BY <3>2 DEF ThereTunnel, BackTunnel, Asked, IsTunnelPacket
    <3> QED
      BY <3>1, <3>2 DEF OwnersInv, NetInv
  <2>3. \A r \in pending : r.packet \in DataPacket /\ r.kept \in BOOLEAN
    BY DEF OwnersInv, PendingInv, Waits, Asked
  <2>4. \A c \in Client : got[c] \subseteq DataPacket /\ asked[c] \subseteq Flow \X (0 .. runs[c])
    BY DEF OwnersInv, ClientsInv
  <2>5. VirtualIps \subseteq 0 .. MaxVirtualIps - 1
    BY DEF OwnersInv, ConnectionsInv, ConnectionsOf, Indices
  <2>6. ASSUME NEW i \in DOMAIN Connections
        PROVE  Len(Connections[i].Ports) <= MaxPorts /\ Connections[i].NextPort \in 0 .. MaxPorts - 1
    <3>1. IsConnection(Connections[i])
      BY <2>1, ConnectionFacts DEF OwnersInv
    <3> QED
      BY <3>1 DEF IsConnection, ServerConnection
  <2> QED
    BY <2>1, <2>2, <2>3, <2>4, <2>5, <2>6 DEF TypeOK
<1> QED
  BY <1>1, OwnersInvariant, PTL

\* A reply reaches the client that asked, as its application expects it.
THEOREM AnswersCorrect == Spec => []AnswersRightClient
<1>1. OwnersInv => AnswersRightClient
  BY DEF OwnersInv, GotInv, AnswersRightClient, Carriable
<1> QED
  BY <1>1, OwnersInvariant, PTL

-----------------------------------------------------------------------------
(* Replies find their connection *)

\* A connection of the list has these ports and session, as far as its kind looks
\* at them.
Meets(list, c, client, tunnel, session) ==
  \E i \in DOMAIN list :
    /\ config.Mode \in Redirect \cup {"UDP-Simple-Tunnel"} =>
         /\ client = OuterPort(c, GetTunnelProtocol(config.Mode), list[i].ClientPort)
         /\ tunnel = list[i].TunnelPort
    /\ config.Mode \in Sockets => session = list[i].Session
\* An application that talks to a tunnel port itself.
Direct(c, client) ==
  /\ config.Mode \in Redirect
  /\ \E g \in Flow :
       /\ FlowData[g].proto = GetTunnelProtocol(config.Mode)
       /\ FlowData[g].dport \in AllPorts(config.TunnelPorts)
       /\ client = OuterPort(c, FlowData[g].proto, FlowData[g].sport)
\* Unless the client was started again and forgot its connections.
Met(lists, now, c, client, tunnel, session) ==
  now[c] = 0 => Meets(lists[c], c, client, tunnel, session) \/ Direct(c, client)

\* A packet to the server, one to a client, and a connection of the server meet one.
MetThere(lists, now, p) ==
  /\ p.body.kind = "packet" =>
       /\ config.Mode \notin Redirect
       /\ Met(lists, now, From(p), p.sport, p.dport, p.body.session)
  /\ /\ p.body.kind = "data" /\ config.Mode \in Redirect
     /\ p.proto = GetTunnelProtocol(config.Mode) /\ p.dport \in AllPorts(config.TunnelPorts)
     => Met(lists, now, From(p), p.sport, p.dport, <<>>)
MetBack(lists, now, p) ==
  /\ p.body.kind = "packet" =>
       /\ config.Mode \notin Redirect /\ p.enc = 1 /\ p.body.packet.sums = AllSums
       /\ p.body.packet.body.kept => Met(lists, now, From(p), p.dport, p.sport, p.body.session)
  /\ /\ p.body.kind = "data" /\ config.Mode \in Redirect
     /\ p.body.kept /\ ~IsVirtual(p.dst) /\ Carriable(p.body.flow)
     => Met(lists, now, From(p), p.dport, p.sport, <<>>)
MetNet(lists, now, packets) ==
  \A p \in packets :
    (p.dst = Server => MetThere(lists, now, p)) /\ (p.dst # Server => MetBack(lists, now, p))
MetConnections(lists, now, connections) ==
  \A i \in DOMAIN connections : \A c \in Client :
    LET k == connections[i] IN
    Owns(c, k) => Met(lists, now, c, k.ClientPort, k.TunnelPort, k.Session)
MatchInv == MetNet(conns, runs, net) /\ MetConnections(conns, runs, Connections)

\* What is met stays met, as lists only grow and runs only begin.
Grown(lists, now, later, then) ==
  \A c \in Client : then[c] = 0 =>
    /\ now[c] = 0
    /\ \A i \in DOMAIN lists[c] : i \in DOMAIN later[c] /\ later[c][i] = lists[c][i]

\* A connection that is met stays.
LEMMA MetStays ==
  ASSUME NEW lists, NEW now, NEW later, NEW then, Grown(lists, now, later, then),
         NEW c \in Client, NEW client, NEW tunnel, NEW session,
         Met(lists, now, c, client, tunnel, session)
  PROVE  Met(later, then, c, client, tunnel, session)
<1> SUFFICES ASSUME then[c] = 0
             PROVE  Meets(later[c], c, client, tunnel, session) \/ Direct(c, client)
  BY DEF Met
<1>1. now[c] = 0 /\ \A i \in DOMAIN lists[c] : i \in DOMAIN later[c] /\ later[c][i] = lists[c][i]
  BY DEF Grown
<1>2. CASE Direct(c, client)
  BY <1>2
<1>3. CASE Meets(lists[c], c, client, tunnel, session)
  BY <1>1, <1>3 DEF Meets
<1> QED
  BY <1>1, <1>2, <1>3 DEF Met

\* A packet on the network has its client.
LEMMA FromSomebody ==
  ASSUME OwnersInv, NEW p \in net
  PROVE  From(p) \in Client
<1>1. CASE ThereData(p) \/ BackData(p)
  BY <1>1, DataFields DEF ThereData, BackData, Asked, From
<1>2. CASE ThereTunnel(p) \/ BackTunnel(p)
  BY <1>2, DataFields DEF ThereTunnel, BackTunnel, Asked, From
<1> QED
  BY <1>1, <1>2 DEF OwnersInv, NetInv

\* So does what is said of a packet ...
LEMMA PacketStays ==
  ASSUME NEW lists, NEW now, NEW later, NEW then, Grown(lists, now, later, then),
         NEW p, From(p) \in Client
  PROVE  /\ MetThere(lists, now, p) => MetThere(later, then, p)
         /\ MetBack(lists, now, p) => MetBack(later, then, p)
<1>1. \A client, tunnel, session :
        Met(lists, now, From(p), client, tunnel, session) => Met(later, then, From(p), client, tunnel, session)
  BY MetStays
<1>2. MetThere(lists, now, p) => MetThere(later, then, p)
  BY <1>1 DEF MetThere
<1>3. MetBack(lists, now, p) => MetBack(later, then, p)
  BY <1>1 DEF MetBack
<1> QED
  BY <1>2, <1>3

\* The packets and the connections that a step leaves alone.
LEMMA NetStays ==
  ASSUME OwnersInv, MatchInv, NEW later, NEW then, Grown(conns, runs, later, then), NEW p \in net
  PROVE  /\ p.dst = Server => MetThere(later, then, p)
         /\ p.dst # Server => MetBack(later, then, p)
<1>1. From(p) \in Client
  BY FromSomebody
<1>2. /\ p.dst = Server => MetThere(conns, runs, p)
      /\ p.dst # Server => MetBack(conns, runs, p)
  BY DEF MatchInv, MetNet
<1> QED
  BY <1>1, <1>2, PacketStays

\* ... and of the server's connections.
LEMMA ConnectionsStay ==
  ASSUME MatchInv, NEW later, NEW then, Grown(conns, runs, later, then)
  PROVE  MetConnections(later, then, Connections)
<1> SUFFICES ASSUME NEW i \in DOMAIN Connections, NEW c \in Client, Owns(c, Connections[i])
             PROVE  LET k == Connections[i] IN Met(later, then, c, k.ClientPort, k.TunnelPort, k.Session)
  BY DEF MetConnections
<1>1. LET k == Connections[i] IN Met(conns, runs, c, k.ClientPort, k.TunnelPort, k.Session)
  BY DEF MatchInv, MetConnections
<1> QED
  BY <1>1, MetStays

\* What is said of ports and sessions depends on the configuration only.
LEMMA SameMatch ==
  ASSUME Constant, MetNet(conns', runs', net'), MetConnections(conns', runs', Connections')
  PROVE  MatchInv'
<1>1. MetConnections(conns, runs, Connections)'
  BY DEF Constant, MetConnections, Owns, Met, Meets, Direct
<1>2. ASSUME NEW p, MetThere(conns', runs', p) PROVE MetThere(conns, runs, p)'
  BY <1>2 DEF Constant, MetThere, Met, Meets, Direct, From
<1>3. ASSUME NEW p, MetBack(conns', runs', p) PROVE MetBack(conns, runs, p)'
  <2>1. \A f : Carriable(f)' = Carriable(f)
    BY SameShapes
  <2>2. \A ip : IsVirtual(ip)' = IsVirtual(ip)
    BY DEF Constant, IsVirtual
  <2> QED
    BY <1>3, <2>1, <2>2 DEF Constant, MetBack, Met, Meets, Direct, From
<1>4. MetNet(conns, runs, net)'
  BY <1>2, <1>3 DEF MetNet
<1> QED
  BY <1>1, <1>4 DEF MatchInv

\* A step that leaves the clients alone.
LEMMA GrownSame ==
  ASSUME UNCHANGED <<conns, runs>>
  PROVE  Grown(conns, runs, conns', runs')
BY DEF Grown

\* The NAT changes the address and the port of the sender only.
LEMMA NattedPort ==
  ASSUME NEW p, IsPacket(p), NEW c \in Client
  PROVE  LET q == Natted(c, p) IN
         /\ q.dst = p.dst /\ q.proto = p.proto /\ q.dport = p.dport /\ q.body = p.body
         /\ q.sport = OuterPort(c, p.proto, p.sport)
BY DEF IsPacket, PacketFields, Natted, OuterPort

\* What a client sends past its connections.
LEMMA RequestMet ==
  ASSUME NEW c \in Client, NEW f \in Flow, runs[c] \in Nat, NEW lists, NEW now
  PROVE  MetThere(lists, now, Natted(c, Request(c, f)))
<1> DEFINE p == Request(c, f)
           n == Natted(c, p)
<1>1. /\ p \in DataPacket /\ p.src = LocalIp[c] /\ p.sport = FlowData[f].sport
      /\ p.dport = FlowData[f].dport /\ p.proto = FlowData[f].proto
      /\ p.body.from = c /\ p.sport \in 0 .. 99
  BY RequestData
<1> HIDE DEF p
<1>2. /\ n \in DataPacket /\ n.proto = p.proto /\ n.sport = OuterPort(c, p.proto, p.sport)
      /\ n.dport = p.dport /\ n.body = p.body
  BY <1>1, NattedData
<1> HIDE DEF n
<1>3. n.body.kind = "data" /\ From(n) = c
  BY <1>1, <1>2, DataFields DEF From
<1>4. ASSUME config.Mode \in Redirect, n.proto = GetTunnelProtocol(config.Mode),
             n.dport \in AllPorts(config.TunnelPorts)
      PROVE  Direct(c, n.sport)
  BY <1>1, <1>2, <1>4 DEF Direct
<1>5. MetThere(lists, now, n)
  BY <1>3, <1>4 DEF MetThere, Met
<1> QED
  BY <1>5 DEF n, p

\* What a redirect sends.
LEMMA RedirectMet ==
  ASSUME NEW c \in Client, NEW f \in Flow, runs[c] \in Nat, config.Mode \in Redirect,
         NEW lists, NEW now, NEW i \in DOMAIN lists[c], NEW k, k = lists[c][i],
         k.ClientPort = Request(c, f).sport, k.TunnelPort \in Nat
  PROVE  MetThere(lists, now,
           Natted(c, RecalculateChecksum(EncryptPacket(SetDesPort(Request(c, f), k.TunnelPort)))))
<1> DEFINE p == Request(c, f)
           d == SetDesPort(p, k.TunnelPort)
           e == EncryptPacket(d)
           q == RecalculateChecksum(e)
           n == Natted(c, q)
<1>1. /\ p \in DataPacket /\ p.src = LocalIp[c] /\ p.sport \in 0 .. 99 /\ p.enc = 0 /\ p.body.from = c
  BY RequestData
<1>0. k.ClientPort = p.sport
  OBVIOUS
<1> HIDE DEF p
<1>2. /\ d \in DataPacket /\ d.src = p.src /\ d.sport = p.sport /\ d.dport = k.TunnelPort
      /\ d.enc = p.enc /\ d.body = p.body
  BY <1>1, SetDesPortData
<1> HIDE DEF d
<1>3. /\ e \in DataPacket /\ e.src = p.src /\ e.sport = p.sport /\ e.dport = k.TunnelPort
      /\ e.body = p.body
  BY <1>1, <1>2, EncryptData
<1> HIDE DEF e
<1>4. /\ q \in DataPacket /\ q.src = p.src /\ q.sport = p.sport /\ q.dport = k.TunnelPort
      /\ q.body = p.body
  BY <1>3, ChecksumData
<1> HIDE DEF q
<1>5. /\ n \in DataPacket /\ n.proto = q.proto /\ n.sport = OuterPort(c, q.proto, p.sport)
      /\ n.dport = k.TunnelPort /\ n.body = p.body
  <2>1. q.src = LocalIp[c] /\ q.sport \in 0 .. 99
    BY <1>1, <1>4
  <2> QED
    BY <1>4, <2>1, NattedData
<1> HIDE DEF n
<1>6. n.body.kind = "data" /\ From(n) = c /\ config.Mode \notin Sockets
  BY <1>1, <1>5, DataFields DEF From, Redirect, Sockets
<1>7. ASSUME n.proto = GetTunnelProtocol(config.Mode)
      PROVE  Meets(lists[c], c, n.sport, n.dport, <<>>)
  BY <1>0, <1>5, <1>6, <1>7 DEF Meets
<1>8. MetThere(lists, now, n)
  BY <1>6, <1>7 DEF MetThere, Met
<1> QED
  BY <1>8 DEF n, q, e, d, p

\* What the other modes send: their connection is the one that takes the answers.
LEMMA WrapMet ==
  ASSUME NEW c \in Client, NEW f \in Flow, runs[c] \in Nat, config.Mode \notin Redirect,
         NEW lists, NEW now, NEW session, NEW protocol, NEW src, NEW sport, NEW dport,
         Meets(lists[c], c, OuterPort(c, protocol, sport), dport, session)
  PROVE  MetThere(lists, now, Natted(c, Wrap(Request(c, f), session, protocol, src, Server, sport, dport)))
<1> DEFINE p == Request(c, f)
           w == Wrap(p, session, protocol, src, Server, sport, dport)
           n == Natted(c, w)
<1>1. p.body.from = c
  BY RequestData
<1> HIDE DEF p
<1>2. /\ IsPacket(w) /\ w.proto = protocol /\ w.sport = sport /\ w.dport = dport
      /\ w.body.kind = "packet" /\ w.body.session = session /\ w.body.packet = p
  BY WrapFacts
<1> HIDE DEF w
<1>3. n.dport = dport /\ n.body = w.body /\ n.sport = OuterPort(c, protocol, sport)
  BY <1>2, NattedPort
<1> HIDE DEF n
<1>4. n.body.kind = "packet" /\ From(n) = c /\ n.body.session = session
  BY <1>1, <1>2, <1>3 DEF From
<1>5. MetThere(lists, now, n)
  BY <1>3, <1>4 DEF MetThere, Met
<1> QED
  BY <1>5 DEF n, w, p

\* Whatever a client's connection sends can be answered to it.
LEMMA SendsMet ==
  ASSUME NEW c \in Client, NEW f \in Flow, config \in Configs, runs[c] \in Nat,
         NEW lists, NEW now, NEW i \in DOMAIN lists[c], NEW k \in OwnConnection(c), k = lists[c][i],
         TakesOutbound(k, Request(c, f)), NEW q \in ClientSends(k, Request(c, f))
  PROVE  MetThere(lists, now, Natted(c, q))
<1> DEFINE p == Request(c, f)
<1>0. p.src = LocalIp[c] /\ k \in ClientConnection
  BY RequestData DEF OwnConnection
<1>1. CASE config.Mode \in Redirect
  <2>1. q = RecalculateChecksum(EncryptPacket(SetDesPort(p, k.TunnelPort)))
    BY <1>1 DEF ClientSends, RedirectSends, Redirect
  <2>2. k.TunnelPort \in Nat
    BY <1>0, <1>1, PortInRange DEF ClientConnection
  <2>3. k.ClientPort = p.sport
    BY <1>1 DEF TakesOutbound
  <2> QED
    BY <1>1, <2>1, <2>2, <2>3, RedirectMet
<1>2. CASE config.Mode = "UDP-Simple-Tunnel"
  <2>1. q = Wrap(p, <<>>, "UDP", p.src, Server, k.ClientPort, k.TunnelPort)
    BY <1>2 DEF ClientSends, SimpleSends, Redirect
  <2>2. config.Mode \notin Sockets /\ config.Mode \notin Redirect /\ GetTunnelProtocol(config.Mode) = "UDP"
    BY <1>2 DEF Sockets, Redirect, GetTunnelProtocol
  <2>3. Meets(lists[c], c, OuterPort(c, "UDP", k.ClientPort), k.TunnelPort, <<>>)
    BY <2>2 DEF Meets
  <2> QED
    BY <2>1, <2>2, <2>3, WrapMet
<1>3. CASE config.Mode = "UDP-Tunnel"
  <2>1. PICK clientPort, serverPort \in AllPorts(config.TunnelPorts) :
               q = Wrap(p, k.Session, "UDP", p.src, Server, clientPort, serverPort)
    BY <1>3 DEF ClientSends, UdpSends, Redirect
  <2>2. config.Mode \notin Sockets /\ config.Mode \notin Redirect \cup {"UDP-Simple-Tunnel"}
    BY <1>3 DEF Sockets, Redirect
  <2>3. Meets(lists[c], c, OuterPort(c, "UDP", clientPort), serverPort, k.Session)
    BY <2>2 DEF Meets
  <2> QED
    BY <2>1, <2>2, <2>3, WrapMet
<1>4. CASE config.Mode \notin Redirect \cup {"UDP-Simple-Tunnel", "UDP-Tunnel"}
  <2>1. PICK port \in AllPorts(config.TunnelPorts) :
               q = Wrap(p, k.Session, "TCP", p.src, Server, 1, port)
    BY <1>4 DEF ClientSends, SocketSends
  <2>2. Meets(lists[c], c, OuterPort(c, "TCP", 1), port, k.Session)
    BY <1>4 DEF Meets
  <2> QED
    BY <1>4, <2>1, <2>2, WrapMet
<1> QED
  BY <1>1, <1>2, <1>3, <1>4

\* The connection that is found takes the packet.
LEMMA OutboundTakes ==
  ASSUME NEW c \in Client, NEW p, OutboundIndex(c, p) # 0, NEW S, conns[c] \in Seq(S)
  PROVE  /\ OutboundIndex(c, p) \in DOMAIN conns[c]
         /\ TakesOutbound(conns[c][OutboundIndex(c, p)], p)
<1> DEFINE I == {j \in 1 .. Len(conns[c]) : TakesOutbound(conns[c][j], p)}
           i == OutboundIndex(c, p)
<1>1. i = IF I # {} THEN Min(I) ELSE 0
  BY DEF SelectInSeq, OutboundIndex
<1>2. I \subseteq Nat /\ i # 0
  OBVIOUS
<1>3. DOMAIN conns[c] = 1 .. Len(conns[c])
  OBVIOUS
<1> HIDE DEF I, i
<1>4. i \in I
  BY <1>1, <1>2, IndexIn
<1> QED
  BY <1>3, <1>4 DEF I, i

\* What a step sends is met, by a list that the step only makes longer.
LEMMA AppSendsMet ==
  ASSUME OwnersInv, NEW c \in Client, NEW f \in Flow, AppSends(c, f)
  PROVE  /\ Grown(conns, runs, conns', runs')
         /\ \A x \in net' : x \in net \/ (x.dst = Server /\ MetThere(conns', runs', x))
<1> DEFINE p == Request(c, f)
           mine == Captured(ClientFilters, p, TRUE) /\ IsConfigForOutboundPacket(p)
           i == OutboundIndex(c, p)
           Good(x) == x \in net \/ (x.dst = Server /\ MetThere(conns', runs', x))
<1>1. /\ config \in Configs /\ runs[c] \in Nat /\ conns[c] \in Seq(OwnConnection(c))
      /\ conns \in [Client -> Seq(ClientConnection)] /\ runs' = runs
  BY DEF OwnersInv, ClientsInv, AppSends
<1>2. NewClientConnections(c, p) \subseteq OwnConnection(c)
  <2>1. p.sport \in 0 .. 99
    BY <1>1, RequestData
  <2>2. <<c, runs[c]>> \in Client \X Nat
    BY <1>1
  <2> HIDE DEF p
  <2> QED
    BY <2>1, <2>2 DEF NewClientConnections, ClientConnection, OwnConnection
<1>3. ASSUME Sends(c, p) PROVE \A x \in net' : Good(x)
  <2>1. ThereData(Natted(c, p)) /\ MetThere(conns', runs', Natted(c, p))
    BY <1>1, RequestThere, RequestMet
  <2> QED
    BY <1>3, <2>1 DEF Sends, ThereData, Asked
<1>4. ASSUME NEW k \in OwnConnection(c), NEW j \in DOMAIN conns'[c], k = conns'[c][j],
             TakesOutbound(k, p), NEW q \in ClientSends(k, p), Sends(c, q)
      PROVE  \A x \in net' : Good(x)
  <2>1. ThereData(Natted(c, q)) \/ ThereTunnel(Natted(c, q))
    BY <1>1, <1>4, ClientSendsThere
  <2>2. MetThere(conns', runs', Natted(c, q))
    BY <1>1, <1>4, SendsMet
  <2> QED
    BY <1>4, <2>1, <2>2 DEF Sends, ThereData, ThereTunnel, Asked
<1> HIDE DEF Good
<1>5. ASSUME UNCHANGED conns PROVE Grown(conns, runs, conns', runs')
  BY <1>1, <1>5, GrownSame
<1>6. CASE ~mine /\ Sends(c, p) /\ UNCHANGED conns
  BY <1>3, <1>5, <1>6 DEF Good
<1>7. CASE i # 0 /\ (\E q \in ClientSends(conns[c][i], p) : Sends(c, q)) /\ UNCHANGED conns
  <2>1. i \in DOMAIN conns[c] /\ TakesOutbound(conns[c][i], p)
    BY <1>1, <1>7, OutboundTakes
  <2>2. conns[c][i] \in OwnConnection(c)
    BY <1>1, <2>1
  <2> HIDE DEF p, i
  <2>3. \A x \in net' : Good(x)
    BY <1>4, <1>7, <2>1, <2>2
  <2> QED
    BY <1>5, <1>7, <2>3 DEF Good
<1>8. ASSUME NEW k \in NewClientConnections(c, p), conns' = [conns EXCEPT ![c] = Append(@, k)],
             \/ TakesOutbound(k, p) /\ \E q \in ClientSends(k, p) : Sends(c, q)
             \/ Sends(c, p)
      PROVE  Grown(conns, runs, conns', runs') /\ \A x \in net' : Good(x)
  <2>1. k \in OwnConnection(c)
    BY <1>2
  <2> DEFINE last == Len(conns[c]) + 1
             list == Append(conns[c], k)
  <2>2. /\ DOMAIN list = 1 .. last /\ last \in 1 .. last
        /\ DOMAIN conns[c] \subseteq 1 .. last /\ list[last] = k
        /\ \A j \in DOMAIN conns[c] : list[j] = conns[c][j]
    <3>1. /\ DOMAIN list = 1 .. last /\ DOMAIN conns[c] = 1 .. Len(conns[c]) /\ Len(conns[c]) \in Nat
          /\ list[last] = k /\ \A j \in DOMAIN conns[c] : list[j] = conns[c][j]
      BY <1>1, <2>1, Appended
    <3> QED
      BY <3>1
  <2> HIDE DEF last, list
  <2>3. \A d \in Client : conns'[d] = IF d = c THEN list ELSE conns[d]
    BY <1>1, <1>8 DEF list
  <2>4. Grown(conns, runs, conns', runs')
    BY <1>1, <2>2, <2>3 DEF Grown
  <2>5. last \in DOMAIN conns'[c] /\ k = conns'[c][last]
    BY <2>2, <2>3
  <2> HIDE DEF p
  <2> QED
    BY <1>3, <1>4, <1>8, <2>1, <2>4, <2>5
<1> HIDE DEF p
<1>9. Grown(conns, runs, conns', runs') /\ \A x \in net' : Good(x)
  BY <1>6, <1>7, <1>8, <1>5, <1>3, <1>4 DEF AppSends, p, Good
<1> QED
  BY <1>9 DEF Good

\* So an application's packet can be answered, if it goes to the tunnel.
LEMMA AppSendsMatch ==
  ASSUME OwnersInv, MatchInv, NEW c \in Client, NEW f \in Flow, AppSends(c, f)
  PROVE  MatchInv'
<1>1. Constant /\ Connections' = Connections
  BY DEF AppSends, fixed, serverVars, Constant
<1>2. /\ Grown(conns, runs, conns', runs')
      /\ \A x \in net' : x \in net \/ (x.dst = Server /\ MetThere(conns', runs', x))
  BY AppSendsMet
<1>3. MetConnections(conns', runs', Connections')
  BY <1>1, <1>2, ConnectionsStay
<1>4. MetNet(conns', runs', net')
  BY <1>2, NetStays DEF MetNet
<1> QED
  BY <1>1, <1>3, <1>4, SameMatch

\* What a connection's kind does not look at may differ.
LEMMA MetAlike ==
  ASSUME NEW lists, NEW now, NEW c, NEW client, NEW tunnel, NEW session,
         Met(lists, now, c, client, tunnel, session),
         NEW client2, NEW tunnel2, NEW session2,
         config.Mode \in Redirect \cup {"UDP-Simple-Tunnel"} => client2 = client /\ tunnel2 = tunnel,
         config.Mode \in Sockets => session2 = session
  PROVE  Met(lists, now, c, client2, tunnel2, session2)
BY DEF Met, Meets, Direct

\* A connection that begins with a packet has what the packet has.
LEMMA BegunMet ==
  ASSUME MatchInv, NEW p \in net, NEW k, Begun(p, k), NEW c \in Client, Owns(c, k)
  PROVE  Met(conns, runs, c, k.ClientPort, k.TunnelPort, k.Session)
<1>1. /\ There(p) /\ Owns(From(p), k) /\ k.ClientPort = p.sport /\ k.TunnelPort = p.dport
      /\ config.Mode \in Sockets => k.Session = p.body.session
      /\ config.Mode \notin Redirect => Carries(p)
      /\ config.Mode \in Redirect =>
           p.proto = GetTunnelProtocol(config.Mode) /\ p.dport \in AllPorts(config.TunnelPorts)
  BY DEF Begun
<1>2. From(p) = c
  <2>1. From(p) \in Client
    BY <1>1, ThereFacts
  <2> QED
    BY <1>1, <2>1, OneOwner
<1>3. MetThere(conns, runs, p)
  BY <1>1 DEF MatchInv, MetNet, There
<1>4. CASE config.Mode \in Redirect
  <2>1. p.body.kind = "data"
    <3>1. p.body.kind # "packet"
      BY <1>3, <1>4 DEF MetThere
    <3>2. ThereData(p)
      BY <1>1, <3>1 DEF There, ThereTunnel
    <3> QED
      BY <3>2, DataFields DEF ThereData, Asked
  <2>2. Met(conns, runs, c, p.sport, p.dport, <<>>)
    BY <1>1, <1>2, <1>3, <1>4, <2>1 DEF MetThere
  <2>3. config.Mode \notin Sockets
    BY <1>4 DEF Redirect, Sockets
  <2> QED
    BY <1>1, <2>2, <2>3, MetAlike
<1>5. CASE config.Mode \notin Redirect
  <2>1. Met(conns, runs, c, p.sport, p.dport, p.body.session)
    BY <1>1, <1>2, <1>3, <1>5 DEF MetThere, Carries
  <2> QED
    BY <1>1, <2>1, MetAlike
<1> QED
  BY <1>4, <1>5

\* The server's connections have ports and sessions of their clients.
LEMMA FollowsMet ==
  ASSUME MatchInv, NEW p \in net, Follows(p)
  PROVE  MetConnections(conns, runs, Connections')
<1> SUFFICES ASSUME NEW i \in DOMAIN Connections', NEW c \in Client, Owns(c, Connections'[i])
             PROVE  LET k == Connections'[i] IN Met(conns, runs, c, k.ClientPort, k.TunnelPort, k.Session)
  BY DEF MetConnections
<1> DEFINE k == Connections'[i]
<1>1. CASE Begun(p, k)
  BY <1>1, BegunMet
<1>2. ASSUME NEW j \in DOMAIN Connections, Kept(Connections[j], k)
      PROVE  Met(conns, runs, c, k.ClientPort, k.TunnelPort, k.Session)
  <2> DEFINE b == Connections[j]
  <2>1. /\ k.ClientPort = b.ClientPort /\ k.TunnelPort = b.TunnelPort
        /\ config.Mode \in Sockets => k.Session = b.Session
        /\ Owns(c, b)
    BY <1>2 DEF Kept
  <2>2. Met(conns, runs, c, b.ClientPort, b.TunnelPort, b.Session)
    BY <2>1 DEF MatchInv, MetConnections
  <2> HIDE DEF b, k
  <2> QED
    BY <2>1, <2>2, MetAlike
<1> QED
  BY <1>1, <1>2 DEF Follows

\* What the server answers with finds a connection of the client that asked.
LEMMA PlainMet ==
  ASSUME OwnersInv, NEW r \in pending, NEW lists, NEW now
  PROVE  MetBack(lists, now, Reply(r))
<1> DEFINE p == Reply(r)
           q == r.packet
<1>1. /\ p \in DataPacket /\ p.dst = q.src
      /\ p.body.from = q.body.from /\ p.body.flow = q.body.flow
      /\ p.body.kept => q.src # 0
      /\ Waits(q)
  BY ReplyFacts
<1> HIDE DEF p, q
<1>2. p.body.kind = "data"
  BY <1>1, DataFields
<1>3. p.body.kept /\ Carriable(p.body.flow) => IsVirtual(p.dst)
  BY <1>1 DEF Waits
<1>4. MetBack(lists, now, p)
  BY <1>2, <1>3 DEF MetBack
<1> QED
  BY <1>4 DEF p

\* The connection an answer is sent through.
LEMMA OwnerMet ==
  ASSUME OwnersInv, MatchInv, NEW r \in pending, FindByVirtualIp(Reply(r).dst) # 0, Reply(r).body.kept
  PROVE  LET k == Connections[FindByVirtualIp(Reply(r).dst)] IN
         Met(conns, runs, r.packet.body.from, k.ClientPort, k.TunnelPort, k.Session)
<1> DEFINE i == FindByVirtualIp(Reply(r).dst)
           c == r.packet.body.from
<1>1. Owns(c, Connections[i])
  BY ReplyConnection
<1>2. i \in DOMAIN Connections
  BY FoundByVirtualIp
<1>3. c \in Client
  <2>1. Waits(r.packet)
    BY ReplyFacts
  <2> QED
    BY <2>1, DataFields DEF Waits, Asked
<1> HIDE DEF i, c
<1>4. LET k == Connections[i] IN Met(conns, runs, c, k.ClientPort, k.TunnelPort, k.Session)
  BY <1>1, <1>2, <1>3 DEF MatchInv, MetConnections
<1> QED
  BY <1>4 DEF i, c

\* An answer of a redirect.
LEMMA RedirectBackMet ==
  ASSUME OwnersInv, MatchInv, NEW r \in pending, config.Mode \in Redirect, FindByVirtualIp(Reply(r).dst) # 0,
         NEW x \in RedirectAnswers(Connections[FindByVirtualIp(Reply(r).dst)], Reply(r))
  PROVE  MetBack(conns, runs, x)
<1> DEFINE q == r.packet
           k == Connections[FindByVirtualIp(Reply(r).dst)]
<1>1. /\ x \in DataPacket /\ x.sport = k.TunnelPort /\ x.dport = q.sport /\ x.body = Reply(r).body
  BY RedirectAnswer
<1>2. Reply(r).body.kept => k.ClientPort = q.sport
  BY ReplyConnection
<1>3. Reply(r).body.from = q.body.from
  BY ReplyFacts
<1>4. Reply(r).body.kept => Met(conns, runs, q.body.from, k.ClientPort, k.TunnelPort, k.Session)
  BY OwnerMet
<1>5. x.body.kind = "data" /\ config.Mode \notin Sockets
  BY <1>1, DataFields DEF Redirect, Sockets
<1> HIDE DEF q, k
<1>6. From(x) = q.body.from
  BY <1>1, <1>3, <1>5 DEF From
<1>7. x.body.kept => Met(conns, runs, q.body.from, x.dport, x.sport, <<>>)
  BY <1>1, <1>2, <1>4, <1>5, MetAlike
<1> QED
  BY <1>5, <1>6, <1>7 DEF MetBack

\* An answer in a packet of a tunnel.
LEMMA WrapBackMet ==
  ASSUME OwnersInv, NEW r \in pending, config.Mode \notin Redirect, FindByVirtualIp(Reply(r).dst) # 0,
         NEW k, k = Connections[FindByVirtualIp(Reply(r).dst)],
         NEW session, NEW protocol, NEW src, NEW sport, NEW dport,
         Reply(r).body.kept => Met(conns, runs, r.packet.body.from, dport, sport, session)
  PROVE  MetBack(conns, runs,
           Wrap(ForClient(k, Reply(r)), session, protocol, src, k.ClientIp, sport, dport))
<1> DEFINE p == Reply(r)
           s == SetDesIp(p, k.ClientLocalIp)
           m == ForClient(k, p)
           w == Wrap(m, session, protocol, src, k.ClientIp, sport, dport)
<1>1. p \in DataPacket /\ p.body.from = r.packet.body.from
  BY ReplyFacts
<1>2. k.ClientLocalIp \in Nat
  <2>1. IsConnection(k)
    BY ReplyConnection
  <2> QED
    BY <2>1, ConnectionReach
<1>3. m = RecalculateChecksum(s)
  BY DEF ForClient
<1>0. p.body.kept => Met(conns, runs, r.packet.body.from, dport, sport, session)
  OBVIOUS
<1> HIDE DEF p
<1>4. s \in DataPacket /\ s.body = p.body
  BY <1>1, <1>2, SetDesIpData
<1> HIDE DEF s, m
<1>5. m.body = p.body /\ m.sums = AllSums
  BY <1>3, <1>4, ChecksumData
<1>6. /\ w.dport = dport /\ w.sport = sport /\ w.enc = 1
      /\ w.body.kind = "packet" /\ w.body.packet = m /\ w.body.session = session
  BY WrapFacts
<1> HIDE DEF w
<1>7. MetBack(conns, runs, w)
  BY <1>0, <1>1, <1>5, <1>6 DEF MetBack, From
<1> QED
  BY <1>7 DEF w, m, p

\* Whatever the server's connection sends.
LEMMA AnswersMet ==
  ASSUME OwnersInv, MatchInv, NEW r \in pending, FindByVirtualIp(Reply(r).dst) # 0,
         NEW x \in ServerSends(Connections[FindByVirtualIp(Reply(r).dst)], Reply(r))
  PROVE  MetBack(conns, runs, x)
<1> DEFINE p == Reply(r)
           k == Connections[FindByVirtualIp(Reply(r).dst)]
           c == r.packet.body.from
<1>0. p.body.kept => Met(conns, runs, c, k.ClientPort, k.TunnelPort, k.Session)
  BY OwnerMet
<1>1. CASE config.Mode \in Redirect
  BY <1>1, RedirectBackMet DEF ServerSends, Redirect
<1>2. CASE config.Mode = "UDP-Simple-Tunnel"
  <2>1. x \in SimpleAnswers(k, p) /\ config.Mode \notin Redirect /\ config.Mode \notin Sockets
    BY <1>2 DEF ServerSends, Redirect, Sockets
  <2>2. x = Wrap(ForClient(k, p), <<>>, "UDP", p.src, k.ClientIp, k.TunnelPort, k.ClientPort)
    BY <2>1 DEF SimpleAnswers
  <2>3. p.body.kept => Met(conns, runs, c, k.ClientPort, k.TunnelPort, <<>>)
    <3> HIDE DEF k, c, p
    <3> QED
      BY <1>0, <2>1, MetAlike
  <2> QED
    BY <2>1, <2>2, <2>3, WrapBackMet
<1>3. CASE config.Mode = "UDP-Tunnel"
  <2>1. /\ x \in UdpAnswers(k, p) /\ config.Mode \notin Redirect \cup {"UDP-Simple-Tunnel"}
        /\ config.Mode \notin Sockets
    BY <1>3 DEF ServerSends, Redirect, Sockets
  <2>2. PICK i \in DOMAIN k.Ports :
          x = Wrap(ForClient(k, p), <<>>, "UDP", k.LocalIp, k.ClientIp, k.Ports[i][1], k.Ports[i][2])
    BY <2>1 DEF UdpAnswers
  <2>3. p.body.kept => Met(conns, runs, c, k.Ports[i][2], k.Ports[i][1], <<>>)
    <3> HIDE DEF k, c, p
    <3> QED
      BY <1>0, <2>1, MetAlike
  <2> QED
    BY <2>1, <2>2, <2>3, WrapBackMet
<1>4. CASE config.Mode \notin Redirect \cup {"UDP-Simple-Tunnel", "UDP-Tunnel"}
  <2>1. x \in SocketAnswers(k, p)
    BY <1>4 DEF ServerSends
  <2>2. x = Wrap(ForClient(k, p), k.Session, "TCP", k.LocalIp, k.ClientIp, k.TunnelPort, k.ClientPort)
    BY <2>1 DEF SocketAnswers
  <2> QED
    BY <1>0, <1>4, <2>2, WrapBackMet
<1> QED
  BY <1>1, <1>2, <1>3, <1>4

\* At the start there is nothing.
LEMMA MatchInit == Init => MatchInv
<1> SUFFICES ASSUME Init PROVE MatchInv
  OBVIOUS
<1>1. net = {} /\ DOMAIN Connections = {}
  BY DEF Init
<1> QED
  BY <1>1 DEF MatchInv, MetNet, MetConnections

\* A step that answers nothing and leaves the clients alone.
LEMMA QuietMatch ==
  ASSUME OwnersInv, MatchInv, Constant, UNCHANGED <<conns, runs>>, net' \subseteq net,
         MetConnections(conns, runs, Connections')
  PROVE  MatchInv'
<1>1. Grown(conns, runs, conns, runs)
  BY DEF Grown
<1>2. MetNet(conns', runs', net')
  BY <1>1, NetStays DEF MetNet
<1> QED
  BY <1>2, SameMatch

\* An answer finds its connection.
LEMMA ServiceRepliesMatch ==
  ASSUME OwnersInv, MatchInv, NEW r \in pending, ServiceReplies(r)
  PROVE  MatchInv'
<1> DEFINE p == Reply(r)
           i == IF Captured(ServerFilters, p, TRUE) THEN FindByVirtualIp(p.dst) ELSE 0
<1>1. Constant /\ UNCHANGED <<conns, runs, Connections>>
  BY DEF ServiceReplies, fixed, clientVars, Constant
<1>2. \/ net' = net \cup {p}
      \/ i # 0 /\ \E q \in ServerSends(Connections[i], p) : net' = net \cup {q}
      \/ net' = net
  BY DEF ServiceReplies
<1>3. i # 0 => i = FindByVirtualIp(p.dst)
  OBVIOUS
<1>4. BackData(p) /\ MetBack(conns, runs, p)
  BY PlainBack, PlainMet
<1>5. ASSUME i # 0, NEW q \in ServerSends(Connections[i], p)
      PROVE  (BackData(q) \/ BackTunnel(q)) /\ MetBack(conns, runs, q)
  BY <1>3, <1>5, AnswersBack, AnswersMet
<1> HIDE DEF i, p
<1>6. \A x \in net' : x \in net \/ (x.dst # Server /\ MetBack(conns, runs, x))
  BY <1>2, <1>4, <1>5 DEF BackData, BackTunnel
<1>7. Grown(conns, runs, conns, runs)
  BY DEF Grown
<1>8. MetNet(conns, runs, net')
  BY <1>6, <1>7, NetStays DEF MetNet
<1>9. MetConnections(conns, runs, Connections')
  BY <1>1 DEF MatchInv
<1> QED
  BY <1>1, <1>8, <1>9, SameMatch

\* A client that starts again expects no answers.
LEMMA ClientRestartsMatch ==
  ASSUME OwnersInv, MatchInv, NEW c \in Client, ClientRestarts(c)
  PROVE  MatchInv'
<1>1. /\ Constant /\ UNCHANGED <<net, Connections>>
      /\ runs' = [runs EXCEPT ![c] = @ + 1] /\ conns' = [conns EXCEPT ![c] = <<>>]
  BY DEF ClientRestarts, fixed, serverVars, Constant
<1>2. runs \in [Client -> Nat] /\ conns \in [Client -> Seq(ClientConnection)]
  BY DEF OwnersInv, ClientsInv
<1>3. Grown(conns, runs, conns', runs')
  <2>1. ASSUME NEW d \in Client, runs'[d] = 0
        PROVE  runs[d] = 0 /\ conns'[d] = conns[d]
    <3>1. CASE d = c
      <4>1. runs'[d] = runs[d] + 1 /\ runs[d] \in Nat
        BY <1>1, <1>2, <3>1
      <4> QED
        BY <2>1, <4>1
    <3>2. CASE d # c
      BY <1>1, <1>2, <2>1, <3>2
    <3> QED
      BY <3>1, <3>2
  <2> QED
    BY <2>1 DEF Grown
<1>4. MetNet(conns', runs', net')
  BY <1>1, <1>3, NetStays DEF MetNet
<1>5. MetConnections(conns', runs', Connections')
  BY <1>1, <1>3, ConnectionsStay
<1> QED
  BY <1>1, <1>4, <1>5, SameMatch

\* Every step keeps a connection for every answer.
LEMMA MatchStep == OwnersInv /\ ArriveInv /\ MatchInv /\ [Next]_vars => MatchInv'
<1> SUFFICES ASSUME OwnersInv, ArriveInv, MatchInv, [Next]_vars PROVE MatchInv'
  OBVIOUS
<1>1. ASSUME NEW c \in Client, NEW f \in Flow, AppSends(c, f) PROVE MatchInv'
  BY <1>1, AppSendsMatch
<1>2. ASSUME NEW c \in Client, ClientRestarts(c) PROVE MatchInv'
  BY <1>2, ClientRestartsMatch
<1>3. MetConnections(conns, runs, Connections)
  BY DEF MatchInv
<1>4. ASSUME NEW p \in net, ServerReceives(p) PROVE MatchInv'
  <2>1. Constant /\ UNCHANGED <<conns, runs>> /\ net' \subseteq net
    BY <1>4 DEF ServerReceives, fixed, clientVars, Constant
  <2>2. MetConnections(conns, runs, Connections')
    BY <1>4, ServerReceivesOwners, FollowsMet
  <2> QED
    BY <2>1, <2>2, QuietMatch
<1>5. ASSUME NEW p \in net, NEW c \in Client, ClientReceives(c, p) PROVE MatchInv'
  <2>1. Constant /\ UNCHANGED <<conns, runs, Connections>> /\ net' \subseteq net
    BY <1>5 DEF ClientReceives, fixed, serverVars, Constant
  <2> QED
    BY <1>3, <2>1, QuietMatch
<1>6. ASSUME NEW r \in pending, ServiceReplies(r) PROVE MatchInv'
  BY <1>6, ServiceRepliesMatch
<1>7. ASSUME NEW n \in DOMAIN Connections, ServerTimeout(n) PROVE MatchInv'
  <2>1. Constant /\ UNCHANGED <<conns, runs>> /\ net' \subseteq net
    BY <1>7 DEF ServerTimeout, fixed, clientVars, Constant
  <2>2. MetConnections(conns, runs, Connections')
    BY <1>3, <1>7, ServerTimeoutOwners DEF MetConnections
  <2> QED
    BY <2>1, <2>2, QuietMatch
<1>8. CASE ServerRestarts
  <2>1. /\ Constant /\ UNCHANGED <<conns, runs>> /\ net' \subseteq net
        /\ DOMAIN Connections' = {}
    BY <1>8 DEF ServerRestarts, fixed, clientVars, Constant
  <2> QED
    BY <2>1, QuietMatch DEF MetConnections
<1>9. CASE UNCHANGED vars
  <2>1. Constant /\ UNCHANGED <<conns, runs, Connections>> /\ net' \subseteq net
    BY <1>9 DEF vars, Constant
  <2> QED
    BY <1>3, <2>1, QuietMatch
<1> QED
  BY <1>1, <1>2, <1>4, <1>5, <1>6, <1>7, <1>8, <1>9 DEF Next

\* What the network does to a port is undone.
LEMMA PortBack ==
  ASSUME NEW c \in Client, NEW proto, HasPorts(proto), NEW port \in 0 .. 99,
         NEW p, IsPacket(p), p.dport = OuterPort(c, proto, port)
  PROVE  Unnatted(c, p).dport = port /\ Unnatted(c, p).sport = p.sport
<1>1. CASE NatIndex[c] = 0
  BY <1>1, OuterPortFacts DEF Unnatted
<1>2. CASE NatIndex[c] # 0
  <2>1. p.dport % 100 = port
    BY <1>2, OuterPortFacts
  <2>2. Unnatted(c, p).dport = p.dport % 100 /\ Unnatted(c, p).sport = p.sport
    BY <1>2 DEF Unnatted, IsPacket, PacketFields
  <2> QED
    BY <2>1, <2>2
<1> QED
  BY <1>1, <1>2

\* A connection that the ports meet is the one the packet is for.
LEMMA PortsMet ==
  ASSUME OwnersInv, NEW c \in Client, NEW p, IsPacket(p), NEW session,
         config.Mode \in Redirect \cup {"UDP-Simple-Tunnel"},
         Meets(conns[c], c, p.dport, p.sport, session)
  PROVE  \E i \in DOMAIN conns[c] :
           /\ Unnatted(c, p).sport = conns[c][i].TunnelPort
           /\ Unnatted(c, p).dport = conns[c][i].ClientPort
<1>1. PICK i \in DOMAIN conns[c] :
        /\ p.dport = OuterPort(c, GetTunnelProtocol(config.Mode), conns[c][i].ClientPort)
        /\ p.sport = conns[c][i].TunnelPort
  BY DEF Meets
<1>2. conns[c][i] \in OwnConnection(c)
  <2>1. conns[c] \in Seq(OwnConnection(c))
    BY DEF OwnersInv, ClientsInv
  <2> QED
    BY <2>1
<1>3. conns[c][i].ClientPort \in 0 .. 99
  BY <1>2 DEF OwnConnection
<1>4. HasPorts(GetTunnelProtocol(config.Mode))
  BY DEF HasPorts, GetTunnelProtocol
<1> QED
  BY <1>1, <1>3, <1>4, PortBack

\* No application's own packets share their port with what is redirected.
LEMMA NotDirect ==
  ASSUME config \in Configs, config.Mode \in Redirect, NEW c \in Client, NEW f \in Flow, Carriable(f),
         NEW client, client = OuterPort(c, FlowData[f].proto, FlowData[f].sport)
  PROVE  ~Direct(c, client)
<1> SUFFICES ASSUME Direct(c, client) PROVE FALSE
  OBVIOUS
<1>1. PICK g \in Flow :
        /\ FlowData[g].proto = GetTunnelProtocol(config.Mode)
        /\ FlowData[g].dport \in AllPorts(config.TunnelPorts)
        /\ client = OuterPort(c, FlowData[g].proto, FlowData[g].sport)
  BY DEF Direct
<1>2. /\ FlowData[f].proto = GetTunnelProtocol(config.Mode) /\ FlowData[f].dport = config.RealPort
      /\ HasPorts(FlowData[f].proto)
  BY RedirectGrabs DEF Carriable
<1>3. FlowData[f].sport \in 0 .. 99 /\ FlowData[g].sport \in 0 .. 99
  BY FlowPort
<1> DEFINE proto == FlowData[f].proto
           a == FlowData[f].sport
           b == FlowData[g].sport
<1>4. OuterPort(c, proto, a) = OuterPort(c, proto, b) /\ HasPorts(proto)
  BY <1>1, <1>2
<1> HIDE DEF proto, a, b
<1>5. a = b
  <2>1. a \in 0 .. 99 /\ b \in 0 .. 99
    BY <1>3 DEF a, b
  <2>2. CASE NatIndex[c] = 0
    BY <1>4, <2>1, <2>2, OuterPortFacts
  <2>3. CASE NatIndex[c] # 0
    <3>1. OuterPort(c, proto, a) % 100 = a /\ OuterPort(c, proto, b) % 100 = b
      BY <1>4, <2>1, <2>3, OuterPortFacts
    <3> QED
      BY <1>4, <3>1
  <2> QED
    BY <2>2, <2>3
<1> QED
  BY <1>1, <1>2, <1>5, TunnelPortsApart DEF a, b

\* An answer of a redirect, at its client.
LEMMA RedirectAccepted ==
  ASSUME OwnersInv, ArriveInv, MatchInv, NEW p \in net, NEW c \in Receivers(p),
         BackData(p), p.body.kept, runs[c] = 0, Carriable(p.body.flow)
  PROVE  \E i \in DOMAIN conns[c] : ClientTakes(conns[c][i], Unnatted(c, p))
<1>1. c \in Client /\ p.body.from = c /\ ~IsVirtual(p.dst) /\ p.dst # Server /\ p \in DataPacket
  BY AtClient DEF BackData
<1>2. /\ config.Mode \in Redirect /\ p.proto = FlowData[p.body.flow].proto
      /\ p.dport = OuterPort(c, FlowData[p.body.flow].proto, FlowData[p.body.flow].sport)
  BY <1>1 DEF BackData
<1>3. p.body.kind = "data" /\ p.body.flow \in Flow /\ From(p) = c
  BY <1>1, DataFields DEF From
<1>4. MetBack(conns, runs, p)
  BY <1>1 DEF MatchInv, MetNet
<1>5. Met(conns, runs, c, p.dport, p.sport, <<>>)
  BY <1>1, <1>2, <1>3, <1>4 DEF MetBack
<1>6. ~Direct(c, p.dport)
  BY <1>1, <1>2, <1>3, NotDirect DEF OwnersInv
<1>7. Meets(conns[c], c, p.dport, p.sport, <<>>)
  BY <1>5, <1>6 DEF Met
<1>8. IsPacket(p)
  BY DEF ArriveInv, Tunnelled
<1>9. PICK i \in DOMAIN conns[c] :
        /\ Unnatted(c, p).sport = conns[c][i].TunnelPort
        /\ Unnatted(c, p).dport = conns[c][i].ClientPort
  BY <1>1, <1>2, <1>7, <1>8, PortsMet
<1> QED
  BY <1>2, <1>9 DEF ClientTakes, Redirect

\* An answer in a tunnel, at its client.
LEMMA TunnelAccepted ==
  ASSUME OwnersInv, ArriveInv, MatchInv, NEW p \in net, NEW c \in Receivers(p),
         BackTunnel(p), p.body.packet.body.kept, runs[c] = 0
  PROVE  \/ \E i \in DOMAIN conns[c] : ClientTakes(conns[c][i], Unnatted(c, p))
         \/ CourierTakes(c, Unnatted(c, p))
<1> DEFINE q == Unnatted(c, p)
<1>1. c \in Client /\ p.body.packet.body.from = c
  BY AtClient
<1>2. p.body.kind = "packet" /\ p.dst # Server /\ From(p) = c
  BY <1>1 DEF BackTunnel, From
<1>3. MetBack(conns, runs, p)
  BY <1>2 DEF MatchInv, MetNet
<1>4. /\ config.Mode \notin Redirect /\ p.enc = 1 /\ p.body.packet.sums = AllSums
      /\ Met(conns, runs, c, p.dport, p.sport, p.body.session)
  BY <1>2, <1>3 DEF MetBack
<1>5. Meets(conns[c], c, p.dport, p.sport, p.body.session)
  BY <1>4 DEF Met, Direct
<1>6. IsPacket(p)
  BY DEF ArriveInv, Tunnelled
<1>7. q.body = p.body /\ q.enc = p.enc
  BY <1>6, UnnattedBody
<1>8. CASE config.Mode = "UDP-Simple-Tunnel"
  <2>1. PICK i \in DOMAIN conns[c] : q.sport = conns[c][i].TunnelPort /\ q.dport = conns[c][i].ClientPort
    BY <1>1, <1>5, <1>6, <1>8, PortsMet
  <2> HIDE DEF q
  <2>2. Carries(q) /\ IsValidChecksum(Carried(q))
    BY <1>2, <1>4, <1>7 DEF Carries, Carried, IsValidChecksum, AllSums
  <2>3. ClientTakes(conns[c][i], q)
    BY <1>4, <1>8, <2>1, <2>2 DEF ClientTakes
  <2> QED
    BY <2>3 DEF q
<1> HIDE DEF q
<1>9. Carries(q) /\ IsValidChecksum(Carried(q))
  BY <1>2, <1>4, <1>7 DEF Carries, Carried, IsValidChecksum, AllSums
<1>10. CASE config.Mode = "UDP-Tunnel"
  <2>1. PICK i \in DOMAIN conns[c] : TRUE
    BY <1>5 DEF Meets
  <2>2. ClientTakes(conns[c][i], q)
    BY <1>4, <1>9, <1>10 DEF ClientTakes
  <2> QED
    BY <2>2 DEF q
<1>11. CASE config.Mode \in Sockets
  <2>1. \E i \in DOMAIN conns[c] : conns[c][i].Session = q.body.session
    BY <1>5, <1>7, <1>11 DEF Meets
  <2>2. CourierTakes(c, q)
    BY <1>9, <1>11, <2>1 DEF CourierTakes
  <2> QED
    BY <2>2 DEF q
<1> QED
  BY <1>4, <1>8, <1>10, <1>11, ConfigType DEF OwnersInv, Mode

\* So a connection of the client takes the answer.
LEMMA MatchAccepts ==
  ASSUME OwnersInv, ArriveInv, MatchInv
  PROVE  RepliesAccepted
<1> SUFFICES ASSUME NEW p \in net, NEW c \in Receivers(p), runs[c] = 0,
                    NEW inner, inner = (IF p.body.kind = "packet" THEN p.body.packet ELSE p),
                    inner.body.kept, Carriable(inner.body.flow)
             PROVE  \/ \E i \in DOMAIN conns[c] : ClientTakes(conns[c][i], Unnatted(c, p))
                    \/ CourierTakes(c, Unnatted(c, p))
  BY DEF RepliesAccepted, Carriable
<1>1. BackData(p) \/ BackTunnel(p)
  BY AtClient
<1>2. CASE BackData(p)
  <2>1. inner = p
    BY <1>2, DataFields DEF BackData
  <2> QED
    BY <1>2, <2>1, RedirectAccepted
<1>3. CASE BackTunnel(p)
  <2>1. inner = p.body.packet
    BY <1>3 DEF BackTunnel
  <2> QED
    BY <1>3, <2>1, TunnelAccepted
<1> QED
  BY <1>1, <1>2, <1>3

\* A reply in the tunnel finds a connection of the client that takes it.
THEOREM RepliesCorrect == Spec => []RepliesAccepted
<1>1. Init => MatchInv
  BY MatchInit
<1>2. OwnersInv /\ ArriveInv /\ MatchInv /\ [Next]_vars => MatchInv'
  BY MatchStep
<1>3. OwnersInv /\ ArriveInv /\ MatchInv => RepliesAccepted
  BY MatchAccepts
<1> QED
  BY <1>1, <1>2, <1>3, OwnersInvariant, ArriveInvariant, PTL DEF Spec
=============================================================================
