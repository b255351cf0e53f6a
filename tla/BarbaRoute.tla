-------------------------------- MODULE BarbaRoute --------------------------------
(***************************************************************************)
(* The way of a packet: from an application of a client, through the       *)
(* client's filter and program, the network and a NAT, the server's filter *)
(* and program, to a service, and the way of the reply back.  The filter   *)
(* driver hands one packet at a time to the program (BarbaFilterDriver),   *)
(* so capturing and processing is one step here; couriers carry a packet   *)
(* whole.  A packet or a reply may never arrive, packets overtake each     *)
(* other, and either program may restart.                                  *)
(***************************************************************************)
EXTENDS BarbaPackets

CONSTANTS
  Client, Server, NatIp,
  LocalIp,        \* the clients' own addresses
  NatIndex,       \* a client behind the NAT has a number, others 0
  Flow, FlowData, \* what applications send: [proto, sport, dport, large]
  Configs,        \* the configuration the programs share, one per behaviour
  Ranges, MaxVirtualIps,
  MaxPorts,       \* PortManager's size
  Workloads       \* bounds: [flows, requests, restarts] of a behaviour

Protocol == {"TCP", "UDP", "GRE"}

ASSUME RouteAssumption ==
  /\ Server \in Nat \ {0}
  /\ MaxVirtualIps \in Nat \ {0} /\ MaxPorts \in Nat \ {0}
  /\ Workloads \subseteq [flows : SUBSET Flow, requests : Nat, restarts : Nat]
  /\ NatIndex \in [Client -> Nat]
  /\ FlowData \in [Flow -> [proto : Protocol, sport : Nat, dport : Nat, large : BOOLEAN]]
  /\ \A config \in Configs :
       /\ config.Mode \in Mode /\ config.RealPort \in Nat
       /\ config.Mode \in Redirect => config.RealPort # 0
       /\ config.GrabProtocols \subseteq [Protocol : Protocol \cup {"any"}, Port : Nat]
       /\ config.ServerIp \in {0, Server}
       /\ config.TunnelPorts \in Seq([StartPort : Nat, EndPort : Nat])

\* Clients differ in their addresses or behind the NAT, which has 100 ports for
\* each.  The virtual addresses, more of them than the range has (see Indices),
\* are those of no client and not the server's.
ASSUME AddressAssumption ==
  LET Own == {c \in Client : NatIndex[c] = 0}
      Outer == {NatIp} \cup {LocalIp[c] : c \in Own}
  IN /\ LocalIp \in [Client -> Nat] /\ Outer \subseteq Nat \ {0, Server}
     /\ \A c \in Own : LocalIp[c] # NatIp
     /\ \A c, d \in Client :
          NatIndex[c] = NatIndex[d] /\ (c \in Own => LocalIp[c] = LocalIp[d]) => c = d
     /\ \A f \in Flow : FlowData[f].sport < 100
     /\ \A config \in Configs : \A port \in AllPorts(config.TunnelPorts) : port < 100
     /\ \A range \in Ranges :
          /\ range.StartIp \in Nat /\ range.EndIp \in Nat
          /\ \A i \in Indices(range, MaxVirtualIps) : range.StartIp + i \notin Outer \cup {Server}

\* With a redirect, no application talks to a tunnel port from a port whose
\* packets to the real port are redirected.
ASSUME TunnelPortsApart ==
  \A config \in Configs : config.Mode \in Redirect =>
    \A f, g \in Flow :
      /\ FlowData[f].proto = GetTunnelProtocol(config.Mode)
      /\ FlowData[f].dport = config.RealPort
      /\ FlowData[g].proto = FlowData[f].proto /\ FlowData[g].sport = FlowData[f].sport
      => FlowData[g].dport \notin AllPorts(config.TunnelPorts)

\* A courier's own connections pass the client's filter: a configuration must
\* not grab them.
ASSUME NoSelfGrab ==
  \A config \in Configs : config.Mode \in Sockets =>
    \A g \in config.GrabProtocols :
      g.Protocol \in {"any", "TCP"} =>
        g.Port # 0 /\ ~IsPortInRange(config.TunnelPorts, g.Port)

VARIABLES
  config, range,
  capture,      \* the client's filter: "full", "ipOnly" or "all"
  conns,        \* each client's list of connections
  runs,         \* how often each client was started again
  asked,        \* what each application sent, and in which run
  got,          \* replies that reached an application
  net,          \* packets under way
  Connections,  \* the server's list of connections
  VirtualIps,   \* the indices of the addresses in use
  restarts,     \* how often the server was started again
  pending       \* requests at the service; history: their connection is still listed

vars == <<config, range, capture, conns, runs, asked, got, net, Connections, VirtualIps,
          restarts, pending>>
fixed == <<config, range, capture>>
clientVars == <<conns, runs, asked, got>>
serverVars == <<Connections, VirtualIps, restarts, pending>>

-----------------------------------------------------------------------------
(* The network *)

Request(c, f) ==
  [src |-> LocalIp[c], dst |-> Server, proto |-> FlowData[f].proto,
   sport |-> FlowData[f].sport, dport |-> FlowData[f].dport,
   enc |-> 0, large |-> FlowData[f].large, sums |-> AllSums,
   body |-> [kind |-> "data", from |-> c, flow |-> f, run |-> runs[c],
             reply |-> FALSE, kept |-> TRUE]]

\* The NAT tells clients apart by the port it gives them.
NatPort(c, port) == 100 * NatIndex[c] + port
Natted(c, p) ==
  IF NatIndex[c] = 0 THEN p
  ELSE [p EXCEPT !.src = NatIp, !.sport = IF HasPorts(p.proto) THEN NatPort(c, @) ELSE @]
Receivers(p) ==
  {c \in Client : IF NatIndex[c] = 0 THEN p.dst = LocalIp[c]
                  ELSE p.dst = NatIp /\ HasPorts(p.proto) /\ p.dport \div 100 = NatIndex[c]}
Unnatted(c, p) ==
  IF NatIndex[c] = 0 THEN p ELSE [p EXCEPT !.dst = LocalIp[c], !.dport = @ % 100]

Captured(filters, p, send) ==
  capture = "all" \/ \E f \in filters : Matches(f, p, send)
ClientFilters == AddClientFilters(config, Server, capture = "ipOnly")
ServerFilters == AddServerFilters(config, config.ServerIp, range, capture = "ipOnly")

Init ==
  /\ config \in Configs /\ range \in Ranges
  /\ capture \in {"full", "ipOnly", "all"}
  /\ conns = [c \in Client |-> <<>>]
  /\ runs = [c \in Client |-> 0]
  /\ asked = [c \in Client |-> {}]
  /\ got = [c \in Client |-> {}]
  /\ net = {}
  /\ Connections = <<>> /\ VirtualIps = {} /\ restarts = 0 /\ pending = {}

\* The bound of Workloads: requests for more flows, or more restarts of any
\* program, stay within one of them.
InBounds(flows, moreRequests, moreRestarts) ==
  LET requests == UNION {{c} \X asked[c] : c \in Client}
      allRestarts == restarts + FoldFunctionOnSet(LAMBDA m, n : m + n, 0, runs, Client)
  IN \E w \in Workloads :
       /\ Cardinality(requests) + moreRequests <= w.requests
       /\ allRestarts + moreRestarts <= w.restarts
       /\ flows \cup {request[2][1] : request \in requests} \subseteq w.flows

-----------------------------------------------------------------------------
(* The client *)

IsConfigForOutboundPacket(p) ==
  /\ p.dst = Server
  /\ IF config.Mode \in Redirect THEN p.dport = config.RealPort
     ELSE \E g \in GrabProtocols(config) :
            g.Protocol \in {"any", p.proto} /\ g.Port \in {0, p.dport}

IsConfigForInboundPacket(p) ==
  /\ p.src = Server
  /\ p.proto = GetTunnelProtocol(config.Mode)
  /\ IsPortInRange(config.TunnelPorts, p.sport)

\* CreateConnection.  Redirect and simple tunnel choose a tunnel port.
NewClientConnections(c, p) ==
  {[ClientPort |-> p.sport, TunnelPort |-> port, Session |-> <<c, runs[c]>>] :
     port \in IF config.Mode \in Redirect \cup {"UDP-Simple-Tunnel"}
              THEN AllPorts(config.TunnelPorts) ELSE {0}}

\* ProcessOutboundPacket of a connection: when it takes the packet ...
TakesOutbound(k, p) ==
  IF config.Mode \in Redirect THEN p.sport = k.ClientPort
  ELSE config.Mode = "UDP-Simple-Tunnel" => ~p.large
\* ... and the packets it may send for it, by the kind of connection.
RedirectSends(k, p) == {RecalculateChecksum(EncryptPacket(SetDesPort(p, k.TunnelPort)))}
SimpleSends(k, p) == {Wrap(p, <<>>, "UDP", p.src, Server, k.ClientPort, k.TunnelPort)}
\* The courier's SendUdpPacketToOutbound, with two random ports.
UdpSends(k, p) ==
  {Wrap(p, k.Session, "UDP", p.src, Server, clientPort, serverPort) :
     clientPort, serverPort \in AllPorts(config.TunnelPorts)}
\* A socket of the courier.
SocketSends(k, p) ==
  {Wrap(p, k.Session, "TCP", p.src, Server, 1, port) : port \in AllPorts(config.TunnelPorts)}

ClientSends(k, p) ==
  CASE config.Mode \in Redirect -> RedirectSends(k, p)
    [] config.Mode = "UDP-Simple-Tunnel" -> SimpleSends(k, p)
    [] config.Mode = "UDP-Tunnel" -> UdpSends(k, p)
    [] OTHER -> SocketSends(k, p)

Sends(c, p) == net' = net \cup {Natted(c, p)}

\* The first connection that takes the packet, 0 when none does.
OutboundIndex(c, p) == SelectInSeq(conns[c], LAMBDA k : TakesOutbound(k, p))

\* An application sends; the packet may be captured and processed.
AppSends(c, f) ==
  LET p == Request(c, f)
      mine == Captured(ClientFilters, p, TRUE) /\ IsConfigForOutboundPacket(p)
      i == OutboundIndex(c, p)
  IN /\ <<f, runs[c]>> \notin asked[c] /\ InBounds({f}, 1, 0)
     /\ asked' = [asked EXCEPT ![c] = @ \cup {<<f, runs[c]>>}]
     /\ \/ ~mine /\ Sends(c, p) /\ UNCHANGED conns
        \/ /\ mine /\ i # 0
           /\ \E q \in ClientSends(conns[c][i], p) : Sends(c, q)
           /\ UNCHANGED conns
        \/ /\ mine /\ i = 0
           /\ \E k \in NewClientConnections(c, p) :
                /\ conns' = [conns EXCEPT ![c] = Append(@, k)]
                /\ \/ TakesOutbound(k, p) /\ \E q \in ClientSends(k, p) : Sends(c, q)
                   \/ ~TakesOutbound(k, p) /\ Sends(c, p)
     /\ UNCHANGED <<fixed, runs, got, serverVars>>

\* The application takes what comes from where it sent to.
Answers(c, p, f) ==
  <<f, runs[c]>> \in asked[c] /\ p.proto = FlowData[f].proto
    /\ p.sport = FlowData[f].dport /\ p.dport = FlowData[f].sport
Delivers(c, p) ==
  got' = IF p.body.kind = "data" /\ \E f \in Flow : Answers(c, p, f)
         THEN [got EXCEPT ![c] = @ \cup {p}] ELSE got

\* ProcessInboundPacket of a connection: when it takes the packet ...
ClientTakes(k, p) ==
  LET mine == p.sport = k.TunnelPort /\ p.dport = k.ClientPort IN
  CASE config.Mode \in Redirect -> mine
    [] config.Mode = "UDP-Simple-Tunnel" -> mine /\ Carries(p) /\ IsValidChecksum(Carried(p))
    [] config.Mode = "UDP-Tunnel" -> Carries(p)
    [] OTHER -> FALSE
\* ... and what it hands to the system, at most one packet.
ClientHands(p) ==
  IF config.Mode \in Redirect
  THEN {RecalculateChecksum(SetSrcPort(DecryptPacket(p), config.RealPort))}
  ELSE {RecalculateChecksum(q) : q \in {q \in {Carried(p)} : IsValidChecksum(q)}}

\* A socket of the courier receives.
CourierTakes(c, p) ==
  /\ config.Mode \in Sockets /\ Carries(p) /\ IsValidChecksum(Carried(p))
  /\ \E i \in DOMAIN conns[c] : conns[c][i].Session = p.body.session

ClientReceives(c, p) ==
  LET q == Unnatted(c, p)
      mine == Captured(ClientFilters, q, FALSE) /\ IsConfigForInboundPacket(q)
      i == SelectInSeq(conns[c], LAMBDA k : ClientTakes(k, q))
  IN /\ p \in net /\ c \in Receivers(p)
     /\ net' = net \ {p}
     /\ \/ /\ mine /\ i # 0
           /\ \/ ClientHands(q) = {} /\ UNCHANGED got
              \/ \E r \in ClientHands(q) : Delivers(c, r)
        \/ ~(mine /\ i # 0) /\ ~CourierTakes(c, q) /\ Delivers(c, q)
        \/ CourierTakes(c, q) /\ Delivers(c, RecalculateChecksum(Carried(q)))
     /\ UNCHANGED <<fixed, conns, runs, asked, serverVars>>

\* The program of a client ends and starts, or its connections were idle and are
\* removed by the next AddConnection; its applications ask again.
ClientRestarts(c) ==
  /\ InBounds({}, 0, 1) /\ conns[c] # <<>>
  /\ conns' = [conns EXCEPT ![c] = <<>>]
  /\ runs' = [runs EXCEPT ![c] = @ + 1]
  /\ UNCHANGED <<fixed, asked, got, net, serverVars>>

-----------------------------------------------------------------------------
(* The server *)

IsServerConfigForInboundPacket(p) ==
  /\ config.ServerIp \in {0, p.dst}
  /\ p.proto = GetTunnelProtocol(config.Mode)
  /\ IsPortInRange(config.TunnelPorts, p.dport)

NewServerConnection(p) ==
  [ClientIp |-> p.src, VirtualIp |-> GetNewIp(VirtualIps, range, MaxVirtualIps),
   ClientPort |-> p.sport, TunnelPort |-> p.dport, LocalIp |-> p.dst, ClientLocalIp |-> 0,
   Session |-> <<>>, Ports |-> <<>>, NextPort |-> 0]

\* Mutant of AddPort: the ring never starts again.
AddPortGrowing(k, pair) == [k EXCEPT !.Ports = Append(@, pair)]

\* PortManager::AddPort
AddPort(k, pair) ==
  [k EXCEPT !.Ports = IF Len(@) < MaxPorts THEN Append(@, pair) ELSE [@ EXCEPT ![k.NextPort + 1] = pair],
            !.NextPort = (@ + 1) % MaxPorts]

\* ReceiveData: the client's own address is kept, and replaced.
Translate(k, p) == RecalculateChecksum(SetSrcIp(p, k.VirtualIp))
Learn(k, p) == [k EXCEPT !.ClientLocalIp = p.src]

\* ProcessInboundPacket of a connection: when it takes the packet, what becomes
\* of the connection, and what goes to the service.
TakesInbound(k, p) ==
  /\ k.ClientIp = p.src
  /\ CASE config.Mode \in Redirect -> p.sport = k.ClientPort
       [] config.Mode = "UDP-Simple-Tunnel" ->
            p.sport = k.ClientPort /\ Carries(p) /\ IsValidChecksum(Carried(p))
       [] OTHER -> Carries(p) /\ k.Session \in {<<>>, p.body.session}
AfterInbound(k, p) ==
  CASE config.Mode \in Redirect -> k
    [] config.Mode = "UDP-Simple-Tunnel" -> Learn(k, Carried(p))
    [] OTHER ->
         LET s == AddPort([k EXCEPT !.Session = p.body.session], <<p.dport, p.sport>>)
         IN IF IsValidChecksum(Carried(p)) THEN Learn(s, Carried(p)) ELSE s
\* Mutant of ToService: SendPacketToInbound does not compute checksums.
ToServiceStale(k, p) ==
  CASE config.Mode \in Redirect ->
         {SetDesPort(SetSrcIp(DecryptPacket(p), k.VirtualIp), config.RealPort)}
    [] OTHER -> IF IsValidChecksum(Carried(p)) THEN {SetSrcIp(Carried(p), k.VirtualIp)} ELSE {}
ToService(k, p) ==
  CASE config.Mode \in Redirect ->
         {RecalculateChecksum(SetDesPort(SetSrcIp(DecryptPacket(p), k.VirtualIp), config.RealPort))}
    [] OTHER -> IF IsValidChecksum(Carried(p)) THEN {Translate(k, Carried(p))} ELSE {}

\* The service is what applications send to; the rest is dropped.
Arrives(packets) ==
  pending' = pending \cup {[packet |-> q, kept |-> TRUE] :
                             q \in {q \in packets : q.body.kind = "data"}}

Use == VirtualIps' = VirtualIps \cup NewIndex(VirtualIps, range, MaxVirtualIps)

\* A captured packet: an existing connection, or a new one, which is removed
\* again when it does not take the packet.  The connections work on a copy, so
\* what none takes goes on as it came (ProcessCapturedPackets).
ServerProcesses(p) ==
  LET i == SelectInSeq(Connections, LAMBDA k : TakesInbound(k, p))
      new == NewServerConnection(p)
  IN IF i # 0
     THEN /\ Connections' = [Connections EXCEPT ![i] = AfterInbound(@, p)]
          /\ Arrives(ToService(Connections[i], p))
          /\ UNCHANGED VirtualIps
     ELSE IF TakesInbound(new, p)
     THEN /\ Connections' = Append(Connections, AfterInbound(new, p))
          /\ Arrives(ToService(new, p))
          /\ Use
     ELSE /\ VirtualIps' = ReleaseIp(VirtualIps \cup NewIndex(VirtualIps, range, MaxVirtualIps),
                                     new.VirtualIp, range)
          /\ Arrives({p})
          /\ UNCHANGED Connections

\* An answer thread of the host: the connection of the session, or a new one.
HostReceives(p) ==
  LET i == SelectInSeq(Connections, LAMBDA k : k.Session = p.body.session)
      new == [NewServerConnection(p) EXCEPT !.Session = p.body.session]
      k == IF i # 0 THEN Connections[i] ELSE new
      after == IF IsValidChecksum(Carried(p)) THEN Learn(k, Carried(p)) ELSE k
  IN /\ IF i # 0 THEN Connections' = [Connections EXCEPT ![i] = after] /\ UNCHANGED VirtualIps
        ELSE Connections' = Append(Connections, after) /\ Use
     /\ Arrives(ToService(k, p))

ServerReceives(p) ==
  /\ p \in net /\ p.dst = Server
  /\ net' = net \ {p}
  /\ \/ /\ Captured(ServerFilters, p, FALSE) /\ IsServerConfigForInboundPacket(p)
        /\ config.Mode \notin Sockets
        /\ ServerProcesses(p)
     \/ /\ config.Mode \in Sockets /\ Carries(p) /\ HostReceives(p)
     \/ /\ ~(Captured(ServerFilters, p, FALSE) /\ IsServerConfigForInboundPacket(p)
             /\ config.Mode \notin Sockets)
        /\ ~(config.Mode \in Sockets /\ Carries(p))
        /\ Arrives({p}) /\ UNCHANGED <<Connections, VirtualIps>>
  /\ UNCHANGED <<fixed, clientVars, restarts>>

\* "kept": the connection that gave the request its address is still listed.
Reply(r) ==
  LET p == r.packet IN
  [src |-> p.dst, dst |-> p.src, proto |-> p.proto, sport |-> p.dport, dport |-> p.sport,
   enc |-> p.enc, large |-> p.large, sums |-> AllSums,
   body |-> [kind |-> "data", from |-> p.body.from, flow |-> p.body.flow, run |-> p.body.run,
             reply |-> TRUE, kept |-> r.kept /\ p.src # 0]]

\* The packets a connection may send for an answer, by its kind.
RedirectAnswers(k, p) ==
  {RecalculateChecksum(EncryptPacket(SetDesIp(SetSrcPort(p, k.TunnelPort), k.ClientIp)))}
\* The client's own address is put back.
ForClient(k, p) == RecalculateChecksum(SetDesIp(p, k.ClientLocalIp))
SimpleAnswers(k, p) ==
  IF p.large THEN {}
  ELSE {Wrap(ForClient(k, p), <<>>, "UDP", p.src, k.ClientIp, k.TunnelPort, k.ClientPort)}
\* FindPort chooses one of the pairs the client has used.
UdpAnswers(k, p) ==
  {Wrap(ForClient(k, p), <<>>, "UDP", k.LocalIp, k.ClientIp, k.Ports[i][1], k.Ports[i][2]) :
     i \in DOMAIN k.Ports}
SocketAnswers(k, p) ==
  {Wrap(ForClient(k, p), k.Session, "TCP", k.LocalIp, k.ClientIp, k.TunnelPort, k.ClientPort)}

\* Mutant of ServerSends: the first port of the range instead of the one the
\* client used.
ServerSendsFirstPort(k, p) ==
  LET v == [k EXCEPT !.TunnelPort = config.TunnelPorts[1].StartPort] IN
  CASE config.Mode \in Redirect -> RedirectAnswers(v, p)
    [] config.Mode = "UDP-Simple-Tunnel" -> SimpleAnswers(v, p)
    [] config.Mode = "UDP-Tunnel" -> UdpAnswers(v, p)
    [] OTHER -> SocketAnswers(v, p)

\* ProcessOutboundPacket of a connection.
ServerSends(k, p) ==
  CASE config.Mode \in Redirect -> RedirectAnswers(k, p)
    [] config.Mode = "UDP-Simple-Tunnel" -> SimpleAnswers(k, p)
    [] config.Mode = "UDP-Tunnel" -> UdpAnswers(k, p)
    [] OTHER -> SocketAnswers(k, p)

\* FindByVirtualIp
FindByVirtualIp(ip) == SelectInSeq(Connections, LAMBDA k : k.VirtualIp = ip)

\* The service answers.
ServiceReplies(r) ==
  LET p == Reply(r)
      i == IF Captured(ServerFilters, p, TRUE) THEN FindByVirtualIp(p.dst) ELSE 0
  IN /\ r \in pending
     /\ pending' = pending \ {r}
     /\ \/ i = 0 /\ net' = net \cup {p}
        \/ i # 0 /\ \E q \in ServerSends(Connections[i], p) : net' = net \cup {q}
        \/ i # 0 /\ ServerSends(Connections[i], p) = {} /\ UNCHANGED net
     /\ UNCHANGED <<fixed, clientVars, Connections, VirtualIps, restarts>>

\* Requests of connections that are removed.  Nothing keeps the address of a
\* removed connection from another one before the answer comes.
Forget(ips) ==
  pending' = {[packet |-> r.packet, kept |-> r.kept /\ r.packet.src \notin ips] : r \in pending}

\* CleanTimeoutConnections removes a connection that was idle for long, whether
\* the service still owes it an answer or not.  It is part of AddConnection (see
\* BarbaServerApp); here it may happen before any other step, which allows more.
ServerTimeout(i) ==
  /\ i \in DOMAIN Connections
  /\ Connections' = RemoveAt(Connections, i)
  /\ VirtualIps' = ReleaseIp(VirtualIps, Connections[i].VirtualIp, range)
  /\ Forget({Connections[i].VirtualIp})
  /\ UNCHANGED <<fixed, clientVars, net, restarts>>

\* The program of the server ends and starts; the services stay.
ServerRestarts ==
  /\ InBounds({}, 0, 1) /\ Connections # <<>>
  /\ restarts' = restarts + 1
  /\ Connections' = <<>> /\ VirtualIps' = {}
  /\ Forget({Connections[i].VirtualIp : i \in DOMAIN Connections})
  /\ UNCHANGED <<fixed, clientVars, net>>

Next ==
  \/ \E c \in Client : ClientRestarts(c) \/ \E f \in Flow : AppSends(c, f)
  \/ \E p \in net : ServerReceives(p) \/ \E c \in Client : ClientReceives(c, p)
  \/ \E r \in pending : ServiceReplies(r)
  \/ \E i \in DOMAIN Connections : ServerTimeout(i)
  \/ ServerRestarts

Spec == Init /\ [][Next]_vars

-----------------------------------------------------------------------------
(* Properties *)

Body ==
  [kind : {"data"}, from : Client, flow : Flow, run : Nat, reply : BOOLEAN, kept : BOOLEAN]
DataPacket ==
  [src : Nat, dst : Nat, proto : Protocol, sport : Nat, dport : Nat, enc : -2 .. 2,
   large : BOOLEAN, sums : SUBSET AllSums, body : Body]
IsTunnelPacket(p) ==
  p.body.kind = "packet" /\ p.proto \in {"TCP", "UDP"} /\ p.body.packet \in DataPacket

\* Every packet is one the programs can send, and PortManager remembers at most
\* MaxPorts pairs of ports of a connection, whatever the client does.
TypeOK ==
  /\ config \in Configs /\ range \in Ranges
  /\ \A p \in net : p \in DataPacket \/ IsTunnelPacket(p)
  /\ \A r \in pending : r.packet \in DataPacket /\ r.kept \in BOOLEAN
  /\ \A c \in Client : got[c] \subseteq DataPacket /\ asked[c] \subseteq Flow \X (0 .. runs[c])
  /\ VirtualIps \subseteq 0 .. MaxVirtualIps - 1
  /\ \A i \in DOMAIN Connections :
       /\ Len(Connections[i].Ports) <= MaxPorts
       /\ Connections[i].NextPort \in 0 .. MaxPorts - 1

\* What the configuration grabs, and what it cannot carry for its size.
Grabs(f) ==
  \E g \in GrabProtocols(config) :
    /\ g.Protocol \in {"any", FlowData[f].proto}
    /\ g.Port \in {0, FlowData[f].dport}
TooLarge(f) == config.Mode = "UDP-Simple-Tunnel" /\ FlowData[f].large

\* No request the configuration grabs is on the network as the application
\* sent it: the filter AddClientFilters gives the driver, whatever the driver
\* makes of it, and the test IsConfigForOutboundPacket makes agree, and every
\* mode encrypts.  Only the simple tunnel lets a large packet through.
NothingInClear ==
  \A p \in net :
    p.body.kind = "data" /\ ~p.body.reply /\ p.enc = 0 =>
      ~Grabs(p.body.flow) \/ TooLarge(p.body.flow)

\* A request that was tunnelled reaches the service as it was sent, with valid
\* checksums: encryption, port and address translation of both sides undo each
\* other (ReceiveData, ProcessInboundPacket).
ArrivesIntact ==
  \A r \in pending :
    LET p == r.packet f == p.body.flow IN
    ~p.body.reply /\ Grabs(f) /\ ~TooLarge(f) =>
      /\ p.dst = Server /\ p.proto = FlowData[f].proto /\ p.dport = FlowData[f].dport
      /\ p.enc = 0 /\ p.sums = AllSums

\* A reply reaches the client that asked, as its application expects it, also
\* when clients share an address or have the same one behind a NAT, and when
\* its address was another connection's before, which timed out (GetNewIp,
\* FindByVirtualIp).  The program promises nothing of a reply whose connection
\* timed out or was lost with the server before the service answered: its
\* address may be another connection's by then.  Nor of one to the address 0 of
\* a server that ran out of addresses.
AnswersRightClient ==
  \A c \in Client : \A p \in got[c] :
    p.body.kept =>
      /\ p.body.from = c
      /\ Grabs(p.body.flow) /\ ~TooLarge(p.body.flow) =>
           /\ p.src = Server /\ p.dst = LocalIp[c]
           /\ p.enc = 0 /\ p.sums = AllSums

\* A reply to a connection the server still had finds one of the client that
\* takes it, with the ports and the session the server remembers, as long as the
\* client was not started again ("find existing connection who can process
\* packet").  The exceptions are those of AnswersRightClient.
RepliesAccepted ==
  \A p \in net : \A c \in Receivers(p) :
    LET q == Unnatted(c, p)
        inner == IF p.body.kind = "packet" THEN p.body.packet ELSE p
        f == inner.body.flow
    IN /\ inner.body.reply /\ inner.body.kept /\ runs[c] = 0
       /\ Grabs(f) /\ ~TooLarge(f)
       => \/ \E i \in DOMAIN conns[c] : ClientTakes(conns[c][i], q)
          \/ CourierTakes(c, q)

\* Every address a connection was given is one whose packets the driver
\* captures (BarbaFilterDriver: "filter outgoing virtual IP").
VirtualIpsFiltered ==
  \A i \in DOMAIN Connections :
    LET p == [Request(CHOOSE c \in Client : TRUE, CHOOSE f \in Flow : TRUE)
                EXCEPT !.dst = Connections[i].VirtualIp]
    IN p.dst # 0 => Captured(ServerFilters, p, TRUE)
=============================================================================
