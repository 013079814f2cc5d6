------------------------------ MODULE DhcpRelay ------------------------------
(***************************************************************************)
(* The DHCP relay agent (dhcp_relay/server): one goroutine reads packets   *)
(* into a buffer and announces each on pktChannel (capacity 1), another    *)
(* takes the announcements and relays what it finds in the buffer, which   *)
(* is always the same one.  RPC calls and asicd notifications change the   *)
(* global tables from goroutines of their own, without a lock.             *)
(***************************************************************************)
EXTENDS Integers, Sequences, FiniteSets

CONSTANTS RelayIntfs,      \* L3 interfaces of clients
          RelayHosts,      \* clients
          RelayServers,
          RelayHome,       \* external: the interface a client is attached to
          MaxRelayEvents   \* bound on packets, RPCs, notifications and restarts

VARIABLES relayGbl,    \* dhcprelayGblInfo
          relayLinux,  \* the interfaces that the two index maps lead to
          relayOn,     \* dhcprelayEnable
          relayConn,   \* the socket is open and both goroutines run
          relayRef,    \* dhcprelayEnabledIntfRefCount; NoMutex: not allocated
          relayBuf,    \* the one receive buffer
          relayRead,   \* packet read and not yet announced: where it came in
          relayCh,     \* pktChannel
          relayProc,   \* announcement that is being relayed
          relayRev,    \* dhcprelayReverseMap
          relayDb,     \* the configuration kept in the database
          relaySent,   \* last packet sent: to a server or to a client
          relayEvents  \* [left, past]
relayVars == <<relayGbl, relayLinux, relayOn, relayConn, relayRef, relayBuf, relayRead, relayCh, relayProc, relayRev,
               relayDb, relaySent, relayEvents>>
relayTables == <<relayGbl, relayLinux, relayOn, relayConn, relayRef, relayDb>>

(* What is taken for granted of the constants. *)
RelayConstants ==
  IsFiniteSet(RelayIntfs) /\ RelayHome \in [RelayHosts -> RelayIntfs] /\ MaxRelayEvents \in Nat

NoGbl == [state |-> "absent"]
NoMutex == -1000
Nowhere == "nowhere"
Gbl == [state: {"present"}, enable: BOOLEAN, servers: SUBSET RelayServers, ip: BOOLEAN, handle: {"nil", "open"}]
FromClient == {"DISCOVER", "REQUEST", "RELEASE"}    \* DECLINE and INFORM are relayed as RELEASE is
FromServer == {"OFFER", "ACK"}                      \* NAK is relayed as ACK is
RelayPkt == [type: FromClient \cup FromServer, host: RelayHosts, server: RelayServers \cup {"none"}]
NoPkt == [type |-> "none"]
NothingSent == [to |-> "none"]

(* Entries of the global table *)
InitGblHandling(e, enable) ==
  IF e = NoGbl THEN [state |-> "present", enable |-> enable, servers |-> {}, ip |-> FALSE, handle |-> "nil"]
  ELSE [e EXCEPT !.enable = enable, !.ip = FALSE]

RelayInit ==
  /\ relayGbl = [i \in RelayIntfs |-> NoGbl]
  /\ relayLinux = {}
  /\ relayOn = FALSE /\ relayConn = FALSE /\ relayRef = NoMutex
  /\ relayBuf = NoPkt /\ relayRead = <<>> /\ relayCh = <<>> /\ relayProc = <<>>
  /\ relayRev = [h \in RelayHosts |-> Nowhere]
  /\ relayDb = [global |-> FALSE, intf |-> [i \in RelayIntfs |-> NoGbl]]
  /\ relaySent = NothingSent
  /\ relayEvents = [left |-> MaxRelayEvents, past |-> {}]

Occurs(what) == relayEvents.left > 0 /\ relayEvents' = [left |-> relayEvents.left - 1, past |-> relayEvents.past \cup what]

-----------------------------------------------------------------------------
(* Receiving *)

(* The reader waits while the relay is off or no interface is enabled. *)
Reads == relayConn /\ relayOn /\ relayRef # NoMutex /\ relayRef # 0

(* A packet of a client, in on its interface, or of a server.  What was in *)
(* the buffer and is not yet relayed is lost.                              *)
DhcpRelayAgentReceiveDhcpPkt(pkt) ==
  /\ Reads /\ relayRead = <<>>
  /\ pkt.type \in FromServer => pkt.server # "none"
  /\ Occurs(IF relayCh = <<>> /\ relayProc = <<>> THEN {} ELSE {"overrun"})
  /\ relayBuf' = pkt
  /\ relayRead' = <<IF pkt.type \in FromClient THEN RelayHome[pkt.host] ELSE "uplink">>
  /\ UNCHANGED <<relayTables, relayCh, relayProc, relayRev, relaySent>>
(* It is announced when pktChannel has room. *)
Announce ==
  /\ relayRead # <<>> /\ relayCh = <<>>
  /\ relayCh' = relayRead /\ relayRead' = <<>>
  /\ UNCHANGED <<relayTables, relayBuf, relayProc, relayRev, relaySent, relayEvents>>

-----------------------------------------------------------------------------
(* Relaying *)

Mapped(i) == i \in relayLinux
Relays(i) == Mapped(i) /\ relayGbl[i] # NoGbl /\ relayGbl[i].enable

(* To every server of the interface; its address is the gateway address.    *)
SendDiscoverPacket(i, pkt) == [to |-> "servers", servers |-> relayGbl[i].servers, gw |-> i, host |-> pkt.host]
(* To the server the client names; without one it is dropped. *)
SendClientOptPacket(i, pkt) ==
  IF pkt.server = "none" THEN relaySent ELSE [to |-> "servers", servers |-> {pkt.server}, gw |-> i, host |-> pkt.host]
SendPacketToDhcpServer(i, pkt) ==
  IF pkt.type = "DISCOVER" THEN SendDiscoverPacket(i, pkt) ELSE SendClientOptPacket(i, pkt)
(* Fault: answers leave on the first interface there is. *)
ReplyOnFirst(i, pkt) == [to |-> "client", gw |-> CHOOSE j \in relayLinux : TRUE, host |-> pkt.host]
(* To the client, on the interface its last packet came in on. *)
SendPacketToDhcpClient(i, pkt) == [to |-> "client", gw |-> i, host |-> pkt.host]

Learn(cm, pkt) ==
  IF pkt.type \in FromClient THEN [relayRev EXCEPT ![pkt.host] = cm] ELSE relayRev

(* The packet in the buffer now is relayed with the control message of the  *)
(* one announced.                                                           *)
DhcpRelayAgentSendPacket(cm, pkt) ==
  \/ /\ pkt.type \in FromClient /\ cm \in RelayIntfs /\ Relays(cm)
     /\ relayRev' = Learn(cm, pkt)
     /\ relaySent' = SendPacketToDhcpServer(cm, pkt)
     /\ UNCHANGED relayGbl
  \/ /\ pkt.type \in FromServer /\ relayRev[pkt.host] # Nowhere /\ Relays(relayRev[pkt.host])
     /\ relaySent' = SendPacketToDhcpClient(relayRev[pkt.host], pkt)
     /\ relayGbl' = [relayGbl EXCEPT ![relayRev[pkt.host]].handle = "open"]
     /\ relayRev' = Learn(cm, pkt)
  \/ /\ IF pkt.type \in FromClient THEN cm \notin RelayIntfs \/ ~Relays(cm)
        ELSE relayRev[pkt.host] = Nowhere \/ ~Relays(relayRev[pkt.host])
     /\ UNCHANGED <<relayRev, relaySent, relayGbl>>      \* TotalDrops++

(* An announcement is taken, and relayed from the buffer. *)
DhcpRelayProcessReceivedBuf ==
  /\ relayCh # <<>> /\ relayProc = <<>>
  /\ relayProc' = relayCh /\ relayCh' = <<>>
  /\ UNCHANGED <<relayTables, relayBuf, relayRead, relayRev, relaySent, relayEvents>>
RelayFromBuffer ==
  /\ relayProc # <<>>
  /\ DhcpRelayAgentSendPacket(relayProc[1], relayBuf)
  /\ relayProc' = <<>>
  /\ relayBuf' = IF relayRead = <<>> /\ relayCh = <<>> THEN NoPkt ELSE relayBuf   \* not looked at again
  /\ UNCHANGED <<relayLinux, relayOn, relayConn, relayRef, relayDb, relayRead, relayCh, relayEvents>>

-----------------------------------------------------------------------------
(* Configuration *)

rest == <<relayBuf, relayRead, relayCh, relayProc, relayRev, relaySent>>

(* CreateDhcpRelayGlobal; UpdateDhcpRelayGlobal only sets the flag. *)
DhcpRelayGlobalInit(enable) ==
  /\ Occurs({})
  /\ relayOn' = enable
  /\ IF enable THEN /\ relayRef' = IF relayRef = NoMutex THEN 0 ELSE relayRef
                    /\ relayConn' = TRUE
     ELSE UNCHANGED <<relayRef, relayConn>>
  /\ relayDb' = [relayDb EXCEPT !.global = enable]
  /\ UNCHANGED <<relayGbl, relayLinux, rest>>
UpdateDhcpRelayGlobal(enable) ==
  /\ relayConn /\ relayOn # enable /\ Occurs({})
  /\ relayOn' = enable /\ relayDb' = [relayDb EXCEPT !.global = enable]
  /\ UNCHANGED <<relayGbl, relayLinux, relayConn, relayRef, rest>>

CountEnabled(enable) == (IF relayRef = NoMutex THEN 0 ELSE relayRef) + (IF enable THEN 1 ELSE 0)
CreateDhcpRelayIntf(i, enable, S) ==
  /\ relayGbl[i] # NoGbl /\ relayDb.intf[i] = NoGbl /\ Occurs({})
  /\ relayGbl' = [relayGbl EXCEPT ![i].enable = enable, ![i].servers = @ \cup S]
  /\ relayRef' = CountEnabled(enable)
  /\ relayDb' = [relayDb EXCEPT !.intf[i] = [relayGbl[i] EXCEPT !.enable = enable, !.servers = S, !.handle = "nil", !.ip = FALSE]]
  /\ UNCHANGED <<relayLinux, relayOn, relayConn, rest>>
(* The reference count does not follow the flag. *)
UpdateDhcpRelayIntf(i, enable, S) ==
  /\ relayGbl[i] # NoGbl /\ relayDb.intf[i] # NoGbl
  /\ Occurs(IF enable # relayGbl[i].enable THEN {"switched"} ELSE {})
  /\ relayGbl' = [relayGbl EXCEPT ![i].enable = enable, ![i].servers = S]
  /\ relayDb' = [relayDb EXCEPT !.intf[i].enable = enable, !.intf[i].servers = S]
  /\ UNCHANGED <<relayLinux, relayOn, relayConn, relayRef, rest>>
DeleteDhcpRelayIntf(i) ==
  /\ relayGbl[i] # NoGbl /\ relayDb.intf[i] # NoGbl /\ relayRef # NoMutex
  /\ Occurs(IF relayGbl[i].enable THEN {} ELSE {"switched"})
  /\ relayGbl' = [relayGbl EXCEPT ![i].enable = FALSE, ![i].handle = "nil"]
  /\ relayRef' = relayRef - 1
  /\ relayDb' = [relayDb EXCEPT !.intf[i] = NoGbl]
  /\ UNCHANGED <<relayLinux, relayOn, relayConn, rest>>

(* asicd: an address appears, which disables the relay on its interface, or *)
(* goes.                                                                    *)
DhcpRelayAgentUpdateIntfPortMap(i, create) ==
  /\ IF create THEN ~(relayGbl[i] # NoGbl /\ relayGbl[i].ip) ELSE relayGbl[i] # NoGbl
  /\ Occurs(IF relayGbl[i] # NoGbl /\ relayGbl[i].enable THEN {"switched"} ELSE {})
  /\ relayGbl' = [relayGbl EXCEPT ![i] = IF create THEN [InitGblHandling(@, FALSE) EXCEPT !.ip = TRUE] ELSE NoGbl]
  /\ relayLinux' = IF create THEN relayLinux \cup {i} ELSE relayLinux
  /\ UNCHANGED <<relayOn, relayConn, relayRef, relayDb, rest>>

(* StartServer: what the database holds is read, and then the relay is      *)
(* switched off; the reference count starts again at zero.                  *)
RestartRelay ==
  /\ relayConn /\ Occurs({"restart"})
  /\ relayGbl' = relayDb.intf
  /\ relayLinux' = {i \in RelayIntfs : relayDb.intf[i] # NoGbl}
  /\ relayOn' = FALSE
  /\ relayConn' = relayDb.global
  /\ relayRef' = IF relayDb.global THEN 0 ELSE NoMutex
  /\ relayBuf' = NoPkt /\ relayRead' = <<>> /\ relayCh' = <<>> /\ relayProc' = <<>>
  /\ relayRev' = [h \in RelayHosts |-> Nowhere]
  /\ UNCHANGED <<relayDb, relaySent>>

RelayNext ==
  \/ \E pkt \in RelayPkt : DhcpRelayAgentReceiveDhcpPkt(pkt)
  \/ Announce \/ DhcpRelayProcessReceivedBuf \/ RelayFromBuffer \/ RestartRelay
  \/ \E enable \in BOOLEAN : DhcpRelayGlobalInit(enable) \/ UpdateDhcpRelayGlobal(enable)
  \/ \E i \in RelayIntfs :
       \/ DeleteDhcpRelayIntf(i)
       \/ \E b \in BOOLEAN : DhcpRelayAgentUpdateIntfPortMap(i, b)
       \/ \E b \in BOOLEAN, S \in {{}, RelayServers} : CreateDhcpRelayIntf(i, b, S) \/ UpdateDhcpRelayIntf(i, b, S)

RelaySpec == RelayInit /\ [][RelayNext]_relayVars

-----------------------------------------------------------------------------
(* Properties *)

RelayTypeOK ==
  /\ relayGbl \in [RelayIntfs -> Gbl \cup {NoGbl}] /\ relayLinux \subseteq RelayIntfs
  /\ relayOn \in BOOLEAN /\ relayConn \in BOOLEAN
  /\ relayRef = NoMutex \/ relayRef \in -MaxRelayEvents..MaxRelayEvents
  /\ relayBuf \in RelayPkt \cup {NoPkt} /\ Len(relayCh) <= 1
  /\ relayRev \in [RelayHosts -> RelayIntfs \cup {Nowhere}]

(* A client's traffic carries the gateway address of its own interface and *)
(* its answers leave on that interface, as long as no packet is read while *)
(* another is still being relayed out of the same buffer                   *)
(* (dhcprelaydProtocol.go:759).                                            *)
RelaysForTheRightInterface ==
  "overrun" \notin relayEvents.past =>
    /\ relaySent # NothingSent => relaySent.gw = RelayHome[relaySent.host]
    /\ \A h \in RelayHosts : relayRev[h] \in {Nowhere, RelayHome[h]}

(* The reference count that lets the reader run is the number of enabled   *)
(* interfaces, until one is switched by an update, deleted while disabled  *)
(* or restored from the database.                                          *)
CountsEnabledInterfaces ==
  relayEvents.past \cap {"switched", "restart"} = {} /\ relayRef # NoMutex =>
    relayRef = Cardinality({i \in RelayIntfs : relayGbl[i] # NoGbl /\ relayGbl[i].enable})

(* The parts together: the relay sends a reply out of the interface the    *)
(* request came in by, and its reference count is the number of enabled    *)
(* interfaces (dhcprelaydProtocol.go, dhcprelaydServer.go).                *)
RelaySafe == RelayTypeOK /\ RelaysForTheRightInterface /\ CountsEnabledInterfaces

=============================================================================
