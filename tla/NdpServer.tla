------------------------------ MODULE NdpServer ------------------------------
(***************************************************************************)
(* NDPd (ndp/server), for one IPv6 interface: a routed port or a VLAN with *)
(* its physical ports.  One goroutine (EventsListener) handles everything; *)
(* timers fire in goroutines of their own and put a PacketData on          *)
(* PktDataCh, so an expiry is handled later than it happens (ndpFired).    *)
(*                                                                         *)
(* The interface keeps its neighbours under the key mac_ip_intf, the       *)
(* server keeps NeighborInfo and neighborKey under the same key, and asicd *)
(* knows a neighbour by its address alone.                                 *)
(***************************************************************************)
EXTENDS Integers, Sequences, FiniteSets

CONSTANTS NdpKeys,        \* keys of neighbours: <<mac, ip, physical port>>
          NdpGlobal,      \* the addresses among them that are not link local
          NdpPorts,       \* physical ports of the VLAN
          MaxNdpEvents    \* bound on notifications, packets and actions

MAX_UNICAST_SOLICIT == 3
MAX_INITIAL_RTR_ADVERTISEMENTS == 3
NdpScopes == {"global", "link"}
Mac(k) == k[1]
Ip(k) == k[2]
Port(k) == k[3]

\* A key has three parts, its port is one of the VLAN's, and "none" stands for
\* no hardware address.
NdpConstants ==
  /\ \A k \in NdpKeys : /\ DOMAIN k = 1..3 /\ k = <<Mac(k), Ip(k), Port(k)>>
                        /\ Mac(k) # "none" /\ Port(k) \in NdpPorts
  /\ MaxNdpEvents \in Nat

VARIABLES ndpIf,      \* L3Port[ifIndex] with its PcapBase
          ndpNbr,     \* its Neighbor map: key -> NeighborInfo, or NoNbr
          ndpL2,      \* L2Port, and whether PhyPortToL3PortMap has the port
          ndpInfo,    \* the server's NeighborInfo
          ndpKey,     \* neighborKey: how often it lists a key
          ndpHw,      \* external: asicd's neighbour of an address
          ndpFired,   \* PktDataCh and the timer goroutines waiting for it
          ndpEvents   \* [left, past]
ndpVars == <<ndpIf, ndpNbr, ndpL2, ndpInfo, ndpKey, ndpHw, ndpFired, ndpEvents>>

NoNbr == [state |-> "none"]
NbrTimers == {"reachable", "delay", "retransmit"}
Neighbor == [state: {"INCOMPLETE", "REACHABLE", "DELAY", "PROBE"}, timers: SUBSET NbrTimers,
             probes: 0..MAX_UNICAST_SOLICIT + 1]
Uint8(n) == n % 256

NdpInit ==
  /\ ndpIf \in [type: {"port", "vlan"}, known: BOOLEAN, vlan: {TRUE}, addrs: SUBSET NdpScopes, users: {0},
                handle: {FALSE}, tx: {FALSE}, ra: {"off"}, sent: {0}]
  /\ ndpIf.known <=> ndpIf.addrs # {}
  /\ ndpNbr = [k \in NdpKeys |-> NoNbr]
  /\ ndpL2 = [q \in NdpPorts |-> [oper |-> TRUE, rx |-> FALSE, l3 |-> FALSE, mapped |-> FALSE]]
  /\ ndpInfo = {} /\ ndpKey = [k \in NdpKeys |-> 0]
  /\ ndpHw = [ip \in NdpGlobal |-> "none"]
  /\ ndpFired = {}
  /\ ndpEvents = [left |-> MaxNdpEvents, past |-> {}]

Spends(what) == ndpEvents.left > 0 /\ ndpEvents' = [left |-> ndpEvents.left - 1, past |-> ndpEvents.past \cup what]

-----------------------------------------------------------------------------
(* Timers of a neighbour *)

(* "reachable" stands for the reachable timer, for the fast probe timer    *)
(* (FastProbe), which RchTimer starts with it and which re-arms itself, and *)
(* for the daily ReComputeBaseReachableTimer, which re-arms the reachable   *)
(* timer: one of them can always fire again.  The invalidation timer of a   *)
(* router does nothing when it fires.                                       *)
UpdateProbe(n) == [n EXCEPT !.timers = @ \ {"delay", "retransmit"}, !.probes = 0]
RchTimer(n) == [n EXCEPT !.timers = (@ \ {"delay", "retransmit"}) \cup {"reachable"}]
DelayProbe(n) == [n EXCEPT !.timers = @ \cup {"delay"}]
RetransmitTimer(n) == [n EXCEPT !.timers = @ \cup {"retransmit"}]
InitCache == RchTimer([state |-> "INCOMPLETE", timers |-> {}, probes |-> 0])

(* The RA timer of the interface; f is the interface record. *)
StopRATimer(f) == [f EXCEPT !.ra = "off"]
RAResTransmitTimer(f) ==
  IF ~f.tx THEN StopRATimer(f)
  ELSE IF f.ra = "off" THEN [f EXCEPT !.ra = "armed", !.sent = 0]
  ELSE [f EXCEPT !.ra = "armed", !.sent = IF @ < MAX_INITIAL_RTR_ADVERTISEMENTS THEN @ + 1 ELSE @]
SendRA(f) == RAResTransmitTimer(f)

-----------------------------------------------------------------------------
(* asicd and the tables of the server *)

(* s = [info, key, hw]; asicd refuses the calls for which ok is FALSE. *)
Tables == [info |-> ndpInfo, key |-> ndpKey, hw |-> ndpHw]
SetTables(s) == ndpInfo' = s.info /\ ndpKey' = s.key /\ ndpHw' = s.hw
Program(s, ip, mac) == IF ip \in NdpGlobal THEN [s EXCEPT !.hw[ip] = mac] ELSE s

insertNeigborInfo(s, k) == [info |-> s.info \cup {k}, key |-> [s.key EXCEPT ![k] = @ + 1], hw |-> s.hw]
CreateNeighborInfo(s, k, ok) ==
  IF Ip(k) \in NdpGlobal /\ ~ok THEN s ELSE insertNeigborInfo(Program(s, Ip(k), Mac(k)), k)
deleteSvrStateNbrInfo(s, k) ==
  [info |-> s.info \ {k}, key |-> [s.key EXCEPT ![k] = IF @ > 0 THEN @ - 1 ELSE 0], hw |-> s.hw]
deleteNeighbor(s, k, ok) == deleteSvrStateNbrInfo(IF ok THEN Program(s, Ip(k), "none") ELSE s, k)
DeleteNeighborInfo(s, keys, ok) ==
  [info |-> s.info \ keys,
   key |-> [k \in NdpKeys |-> IF k \in keys /\ s.key[k] > 0 THEN s.key[k] - 1 ELSE s.key[k]],
   hw |-> [ip \in NdpGlobal |-> IF ok /\ \E k \in keys : Ip(k) = ip THEN "none" ELSE s.hw[ip]]]

(* The calls of one step to asicd all succeed, or one fault hits them. *)
Answers == IF ndpEvents.left > 0 THEN BOOLEAN ELSE {TRUE}
AsicdAnswers(ok) == IF ok THEN UNCHANGED ndpEvents
                    ELSE ndpEvents' = [left |-> ndpEvents.left - 1, past |-> ndpEvents.past \cup {"refused"}]

-----------------------------------------------------------------------------
(* Packets.  A key is valid when its address is not a multicast one, which *)
(* holds for every member of NdpKeys.                                      *)

processNS(k, sourceLinkLayer) ==
  LET n == IF ndpNbr[k] # NoNbr THEN ndpNbr[k] ELSE InitCache
  IN IF sourceLinkLayer THEN [n EXCEPT !.state = "REACHABLE"] ELSE n
processNA(k) ==
  [(IF ndpNbr[k] # NoNbr THEN RchTimer(UpdateProbe(ndpNbr[k])) ELSE InitCache) EXCEPT !.state = "REACHABLE"]
processRA(k) ==
  [RchTimer(IF ndpNbr[k] # NoNbr THEN ndpNbr[k] ELSE InitCache) EXCEPT !.state = "REACHABLE"]
ProcessND(k) == {processNS(k, TRUE), processNS(k, FALSE), processNA(k), processRA(k)}

(* The port a packet came in on leads to the interface: a routed port      *)
(* through its own pcap handle, a VLAN through the handle of the physical  *)
(* port and PhyPortToL3PortMap.                                            *)
Receives(k) == IF ndpIf.type = "port" THEN ndpIf.handle ELSE ndpL2[Port(k)].rx /\ ndpL2[Port(k)].oper
Reaches(k) == ndpIf.type = "port" \/ ndpL2[Port(k)].mapped

ProcessRxPkt(k) ==
  /\ Receives(k) /\ Reaches(k) /\ ndpKey[k] < 2
  /\ ndpEvents.left > 1
  /\ \E n \in ProcessND(k), ok \in BOOLEAN :
       /\ ndpNbr' = [ndpNbr EXCEPT ![k] = n]
       /\ LET s == IF ndpNbr[k] = NoNbr \/ k \notin ndpInfo THEN CreateNeighborInfo(Tables, k, ok)
                   ELSE Tables      \* the information is the same: nothing is updated
          IN SetTables(s)
       /\ Spends(IF ok THEN {} ELSE {"refused"})
  /\ UNCHANGED <<ndpIf, ndpL2, ndpFired>>

(* A router says it is no longer one.  The entry is to leave the           *)
(* interface's map too, but under the wrong key (its address).             *)
RouterLifetimeZero(k) ==
  /\ Receives(k) /\ Reaches(k) /\ ndpNbr[k] # NoNbr /\ Spends({})
  /\ SetTables(deleteNeighbor(Tables, k, TRUE))
  /\ UNCHANGED <<ndpIf, ndpNbr, ndpL2, ndpFired>>

-----------------------------------------------------------------------------
(* Timer expiries *)

(* The key that sendUnicastNS, DeleteNeighbor and FlushNeighborPerIp look   *)
(* up, ip_mac; the map is filled under mac_ip_intf.                         *)
UnicastKey(ip, mac) == <<ip, mac>>

sendUnicastNS(key, fast) ==
  IF key \notin NdpKeys \/ ndpNbr[key] = NoNbr THEN [op |-> "IGNORE", nbr |-> ndpNbr]
  ELSE LET n == ndpNbr[key]
       IN IF n.probes > MAX_UNICAST_SOLICIT THEN [op |-> "DELETE", nbr |-> [ndpNbr EXCEPT ![key] = NoNbr]]
          ELSE [op |-> "IGNORE",
                nbr |-> [ndpNbr EXCEPT ![key] =
                          IF ~ndpIf.tx \/ fast THEN n
                          ELSE IF n.state = "REACHABLE" THEN [DelayProbe(n) EXCEPT !.state = "DELAY", !.probes = 0]
                          ELSE IF n.state \in {"DELAY", "PROBE"} THEN [RetransmitTimer(n) EXCEPT !.state = "PROBE", !.probes = @ + 1]
                          ELSE n]]

NbrTimerExpires(k, t) ==
  /\ ndpNbr[k] # NoNbr /\ t \in ndpNbr[k].timers
  /\ ndpNbr' = [ndpNbr EXCEPT ![k].timers = IF t = "reachable" THEN @ ELSE @ \ {t}]
  /\ \E fast \in IF t = "reachable" THEN BOOLEAN ELSE {FALSE} :
       ndpFired' = ndpFired \cup {[key |-> k, fast |-> fast]}
  /\ UNCHANGED <<ndpIf, ndpL2, ndpInfo, ndpKey, ndpHw, ndpEvents>>

RATimerExpires ==
  /\ ndpIf.ra = "armed"
  /\ ndpIf' = [ndpIf EXCEPT !.ra = "fired"]
  /\ UNCHANGED <<ndpNbr, ndpL2, ndpInfo, ndpKey, ndpHw, ndpFired, ndpEvents>>

(* An expired timer of a neighbour is handled, an RA is sent. *)
ProcessTimerExpiry ==
  \/ \E m \in ndpFired :
       LET r == sendUnicastNS(UnicastKey(Ip(m.key), Mac(m.key)), m.fast)
       IN /\ ndpFired' = ndpFired \ {m}
          /\ IF ndpIf.known THEN ndpNbr' = r.nbr /\ SetTables(IF r.op = "DELETE" THEN deleteNeighbor(Tables, m.key, TRUE) ELSE Tables)
             ELSE UNCHANGED <<ndpNbr, ndpInfo, ndpKey, ndpHw>>
          /\ UNCHANGED <<ndpIf, ndpL2, ndpEvents>>
  \/ /\ ndpIf.ra = "fired"
     /\ ndpIf' = SendRA(ndpIf)
     /\ UNCHANGED <<ndpNbr, ndpL2, ndpInfo, ndpKey, ndpHw, ndpFired, ndpEvents>>

-----------------------------------------------------------------------------
(* Pcap handles.  Each address that comes up is a user of the handle. *)

addPcapUser(f) == [f EXCEPT !.users = Uint8(@ + 1)]
deletePcapUser(f) == [f EXCEPT !.users = Uint8(@ - 1)]
CreatePcapPort(f) == addPcapUser([f EXCEPT !.handle = TRUE])
DeletePcapPort(f) ==
  IF ~f.handle THEN f
  ELSE IF deletePcapUser(f).users = 0 THEN [f EXCEPT !.users = 0, !.handle = FALSE] ELSE deletePcapUser(f)

(* A VLAN listens on its physical ports. *)
CreatePcapVlan == [q \in NdpPorts |-> [ndpL2[q] EXCEPT !.rx = ndpL2[q].oper, !.l3 = TRUE, !.mapped = TRUE]]
DeletePcapVlan == [q \in NdpPorts |-> [ndpL2[q] EXCEPT !.rx = FALSE, !.l3 = FALSE, !.mapped = FALSE]]

Flushes(f) == ~f.handle /\ f.users = 0
deleteNbrList(f) == IF Flushes(f) THEN StopRATimer(f) ELSE f
DeleteIntf(f) == deleteNbrList(DeletePcapPort(f))
DeleteAll(f) == deleteNbrList(DeletePcapPort(DeletePcapPort(f)))
DeleteTXPcap(f) == IF Flushes(f) THEN [f EXCEPT !.tx = FALSE] ELSE f
(* Fault: a neighbour that was never heard from is not handed over. *)
FlushReachable == {k \in NdpKeys : ndpNbr[k].state = "REACHABLE"}
FlushNeighbors == {k \in NdpKeys : ndpNbr[k] # NoNbr}

Flushed(f, ok) ==
  IF Flushes(f)
  THEN ndpNbr' = [k \in NdpKeys |-> NoNbr] /\ SetTables(DeleteNeighborInfo(Tables, FlushNeighbors, ok))
  ELSE UNCHANGED <<ndpNbr, ndpInfo, ndpKey, ndpHw>>

-----------------------------------------------------------------------------
(* Notifications *)

(* An address is configured; the interface stays known for ever. *)
IPIntfCreate(a) ==
  /\ a \notin ndpIf.addrs /\ Spends({})
  /\ ndpIf' = IF ndpIf.known THEN [ndpIf EXCEPT !.addrs = @ \cup {a}]
              ELSE [ndpIf EXCEPT !.known = TRUE, !.addrs = {a}, !.users = 0, !.handle = FALSE, !.ra = "off", !.sent = 0]
  /\ UNCHANGED <<ndpNbr, ndpL2, ndpInfo, ndpKey, ndpHw, ndpFired>>

(* ... or deleted: whichever it is, the whole interface is taken down, the *)
(* handle of the transmitter is kept, and a VLAN's neighbours are only     *)
(* flushed when no address of it is up.                                    *)
IPIntfDelete(ok) ==
  LET f == DeleteAll(ndpIf)
  IN /\ ndpIf.known /\ ndpIf.addrs # {} /\ ndpEvents.left > 1
     /\ Spends((IF ok THEN {} ELSE {"refused"}) \cup (IF Flushes(f) THEN {} ELSE {"deletedUp"}))
     /\ IF Flushes(f) THEN SetTables(DeleteNeighborInfo(Tables, FlushNeighbors, ok)) ELSE UNCHANGED <<ndpInfo, ndpKey, ndpHw>>
     /\ ndpNbr' = [k \in NdpKeys |-> NoNbr]
     /\ ndpIf' = [f EXCEPT !.handle = FALSE, !.users = 0, !.addrs = {}, !.ra = "off"]
     /\ UNCHANGED <<ndpL2, ndpFired>>

StartRxTx ==
  LET f == IF ndpIf.type = "port" THEN CreatePcapPort(ndpIf) ELSE addPcapUser(ndpIf)
      g == IF f.users = 1 THEN [f EXCEPT !.tx = TRUE] ELSE f
  IN /\ ndpIf.known /\ ndpIf.addrs # {} /\ ndpIf.users < 2 /\ Spends({})
     /\ ndpIf.type = "vlan" => ndpIf.vlan
     /\ ndpIf' = SendRA(g)
     /\ ndpL2' = IF ndpIf.type = "vlan" /\ ndpIf.users = 0 THEN CreatePcapVlan ELSE ndpL2
     /\ UNCHANGED <<ndpNbr, ndpInfo, ndpKey, ndpHw, ndpFired>>

StopRxTx(ok) ==
  LET down == CASE ndpIf.type = "port" -> DeleteIntf(ndpIf)
                [] ndpIf.type = "vlan" /\ ndpIf.tx -> DeleteIntf(deletePcapUser(ndpIf))
                [] OTHER -> ndpIf
      f == DeleteTXPcap(down)
      flush == ndpIf.type = "port" \/ ndpIf.tx
  IN /\ ndpIf.known /\ ndpEvents.left > 1 /\ Spends(IF ok THEN {} ELSE {"refused"})
     /\ IF flush THEN Flushed(down, ok) ELSE UNCHANGED <<ndpNbr, ndpInfo, ndpKey, ndpHw>>
     /\ ndpIf' = f
     /\ ndpL2' = IF ndpIf.type = "vlan" /\ ndpIf.vlan /\ ~f.tx /\ ~f.handle THEN DeletePcapVlan ELSE ndpL2
     /\ UNCHANGED ndpFired

updateL2Operstate(q, up) ==
  /\ Spends({})
  /\ ndpL2' = [ndpL2 EXCEPT ![q] = IF ~up THEN [@ EXCEPT !.oper = FALSE, !.rx = FALSE, !.mapped = FALSE]
                                   ELSE IF ~@.rx /\ @.l3 THEN [@ EXCEPT !.oper = TRUE, !.rx = TRUE, !.mapped = TRUE]
                                   ELSE [@ EXCEPT !.oper = TRUE]]
  /\ UNCHANGED <<ndpIf, ndpNbr, ndpInfo, ndpKey, ndpHw, ndpFired>>

HandleVlanNotification ==
  /\ ndpIf.type = "vlan" /\ Spends({})
  /\ ndpIf' = [ndpIf EXCEPT !.vlan = ~@]       \* VlanInfo is created or deleted
  /\ UNCHANGED <<ndpNbr, ndpL2, ndpInfo, ndpKey, ndpHw, ndpFired>>

-----------------------------------------------------------------------------
(* Actions of the user *)

ActionDeleteByIntf(ok) ==
  /\ ndpIf.known /\ ndpIf.addrs # {} /\ ndpEvents.left > 1 /\ Spends(IF ok THEN {} ELSE {"refused"})
  /\ ndpNbr' = [k \in NdpKeys |-> NoNbr]
  /\ SetTables(DeleteNeighborInfo(Tables, FlushNeighbors, ok))
  /\ UNCHANGED <<ndpIf, ndpL2, ndpFired>>

(* One neighbour: the key is looked up as ip_mac and is never found. *)
FlushNeighborPerIp(key) == IF key \in NdpKeys THEN [ndpNbr EXCEPT ![key] = NoNbr] ELSE ndpNbr
DeleteNeighbor(k) == FlushNeighborPerIp(UnicastKey(Ip(k), Mac(k)))
ActionDeleteByNbrIp(k) ==
  /\ k \in ndpInfo /\ Spends({}) /\ ndpNbr' = DeleteNeighbor(k)
  /\ UNCHANGED <<ndpIf, ndpL2, ndpInfo, ndpKey, ndpHw, ndpFired>>
ActionRefreshByNbrIp(k) ==
  /\ k \in ndpInfo /\ Spends({}) /\ ndpNbr' = sendUnicastNS(UnicastKey(Ip(k), Mac(k)), FALSE).nbr
  /\ UNCHANGED <<ndpIf, ndpL2, ndpInfo, ndpKey, ndpHw, ndpFired>>
(* All neighbours of the interface are solicited, each under the same key;  *)
(* the answers are ignored, so one that has used up its probes leaves the   *)
(* map only.                                                                *)
RefreshAllNeighbors ==
  [k \in NdpKeys |-> LET key == UnicastKey(Ip(k), Mac(k))
                     IN IF key \in NdpKeys THEN sendUnicastNS(key, FALSE).nbr[k] ELSE ndpNbr[k]]
ActionRefreshByIntf ==
  /\ ndpIf.known /\ ndpIf.addrs # {} /\ Spends({}) /\ ndpNbr' = RefreshAllNeighbors
  /\ UNCHANGED <<ndpIf, ndpL2, ndpInfo, ndpKey, ndpHw, ndpFired>>

NdpNext ==
  \/ \E k \in NdpKeys : \/ ProcessRxPkt(k) \/ RouterLifetimeZero(k)
                        \/ ActionDeleteByNbrIp(k) \/ ActionRefreshByNbrIp(k)
                        \/ \E t \in NbrTimers : NbrTimerExpires(k, t)
  \/ RATimerExpires \/ ProcessTimerExpiry \/ StartRxTx \/ HandleVlanNotification \/ ActionRefreshByIntf
  \/ \E ok \in BOOLEAN : IPIntfDelete(ok) \/ StopRxTx(ok) \/ ActionDeleteByIntf(ok)
  \/ \E a \in NdpScopes : IPIntfCreate(a)
  \/ \E q \in NdpPorts, up \in BOOLEAN : updateL2Operstate(q, up)

NdpFairness == /\ WF_ndpVars(RATimerExpires) /\ WF_ndpVars(ProcessTimerExpiry)
               /\ \A k \in NdpKeys, t \in NbrTimers : WF_ndpVars(NbrTimerExpires(k, t))
NdpSpec == NdpInit /\ [][NdpNext]_ndpVars /\ NdpFairness

-----------------------------------------------------------------------------
(* Properties *)

NdpTypeOK ==
  /\ ndpIf \in [type: {"port", "vlan"}, known: BOOLEAN, vlan: BOOLEAN, addrs: SUBSET NdpScopes, users: 0..255,
                handle: BOOLEAN, tx: BOOLEAN, ra: {"off", "armed", "fired"}, sent: 0..MAX_INITIAL_RTR_ADVERTISEMENTS]
  /\ ndpNbr \in [NdpKeys -> Neighbor \cup {NoNbr}]
  /\ ndpL2 \in [NdpPorts -> [oper: BOOLEAN, rx: BOOLEAN, l3: BOOLEAN, mapped: BOOLEAN]]
  /\ ndpInfo \subseteq NdpKeys /\ ndpKey \in [NdpKeys -> 0..2]
  /\ ndpHw \in [NdpGlobal -> {Mac(k) : k \in NdpKeys} \cup {"none"}]

(* What asicd forwards to belongs to a neighbour the server still knows:   *)
(* however an entry goes (flush, router lifetime, user action), asicd is   *)
(* told (pktHandler.go, DeleteNeighborInfo and deleteNeighbor).            *)
HardwareHasOwner ==
  "refused" \notin ndpEvents.past =>
    \A ip \in NdpGlobal : ndpHw[ip] # "none" => \E k \in ndpInfo : Ip(k) = ip /\ Mac(k) = ndpHw[ip]

(* Every neighbour of the server can still be flushed with its interface,  *)
(* unless the address of a VLAN was deleted while it was up.               *)
NeighborsAreFlushable ==
  "deletedUp" \notin ndpEvents.past => \A k \in ndpInfo : ndpNbr[k] # NoNbr

(* neighborKey, the list behind every GET and every action, holds each     *)
(* neighbour once, under the same condition.                               *)
KeysListedOnce ==
  "deletedUp" \notin ndpEvents.past => \A k \in NdpKeys : ndpKey[k] = (IF k \in ndpInfo THEN 1 ELSE 0)

(* A physical port that receives for a VLAN leads to it, over every order  *)
(* of port flaps, address changes and VLAN deletes: a packet of an         *)
(* unmapped port is dropped by ProcessRxPkt.                               *)
ReceiverIsMapped == \A q \in NdpPorts : ndpL2[q].rx => ndpL2[q].mapped

(* An interface that is up keeps sending router advertisements: its timer  *)
(* is armed or its expiry is waiting to be handled.                        *)
AdvertisesWhileUp == (ndpIf.tx /\ ndpIf.users > 0 /\ "deletedUp" \notin ndpEvents.past) => ndpIf.ra # "off"

(* What asicd has belongs to a neighbour, every neighbour can be flushed   *)
(* and is listed once, a receiver leads to its interface, and an interface *)
(* that is up advertises (interface.go, pktHandler.go, timers.go), with    *)
(* the exceptions each part names.                                         *)
NdpSafe == /\ NdpTypeOK /\ HardwareHasOwner /\ NeighborsAreFlushable
           /\ KeysListedOnce /\ ReceiverIsMapped /\ AdvertisesWhileUp

=============================================================================
