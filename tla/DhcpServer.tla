----------------------------- MODULE DhcpServer -----------------------------
(***************************************************************************)
(* DHCPd (dhcp/server), for one L3 interface (a VLAN and its untagged      *)
(* ports; a routed port is a VLAN of one port) and the address pool        *)
(* configured on it.  The main goroutine takes configuration and asicd     *)
(* notifications; every received packet is handled in a goroutine of its   *)
(* own; offers and acknowledgements start further goroutines that arm the  *)
(* stale and lease timers.  None of them takes a lock.                     *)
(*                                                                         *)
(* dhcpHeld is the clients' view: who was acknowledged which address and   *)
(* may still use it.                                                       *)
(***************************************************************************)
EXTENDS Integers, FiniteSets

CONSTANTS DhcpMacs,        \* clients
          DhcpIps,         \* lowerIPBound..higherIPBound
          DhcpXids,        \* transaction identifiers
          DhcpPorts,
          MaxDhcpEvents,   \* bound on packets, notifications and configurations
          MaxDhcpTimers    \* bound on time.AfterFunc calls

VARIABLES dhcpL3,      \* l3IntfPropMap: does the interface exist, is DHCP configured on it
          dhcpMembers, \* vlanPropertyMap: its untagged ports
          dhcpPort,    \* portPropertyMap, and how many processRxPkts run on the port
          dhcpConf,    \* DhcpGlobalConf.Enable and DhcpIntfConfMap's entry without its pools
          dhcpPool,    \* usedIpPool
          dhcpMacIp,   \* usedIpToMac
          dhcpTimer,   \* timers ever made
          dhcpTodo,    \* goroutines under way
          dhcpMain,    \* "idle", or what the main goroutine still has to do
          dhcpHeld,    \* address a client may use
          dhcpEvents   \* [left, past, crash]
dhcpVars == <<dhcpL3, dhcpMembers, dhcpPort, dhcpConf, dhcpPool, dhcpMacIp, dhcpTimer,
              dhcpTodo, dhcpMain, dhcpHeld, dhcpEvents>>
dhcpInfraVars == <<dhcpL3, dhcpMembers, dhcpPort, dhcpConf, dhcpMain>>

None == 0
Unused == [state |-> "absent"]
OfferedData == [state: {"new", "OFFERED"}, mac: DhcpMacs \cup {"nobody"}, xid: DhcpXids \cup {0},
                stale: 0..MaxDhcpTimers, refresh: 0..MaxDhcpTimers]
ZeroEntry == [state |-> "new", mac |-> "nobody", xid |-> 0, stale |-> None, refresh |-> None]
Ent(ip) == IF dhcpPool[ip] = Unused THEN ZeroEntry ELSE dhcpPool[ip]
NoTimer == [kind |-> "none"]

(* 0 stands for no address and for no timer. *)
DhcpConstants == None \notin DhcpIps /\ MaxDhcpEvents \in Nat /\ MaxDhcpTimers \in Nat

DhcpInit ==
  /\ dhcpL3 \in [exists: BOOLEAN, configured: {FALSE}]
  /\ dhcpMembers = DhcpPorts
  /\ dhcpPort = [q \in DhcpPorts |-> [l3 |-> dhcpL3.exists, rx |-> 0, hdl |-> FALSE]]
  /\ dhcpConf = [global |-> FALSE, enable |-> FALSE, msg |-> FALSE]
  /\ dhcpPool = [ip \in DhcpIps |-> Unused]
  /\ dhcpMacIp = [m \in DhcpMacs |-> None]
  /\ dhcpTimer = [t \in 1..MaxDhcpTimers |-> NoTimer]
  /\ dhcpTodo = {} /\ dhcpMain = "idle"
  /\ dhcpHeld = [m \in DhcpMacs |-> None]
  /\ dhcpEvents = [left |-> MaxDhcpEvents, past |-> {}, crash |-> FALSE]

Runs == ~dhcpEvents.crash
Happens(what) ==
  /\ Runs /\ dhcpEvents.left > 0
  /\ dhcpEvents' = [dhcpEvents EXCEPT !.left = @ - 1, !.past = @ \cup what]
(* Handled while no other handler or goroutine is under way? *)
Alone == IF dhcpTodo = {} THEN {} ELSE {"overlap"}
(* A run-time panic in any goroutine ends the daemon. *)
Panic == dhcpEvents' = [dhcpEvents EXCEPT !.crash = TRUE, !.left = 0]

-----------------------------------------------------------------------------
(* Timers *)

Armed(t) == dhcpTimer[t] # NoTimer /\ dhcpTimer[t].armed
Fresh(T, kind, ip, mac) ==   \* the timers T with one more, and its number
  LET t == CHOOSE i \in 1..MaxDhcpTimers : T[i] = NoTimer
  IN [timers |-> [T EXCEPT ![t] = [kind |-> kind, ip |-> ip, mac |-> mac, armed |-> TRUE, current |-> TRUE]], t |-> t]
CanArm == \E i \in 1..MaxDhcpTimers : dhcpTimer[i] = NoTimer
StopTimer(T, t) == IF t = None THEN T ELSE [T EXCEPT ![t].armed = FALSE]
Reset(T, t) == IF t = None THEN T ELSE [T EXCEPT ![t].armed = TRUE, ![t].current = TRUE]

(* The goroutine an offer starts. *)
StartStaleEntryHandler(g) ==
  /\ Runs /\ g \in dhcpTodo /\ g.op = "stale" /\ CanArm
  /\ LET f == Fresh(dhcpTimer, "stale", g.ip, g.mac)
     IN /\ dhcpTimer' = f.timers
        /\ dhcpPool' = [dhcpPool EXCEPT ![g.ip] = [Ent(g.ip) EXCEPT !.stale = f.t]]
  /\ dhcpTodo' = dhcpTodo \ {g}
  /\ UNCHANGED <<dhcpInfraVars, dhcpMacIp, dhcpHeld, dhcpEvents>>

(* The goroutine an acknowledgement starts. *)
StartLeaseEntryHandler(g) ==
  /\ Runs /\ g \in dhcpTodo /\ g.op = "lease" /\ CanArm
  /\ LET f == Fresh(dhcpTimer, "lease", g.ip, g.mac)
     IN /\ dhcpTimer' = f.timers
        /\ dhcpPool' = [dhcpPool EXCEPT ![g.ip] = [Ent(g.ip) EXCEPT !.refresh = f.t, !.state = "OFFERED"]]
  /\ dhcpTodo' = dhcpTodo \ {g}
  /\ UNCHANGED <<dhcpInfraVars, dhcpMacIp, dhcpHeld, dhcpEvents>>

Delete(ip, mac) ==
  /\ dhcpPool' = [dhcpPool EXCEPT ![ip] = Unused]
  /\ dhcpMacIp' = [dhcpMacIp EXCEPT ![mac] = None]

(* The offer was not taken up for half a lease time. *)
removeStaleFunc(t) ==
  LET ip == dhcpTimer[t].ip
      T == [dhcpTimer EXCEPT ![t].armed = FALSE]
  IN /\ Runs /\ Armed(t) /\ dhcpTimer[t].kind = "stale"
     /\ IF Ent(ip).stale = None
        THEN Panic /\ dhcpTimer' = T /\ UNCHANGED <<dhcpPool, dhcpMacIp>>
        ELSE /\ Delete(ip, dhcpTimer[t].mac) /\ dhcpTimer' = StopTimer(T, Ent(ip).stale)
             /\ dhcpEvents' = [dhcpEvents EXCEPT !.past = @ \cup Alone]
     /\ UNCHANGED <<dhcpInfraVars, dhcpTodo, dhcpHeld>>

(* The lease time has passed since this timer was last started: if that was *)
(* with the client's last acknowledgement, the client no longer uses the    *)
(* address.                                                                 *)
removeLeaseExpireFunc(t) ==
  LET ip == dhcpTimer[t].ip
      T == [dhcpTimer EXCEPT ![t].armed = FALSE]
  IN /\ Runs /\ Armed(t) /\ dhcpTimer[t].kind = "lease"
     /\ dhcpTimer[t].current => dhcpHeld[dhcpTimer[t].mac] # ip
     /\ IF Ent(ip).refresh = None
        THEN Panic /\ dhcpTimer' = T /\ UNCHANGED <<dhcpPool, dhcpMacIp>>
        ELSE /\ Delete(ip, dhcpTimer[t].mac)
             /\ dhcpTimer' = StopTimer(StopTimer(T, Ent(ip).stale), Ent(ip).refresh)
             /\ dhcpEvents' = [dhcpEvents EXCEPT !.past = @ \cup Alone]
     /\ UNCHANGED <<dhcpInfraVars, dhcpTodo, dhcpHeld>>

-----------------------------------------------------------------------------
(* Packets, in on a port with a receiver.  The decoders and the checks of   *)
(* lengths, checksums, UDP ports and the magic cookie only drop packets.    *)

Takes(q) == dhcpPort[q].rx > 0 /\ dhcpPort[q].l3

findUnusedIP == {ip \in DhcpIps : dhcpPool[ip] = Unused}

(* A DISCOVER: the offer template is written to (it is nil until           *)
(* constructDhcpMsg has run), and a client without an address gets one.    *)
sendDhcpOffer(mac, x) ==
  /\ \E q \in DhcpPorts : Takes(q)
  /\ IF ~dhcpL3.configured \/ ~dhcpConf.msg
     THEN Runs /\ dhcpEvents.left > 0 /\ Panic /\ UNCHANGED dhcpTodo
     ELSE /\ dhcpMacIp[mac] = None /\ Happens(Alone)
          /\ \E ip \in findUnusedIP :
               dhcpTodo' = dhcpTodo \cup {[op |-> "offer", mac |-> mac, ip |-> ip, xid |-> x]}
  /\ UNCHANGED <<dhcpInfraVars, dhcpPool, dhcpMacIp, dhcpTimer, dhcpHeld>>

(* ... the maps are written after the choice. *)
OfferEntered(g) ==
  /\ Runs /\ g \in dhcpTodo /\ g.op = "offer"
  /\ dhcpMacIp' = [dhcpMacIp EXCEPT ![g.mac] = g.ip]
  /\ dhcpPool' = [dhcpPool EXCEPT ![g.ip] = [Ent(g.ip) EXCEPT !.mac = g.mac, !.xid = g.xid]]
  /\ dhcpTodo' = (dhcpTodo \ {g}) \cup {[op |-> "stale", mac |-> g.mac, ip |-> g.ip, xid |-> 0]}
  /\ UNCHANGED <<dhcpInfraVars, dhcpTimer, dhcpHeld, dhcpEvents>>

(* A REQUEST of a known client with the transaction of the offer is        *)
(* acknowledged; ciaddr is set when the client renews.  The lease timers   *)
(* started for earlier acknowledgements now run out too early.             *)
sendDhcpAck(mac, ciaddr) ==
  /\ dhcpHeld' = [dhcpHeld EXCEPT ![mac] = dhcpMacIp[mac]]
  /\ dhcpTimer' = [t \in 1..MaxDhcpTimers |->
       IF dhcpTimer[t] # NoTimer /\ dhcpTimer[t].ip = dhcpMacIp[mac] THEN [dhcpTimer[t] EXCEPT !.current = FALSE] ELSE dhcpTimer[t]]
  /\ dhcpTodo' = dhcpTodo \cup {[op |-> "acked", mac |-> mac, ip |-> dhcpMacIp[mac], xid |-> 0]}
                          \cup (IF ciaddr THEN {} ELSE {[op |-> "lease", mac |-> mac, ip |-> dhcpMacIp[mac], xid |-> 0]})
processDhcpRequest(mac, x, ciaddr) ==
  LET ip == dhcpMacIp[mac]
  IN /\ \E q \in DhcpPorts : Takes(q)
     /\ dhcpL3.configured /\ dhcpConf.msg
     /\ ip # None /\ Ent(ip).xid = x
     /\ ciaddr => dhcpHeld[mac] = ip
     /\ Happens(Alone \cup (IF ~ciaddr /\ Ent(ip).state = "OFFERED" THEN {"requestAgain"} ELSE {}))
     /\ sendDhcpAck(mac, ciaddr)
     /\ UNCHANGED <<dhcpInfraVars, dhcpPool, dhcpMacIp>>

(* Fault: the stale timer keeps running. *)
SettleKeepsStale(g) ==
  LET e == Ent(g.ip)
  IN /\ Runs /\ g \in dhcpTodo /\ g.op = "acked"
     /\ IF dhcpMacIp[g.mac] # g.ip THEN UNCHANGED <<dhcpPool, dhcpTimer>>
        ELSE /\ dhcpTimer' = IF e.state = "OFFERED" THEN Reset(dhcpTimer, e.refresh) ELSE dhcpTimer
             /\ dhcpPool' = [dhcpPool EXCEPT ![g.ip] = e]
     /\ dhcpTodo' = dhcpTodo \ {g}
     /\ UNCHANGED <<dhcpInfraVars, dhcpMacIp, dhcpHeld, dhcpEvents>>
(* After the acknowledgement: the lease timer is pushed back, the stale     *)
(* timer is done with.                                                      *)
RequestSettled(g) ==
  LET e == Ent(g.ip)
      T == IF e.state = "OFFERED" THEN Reset(dhcpTimer, e.refresh) ELSE dhcpTimer
  IN /\ Runs /\ g \in dhcpTodo /\ g.op = "acked"
     /\ IF dhcpMacIp[g.mac] # g.ip THEN UNCHANGED <<dhcpPool, dhcpTimer>>
        ELSE /\ dhcpTimer' = StopTimer(T, e.stale)
             /\ dhcpPool' = [dhcpPool EXCEPT ![g.ip] = [e EXCEPT !.stale = None]]
     /\ dhcpTodo' = dhcpTodo \ {g}
     /\ UNCHANGED <<dhcpInfraVars, dhcpMacIp, dhcpHeld, dhcpEvents>>

ReleaseStops(e) == StopTimer(dhcpTimer, e.refresh)
processDhcpRelease(mac) ==
  LET ip == dhcpMacIp[mac]
  IN /\ \E q \in DhcpPorts : Takes(q)
     /\ dhcpL3.configured /\ ip # None
     /\ Happens(Alone \cup (IF Ent(ip).stale # None THEN {"releasedOffer"} ELSE {}))
     /\ dhcpTimer' = ReleaseStops(Ent(ip))
     /\ Delete(ip, mac)
     /\ dhcpHeld' = [dhcpHeld EXCEPT ![mac] = None]
     /\ UNCHANGED <<dhcpInfraVars, dhcpTodo>>

(* external: a client gives up its address when its lease has run out. *)
LeaseEnds(mac) ==
  /\ dhcpHeld[mac] # None
  /\ dhcpHeld' = [dhcpHeld EXCEPT ![mac] = None]
  /\ UNCHANGED <<dhcpInfraVars, dhcpPool, dhcpMacIp, dhcpTimer, dhcpTodo, dhcpEvents>>

-----------------------------------------------------------------------------
(* Configuration *)

dhcpLeases == <<dhcpPool, dhcpMacIp, dhcpTimer, dhcpTodo, dhcpHeld>>

StartRxDhcpPkt(Q) == [q \in DhcpPorts |-> IF q \in Q THEN [dhcpPort[q] EXCEPT !.rx = @ + 1, !.hdl = TRUE] ELSE dhcpPort[q]]
(* Stops one receiver of each port, with a handshake on its CtrlCh. *)
StopPorts(Q) == [q \in DhcpPorts |-> IF q \in Q /\ dhcpPort[q].hdl THEN [dhcpPort[q] EXCEPT !.rx = @ - 1, !.hdl = FALSE] ELSE dhcpPort[q]]

StopDhcpServer == StopPorts(dhcpMembers)
StartDhcpServer == dhcpPort' = StartRxDhcpPkt(dhcpMembers) /\ dhcpMain' = "construct"

(* The offer template is built when the receivers already run.  When the    *)
(* interface is gone it is built for the zero key.                          *)
constructDhcpMsg ==
  /\ Runs /\ dhcpMain = "construct" /\ dhcpMain' = "idle"
  /\ dhcpConf' = IF dhcpL3.configured THEN [dhcpConf EXCEPT !.msg = TRUE] ELSE dhcpConf
  /\ UNCHANGED <<dhcpL3, dhcpMembers, dhcpPort, dhcpLeases, dhcpEvents>>

processDhcpGlobalConf(enable) ==
  /\ dhcpMain = "idle" /\ Happens({}) /\ dhcpConf.global # enable
  /\ dhcpConf' = [dhcpConf EXCEPT !.global = enable]
  /\ IF ~dhcpConf.enable THEN UNCHANGED <<dhcpPort, dhcpMain>>
     ELSE IF enable THEN StartDhcpServer
     ELSE dhcpPort' = StopDhcpServer /\ UNCHANGED dhcpMain
  /\ UNCHANGED <<dhcpL3, dhcpMembers, dhcpLeases>>

(* The pools are emptied, whatever is still timed or leased from before. *)
processDhcpIntfConf(enable) ==
  /\ dhcpMain = "idle" /\ Happens({}) /\ dhcpL3.exists /\ ~dhcpL3.configured
  /\ dhcpL3' = [dhcpL3 EXCEPT !.configured = TRUE]
  /\ dhcpConf' = [dhcpConf EXCEPT !.enable = enable]
  /\ dhcpPool' = [ip \in DhcpIps |-> Unused] /\ dhcpMacIp' = [m \in DhcpMacs |-> None]
  /\ IF dhcpConf.global /\ enable THEN StartDhcpServer ELSE UNCHANGED <<dhcpPort, dhcpMain>>
  /\ UNCHANGED <<dhcpMembers, dhcpTimer, dhcpTodo, dhcpHeld>>

processIPv4IntfCreate ==
  /\ dhcpMain = "idle" /\ ~dhcpL3.exists /\ Happens({})
  /\ dhcpL3' = [exists |-> TRUE, configured |-> FALSE]
  /\ dhcpPort' = [q \in DhcpPorts |-> IF q \in dhcpMembers THEN [dhcpPort[q] EXCEPT !.l3 = TRUE] ELSE dhcpPort[q]]
  /\ UNCHANGED <<dhcpMembers, dhcpConf, dhcpMain, dhcpLeases>>

(* The receivers keep running. *)
processIPv4IntfDelete ==
  /\ dhcpMain = "idle" /\ dhcpL3.exists /\ Happens(IF dhcpL3.configured THEN {"removed"} ELSE {})
  /\ dhcpL3' = [exists |-> FALSE, configured |-> FALSE]
  /\ dhcpPort' = [q \in DhcpPorts |-> IF q \in dhcpMembers THEN [dhcpPort[q] EXCEPT !.l3 = FALSE] ELSE dhcpPort[q]]
  /\ UNCHANGED <<dhcpMembers, dhcpConf, dhcpMain, dhcpLeases>>

(* Ports that enter or leave the VLAN are neither started nor stopped. *)
updateVlanInfra(Q) ==
  /\ dhcpMain = "idle" /\ Q # dhcpMembers
  /\ Happens(IF \E q \in dhcpMembers \ Q : dhcpPort[q].rx > 0 THEN {"left"} ELSE {})
  /\ dhcpMembers' = Q
  /\ UNCHANGED <<dhcpL3, dhcpPort, dhcpConf, dhcpMain, dhcpLeases>>

DhcpNext ==
  \/ \E g \in dhcpTodo : \/ StartStaleEntryHandler(g) \/ StartLeaseEntryHandler(g)
                         \/ OfferEntered(g) \/ RequestSettled(g)
  \/ \E t \in 1..MaxDhcpTimers : removeStaleFunc(t) \/ removeLeaseExpireFunc(t)
  \/ \E m \in DhcpMacs : \/ processDhcpRelease(m) \/ LeaseEnds(m)
                         \/ \E x \in DhcpXids : \/ sendDhcpOffer(m, x)
                                                \/ \E ciaddr \in BOOLEAN : processDhcpRequest(m, x, ciaddr)
  \/ constructDhcpMsg \/ processIPv4IntfCreate \/ processIPv4IntfDelete
  \/ \E enable \in BOOLEAN : processDhcpGlobalConf(enable) \/ processDhcpIntfConf(enable)
  \/ \E Q \in SUBSET DhcpPorts : updateVlanInfra(Q)

DhcpSpec == DhcpInit /\ [][DhcpNext]_dhcpVars

-----------------------------------------------------------------------------
(* Properties *)

DhcpTypeOK ==
  /\ dhcpL3 \in [exists: BOOLEAN, configured: BOOLEAN] /\ dhcpMembers \subseteq DhcpPorts
  /\ dhcpPort \in [DhcpPorts -> [l3: BOOLEAN, rx: 0..MaxDhcpEvents, hdl: BOOLEAN]]
  /\ dhcpConf \in [global: BOOLEAN, enable: BOOLEAN, msg: BOOLEAN]
  /\ dhcpPool \in [DhcpIps -> OfferedData \cup {Unused}]
  /\ dhcpMacIp \in [DhcpMacs -> DhcpIps \cup {None}] /\ dhcpHeld \in [DhcpMacs -> DhcpIps \cup {None}]
  /\ dhcpMain \in {"idle", "construct"}

(* What the properties of leases leave out, because the code has no answer *)
(* to it: packets and timers whose handling overlaps, a client that        *)
(* repeats its request, an offer that is released (its stale timer runs on *)
(* and removes the next client's entry), an interface taken away under a   *)
(* configured server.                                                      *)
Ordinary == dhcpEvents.past \cap {"overlap", "requestAgain", "releasedOffer", "removed"} = {}

(* Two clients never use one address, over every order of offers,          *)
(* requests, renewals, releases and timer expiries: a timer that removes a *)
(* lease in use, or an address offered twice, would break it.              *)
AddressUsedOnce ==
  Ordinary => \A m, n \in DhcpMacs : m # n /\ dhcpHeld[m] # None => dhcpHeld[m] # dhcpHeld[n]

(* An address in use stays in the pool, under the client that uses it. *)
LeaseIsRecorded ==
  Ordinary => \A m \in DhcpMacs : dhcpHeld[m] # None => dhcpMacIp[m] = dhcpHeld[m] /\ dhcpPool[dhcpHeld[m]] # Unused

(* No timer fires for an entry that is gone, which would be a nil          *)
(* dereference and the end of the daemon.                                  *)
TimersHaveEntry ==
  Ordinary =>
    \A t \in 1..MaxDhcpTimers : Armed(t) =>
      LET e == Ent(dhcpTimer[t].ip) IN IF dhcpTimer[t].kind = "stale" THEN e.stale # None ELSE e.refresh # None

(* Once the server is disabled no receiver is left, unless ports left the  *)
(* VLAN or the address was deleted while they were received on.            *)
DisabledIsDeaf ==
  /\ dhcpEvents.past \cap {"removed", "left"} = {} /\ ~dhcpConf.global
  => \A q \in DhcpPorts : dhcpPort[q].rx = 0

(* The DHCP server gives an address to one client at a time, records the   *)
(* leases clients hold, has an entry for every timer that runs, and does   *)
(* not listen while it is disabled (dhcpRx.go, dhcpTx.go, dhcpCache.go),   *)
(* with the exceptions each part names.                                    *)
DhcpLeasesSafe == DhcpTypeOK /\ AddressUsedOnce /\ LeaseIsRecorded /\ TimersHaveEntry /\ DisabledIsDeaf

=============================================================================
