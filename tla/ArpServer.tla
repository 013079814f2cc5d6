------------------------------ MODULE ArpServer ------------------------------
(***************************************************************************)
(* ARPd (arp/server).  Three kinds of goroutine share the tables:          *)
(*   - the main one (StartServer) takes RPC requests and the notifications *)
(*     of asicd and passes work on through unbuffered channels;            *)
(*   - one receiver per port (processRxPkts) turns ARP packets into        *)
(*     updates of the cache;                                               *)
(*   - the cache goroutine (updateArpCache) owns the cache and tells asicd.*)
(* A rendezvous on an unbuffered channel is the step in which the cache    *)
(* goroutine takes the message (arpInHand); it handles it in a later step, *)
(* while the sender already runs on.  A VLAN, a LAG and a routed port are  *)
(* one kind of interface: a set of member ports (arpMembers), which is     *)
(* {i} for a port.  The counter of an entry counts the ticks of the        *)
(* timer down from timeoutCounter.                                         *)
(***************************************************************************)
EXTENDS Integers, Sequences, FiniteSets

CONSTANTS ArpHosts,        \* addresses of the hosts, all in the subnet of the interface
          ArpMacs,         \* hardware addresses of the hosts
          ArpPorts,        \* physical ports
          ArpIntfs,        \* interfaces that may carry an address
          ArpMembers0,     \* their ports when arpd starts
          ArpTimeouts,     \* values of timeoutCounter the user may configure
          ArpRetryCnt,     \* retryCnt
          MaxArpEvents     \* bound on requests, packets, faults and restarts

self == "self"             \* the address of the interface
zero == "0.0.0.0"
incomplete == "incomplete"
minCnt == 1

VARIABLES arpCache,      \* arpCache: the entry of each address, or NoArp
          arpAsic,       \* external: the neighbour table of asicd
          arpDb,         \* the keys ArpCacheEntry#... in the database
          arpPort,       \* portPropMap
          arpMembers,    \* vlanPropMap and lagPropMap: the ports of an interface
          arpL3,         \* l3IntfPropMap
          arpTimeout,    \* timeoutCounter, and the configured value in the database
          arpTodo,       \* what is left of the request the main goroutine works on
          arpRx,         \* port -> updates its receivers have still to send
          arpInHand,     \* the message the cache goroutine has taken
          arpWire,       \* requests sent and not yet answered
          arpEvents      \* [left, past]: events still to come, kinds that happened
arpVars == <<arpCache, arpAsic, arpDb, arpPort, arpMembers, arpL3, arpTimeout, arpTodo, arpRx,
             arpInHand, arpWire, arpEvents>>

NoArp == [mac |-> "none"]
NoMsg == [op |-> "none"]
NoIntf == "noIntf"
NoArpPort == "noPort"
DefaultTimeout == CHOOSE t \in ArpTimeouts : \A u \in ArpTimeouts : u =< t   \* 600 s, the largest here

ArpEntry == [mac: ArpMacs \cup {incomplete}, port: ArpPorts \cup {NoArpPort}, l3: ArpIntfs \cup {NoIntf},
             counter: 0..DefaultTimeout, rib: BOOLEAN]
ArpMsg == [op: {"update"}, ip: ArpHosts \cup {self}, mac: ArpMacs \cup {incomplete}, port: ArpPorts, rib: BOOLEAN]
          \cup [op: {"flush"}, port: ArpPorts] \cup [op: {"cnt"}, cnt: ArpTimeouts]
          \cup [op: {"macMove"}, ip: ArpHosts, port: ArpPorts] \cup [op: {"ribDelete"}, ip: ArpHosts]
          \cup [op: {"deleteByIp", "refreshByIp"}, ip: ArpHosts]
          \cup [op: {"deleteByIf", "refreshByIf"}, l3: ArpIntfs] \cup {[op |-> "tick"], NoMsg}
ArpTodo == [do: {"idle", "tell", "detach", "flush", "down", "resolve", "dropL3"}, at: 1..3, port: ArpPorts \cup {NoArpPort},
            left: SUBSET ArpPorts, l3: ArpIntfs \cup {NoIntf}, ip: ArpHosts \cup {self}, msg: ArpMsg]
Job(do, i, ip, m) == [do |-> do, at |-> 1, port |-> NoArpPort, left |-> {}, l3 |-> i, ip |-> ip, msg |-> m]
Idle == Job("idle", NoIntf, self, NoMsg)
Addresses == ArpHosts \cup {self}      \* the keys an entry may get: processArpReply accepts the own address

-----------------------------------------------------------------------------
(* Start: buildArpInfra reads ports, VLANs and interfaces from asicd, then *)
(* processArpInfra starts a receiver on every port of an interface.        *)

constructPortInfra(oper) == [p \in ArpPorts |-> [oper |-> oper[p], l3 |-> NoIntf, rx |-> 0]]
constructL3Infra(ports, members, l3) ==
  [p \in ArpPorts |-> [ports[p] EXCEPT !.l3 = IF \E i \in l3 : p \in members[i]
                                              THEN CHOOSE i \in l3 : p \in members[i] ELSE NoIntf]]
processArpInfra(ports, members, l3) ==
  [p \in ArpPorts |-> [ports[p] EXCEPT !.rx = IF ports[p].oper /\ \E i \in l3 : p \in members[i]
                                              THEN 1 ELSE 0]]
buildArpInfra(oper, members, l3) ==
  processArpInfra(constructL3Infra(constructPortInfra(oper), members, l3), members, l3)

(* updateArpCacheFromDB; refreshArpDB then deletes the keys.  Of several   *)
(* keys of one address the one read last (pick) counts.                    *)
updateArpCacheFromDB(db, pick) ==
  [ip \in Addresses |->
     IF \E e \in db : e[1] = ip
     THEN [mac |-> incomplete, port |-> NoArpPort, l3 |-> pick[ip], counter |-> minCnt + ArpRetryCnt + 1, rib |-> FALSE]
     ELSE NoArp]
Picks(db) == {pick \in [Addresses -> ArpIntfs \cup {NoIntf}] :
                \A ip \in Addresses : IF \E e \in db : e[1] = ip THEN <<ip, pick[ip]>> \in db ELSE pick[ip] = NoIntf}

ArpInit ==
  /\ arpMembers = ArpMembers0
  /\ arpL3 \in {l3 \in SUBSET ArpIntfs : \A i, j \in l3 : i = j}
  /\ arpPort = buildArpInfra([p \in ArpPorts |-> TRUE], arpMembers, arpL3)
  /\ arpCache = [ip \in Addresses |-> NoArp]
  /\ arpAsic = [ip \in Addresses |-> "none"]
  /\ arpDb = {}
  /\ arpTimeout = [cnt |-> DefaultTimeout, configured |-> DefaultTimeout]
  /\ arpTodo = Idle
  /\ arpRx = [p \in ArpPorts |-> <<>>]
  /\ arpInHand = NoMsg
  /\ arpWire = {}
  /\ arpEvents = [left |-> MaxArpEvents, past |-> {}]

-----------------------------------------------------------------------------
(* sendArpReq leaves nothing behind on a port that is down. *)
sendArpReq(ip, ports) == {<<ip, p>> : p \in {q \in ports \cap ArpPorts : arpPort[q].oper}}
sendArpReqL3Intf(ip, i) == sendArpReq(ip, arpMembers[i])
getL3IntfOnSameSubnet(ip) == IF ip = self THEN {} ELSE arpL3     \* the first one met in map order
retryForArpEntry(ip, i) == IF i \in ArpIntfs THEN sendArpReq(ip, arpMembers[i]) ELSE {}
refreshArpEntry(ip, p) == sendArpReq(ip, {p})

(* The key is stored when the entry is new.  deleteArpEntryInDB passes a    *)
(* pattern to DEL, which takes none: nothing is deleted.                   *)
storeArpEntryInDB(db, ip, i) == db \cup {<<ip, i>>}
deleteArpEntryInDB(db, ips) == db

(* External: asicd may refuse one request; a refusal leaves its table as   *)
(* it was.                                                                 *)
Refusal == IF arpEvents.left > 0 THEN {FALSE, TRUE} ELSE {FALSE}
Refuse(refused) == IF refused THEN arpEvents' = [left |-> arpEvents.left - 1, past |-> arpEvents.past \cup {"refused"}]
                   ELSE UNCHANGED arpEvents

Handled == arpInHand' = NoMsg
CacheOnly == UNCHANGED <<arpPort, arpMembers, arpL3, arpTodo, arpRx, arpTimeout>>

(* The entry update of a packet or of the RIB. *)
processArpEntryUpdateMsg ==
  LET m == arpInHand
      ent == arpCache[m.ip]
      i == arpPort[m.port].l3
      same == ent # NoArp /\ ent.mac = m.mac /\ ent.port = m.port /\ ent.l3 = i
      keep == ent # NoArp /\ ent.mac # incomplete /\ m.mac = incomplete
      new == [mac |-> m.mac, port |-> m.port, l3 |-> i, counter |-> arpTimeout.cnt,
              rib |-> m.rib \/ (ent # NoArp /\ ent.rib)]
  IN /\ m.op = "update" /\ Handled /\ CacheOnly /\ UNCHANGED arpWire
     /\ \/ /\ i # NoIntf /\ i \notin arpL3
           /\ UNCHANGED <<arpCache, arpAsic, arpDb, arpEvents>>
        \/ /\ i = NoIntf \/ i \in arpL3
           /\ same
           /\ arpCache' = [arpCache EXCEPT ![m.ip].counter = arpTimeout.cnt]
           /\ UNCHANGED <<arpAsic, arpDb, arpEvents>>
        \/ /\ i = NoIntf \/ i \in arpL3
           /\ ~same /\ keep
           /\ arpCache' = [arpCache EXCEPT ![m.ip].rib = @ \/ m.rib]
           /\ UNCHANGED <<arpAsic, arpDb, arpEvents>>
        \/ /\ i = NoIntf \/ i \in arpL3
           /\ ~same /\ ~keep
           /\ \E refused \in IF m.mac = incomplete THEN {FALSE} ELSE Refusal :
                /\ Refuse(refused)
                /\ arpAsic' = IF refused \/ m.mac = incomplete THEN arpAsic ELSE [arpAsic EXCEPT ![m.ip] = m.mac]
                /\ arpCache' = IF refused THEN arpCache ELSE [arpCache EXCEPT ![m.ip] = new]
                /\ arpDb' = IF refused \/ ent # NoArp THEN arpDb ELSE storeArpEntryInDB(arpDb, m.ip, i)

(* The entries of a port whose interface is gone or down: asicd is asked   *)
(* for the incomplete ones too, and the first refusal ends the loop.       *)
processArpEntryDeleteMsg ==
  LET mine == {ip \in Addresses : arpCache[ip] # NoArp /\ arpCache[ip].port = arpInHand.port}
  IN /\ arpInHand.op = "flush" /\ Handled /\ CacheOnly /\ UNCHANGED arpWire
     /\ arpDb' = deleteArpEntryInDB(arpDb, mine)
     /\ \E refused \in IF mine = {} THEN {FALSE} ELSE Refusal :
        \E gone \in IF refused THEN {g \in SUBSET mine : g # mine} ELSE {mine} :
          /\ Refuse(refused)
          /\ arpAsic' = [ip \in Addresses |-> IF ip \in gone THEN "none" ELSE arpAsic[ip]]
          /\ arpCache' = [ip \in Addresses |-> IF ip \in gone THEN NoArp ELSE arpCache[ip]]

processArpEntryCntUpdateMsg ==
  /\ arpInHand.op = "cnt" /\ Handled /\ CacheOnly
  /\ arpCache' = [ip \in Addresses |->
                    IF arpCache[ip] # NoArp /\ arpCache[ip].counter > arpInHand.cnt
                    THEN [arpCache[ip] EXCEPT !.counter = arpInHand.cnt] ELSE arpCache[ip]]
  /\ UNCHANGED <<arpAsic, arpDb, arpWire, arpEvents>>

processArpEntryMacMoveMsg ==
  /\ arpInHand.op = "macMove" /\ Handled /\ CacheOnly
  /\ arpCache' = IF arpCache[arpInHand.ip] = NoArp THEN arpCache
                 ELSE [arpCache EXCEPT ![arpInHand.ip].port = arpInHand.port]
  /\ UNCHANGED <<arpAsic, arpDb, arpWire, arpEvents>>

(* One address: the entry goes (or becomes incomplete again, for refresh)  *)
(* after its neighbour has left asicd.                                     *)
Withdraw(ips, result(_)) ==
  LET installed == {ip \in ips : arpCache[ip].mac # incomplete}
  IN \E refused \in {r \in SUBSET installed : r = {} \/ TRUE \in Refusal} :
       /\ Refuse(refused # {})
       /\ arpAsic' = [ip \in Addresses |-> IF ip \in installed \ refused THEN "none" ELSE arpAsic[ip]]
       /\ arpCache' = [ip \in Addresses |-> IF ip \in ips \ refused THEN result(arpCache[ip]) ELSE arpCache[ip]]

Forget(e) == NoArp
Reset(e) == [mac |-> incomplete, port |-> e.port, l3 |-> e.l3, counter |-> arpTimeout.cnt, rib |-> e.rib]

processArpEntryDeleteMsgFromRib ==
  /\ arpInHand.op = "ribDelete" /\ Handled /\ CacheOnly /\ UNCHANGED <<arpDb, arpWire>>
  /\ Withdraw({ip \in {arpInHand.ip} : arpCache[ip] # NoArp /\ arpCache[ip].rib}, Forget)

processDeleteByIPAddr ==
  /\ arpInHand.op = "deleteByIp" /\ Handled /\ CacheOnly /\ UNCHANGED <<arpDb, arpWire>>
  /\ Withdraw({ip \in {arpInHand.ip} : arpCache[ip] # NoArp /\ ~arpCache[ip].rib}, Forget)

processDeleteByIfName ==
  /\ arpInHand.op = "deleteByIf" /\ Handled /\ CacheOnly /\ UNCHANGED <<arpDb, arpWire>>
  /\ Withdraw({ip \in Addresses : /\ arpInHand.l3 \in arpL3 /\ arpCache[ip] # NoArp
                                  /\ arpCache[ip].l3 = arpInHand.l3 /\ ~arpCache[ip].rib}, Forget)

processRefreshByIPAddr ==
  /\ arpInHand.op = "refreshByIp" /\ Handled /\ CacheOnly /\ UNCHANGED <<arpDb, arpWire>>
  /\ Withdraw({ip \in {arpInHand.ip} : arpCache[ip] # NoArp}, Reset)

processRefreshByIfName ==
  /\ arpInHand.op = "refreshByIf" /\ Handled /\ CacheOnly /\ UNCHANGED <<arpDb, arpWire>>
  /\ Withdraw({ip \in Addresses : /\ arpInHand.l3 \in arpL3 /\ arpCache[ip] # NoArp
                                  /\ arpCache[ip].l3 = arpInHand.l3}, Reset)

(* One tick of an entry that stays: does it ask again, and is an           *)
(* unanswered question of a packet given up?  The two fixed points of the  *)
(* code, one minute and thirty seconds, lie between the quarter and the    *)
(* last retries.                                                           *)
(* Fault: only resolved entries are asked for again. *)
KnownAskAgain(e, n) == e.mac # incomplete /\ n =< minCnt + ArpRetryCnt + 1
AsksAgain(e, n) == \/ n =< minCnt + ArpRetryCnt + 1 \/ n = arpTimeout.cnt \div 2 \/ n = arpTimeout.cnt \div 4
              \/ /\ e.mac = incomplete /\ n =< arpTimeout.cnt /\ n > arpTimeout.cnt - ArpRetryCnt
GivesUp(e, n) == e.mac = incomplete /\ ~e.rib /\ ~AsksAgain(e, n)

processArpCounterUpdateMsg ==
  LET live == {ip \in Addresses : arpCache[ip] # NoArp}
      due == {ip \in live : arpCache[ip].counter =< minCnt}
      installed == {ip \in due : arpCache[ip].mac # incomplete}
      n(ip) == arpCache[ip].counter - 1
      asking == {ip \in live \ due : AsksAgain(arpCache[ip], n(ip))}
  IN /\ arpInHand.op = "tick" /\ Handled /\ CacheOnly
     /\ arpDb' = deleteArpEntryInDB(arpDb, due)
     /\ \E refused \in {r \in SUBSET installed : r = {} \/ TRUE \in Refusal} :
          /\ Refuse(refused # {})
          /\ arpAsic' = [ip \in Addresses |-> IF ip \in installed \ refused THEN "none" ELSE arpAsic[ip]]
          /\ arpCache' = [ip \in Addresses |->
                CASE ip \in due -> IF ~arpCache[ip].rib THEN NoArp
                                   ELSE IF ip \in refused THEN arpCache[ip] ELSE Reset(arpCache[ip])
                  [] ip \in live \ due -> IF GivesUp(arpCache[ip], n(ip)) THEN NoArp
                                          ELSE [arpCache[ip] EXCEPT !.counter = n(ip)]
                  [] OTHER -> NoArp]
     /\ arpWire' = arpWire \cup UNION {IF arpCache[ip].mac = incomplete THEN retryForArpEntry(ip, arpCache[ip].l3)
                                       ELSE refreshArpEntry(ip, arpCache[ip].port) : ip \in asking}

updateArpCache ==
  \/ processArpEntryUpdateMsg \/ processArpEntryDeleteMsg \/ processArpEntryCntUpdateMsg
  \/ processArpEntryMacMoveMsg \/ processArpEntryDeleteMsgFromRib \/ processDeleteByIPAddr
  \/ processDeleteByIfName \/ processRefreshByIPAddr \/ processRefreshByIfName
  \/ processArpCounterUpdateMsg

-----------------------------------------------------------------------------
(* Packets *)

Update(p, ip, mac, rib) == [op |-> "update", ip |-> ip, mac |-> mac, port |-> p, rib |-> rib]
Net == ArpHosts \cup {self}

(* What a request on port p makes its receiver send to the cache. *)
processArpRequest(p, src, dst, mac) ==
  IF arpPort[p].l3 \notin arpL3 \/ dst \notin Net \/ (src # zero /\ src \notin Net) THEN <<>>
  ELSE IF src = self THEN <<>>
  ELSE IF dst = self THEN IF src = zero THEN <<>> ELSE <<Update(p, src, mac, FALSE)>>
  ELSE IF src = dst THEN <<Update(p, src, mac, FALSE)>>
  ELSE IF src = zero THEN <<Update(p, dst, incomplete, FALSE)>>
  ELSE <<Update(p, src, mac, FALSE), Update(p, dst, incomplete, FALSE)>>

processArpReply(p, src, dst, mac) ==
  IF dst \in Net /\ src \in Net /\ arpPort[p].l3 # NoIntf THEN <<Update(p, src, mac, FALSE)>> ELSE <<>>

Spend == arpEvents.left > 0 /\ arpEvents' = [arpEvents EXCEPT !.left = @ - 1]
RxOnly == UNCHANGED <<arpCache, arpAsic, arpDb, arpPort, arpMembers, arpL3, arpTimeout, arpTodo, arpInHand>>

(* A host asks for another address, or announces its own. *)
RxRequest(p, src, dst, mac) ==
  /\ arpPort[p].rx > 0 /\ arpPort[p].oper /\ arpRx[p] = <<>> /\ Spend
  /\ arpRx' = [arpRx EXCEPT ![p] = processArpRequest(p, src, dst, mac)]
  /\ RxOnly /\ UNCHANGED arpWire

(* A host answers a question of this router. *)
RxReply(p, ip, mac) ==
  /\ arpPort[p].rx > 0 /\ arpPort[p].oper /\ arpRx[p] = <<>>
  /\ <<ip, p>> \in arpWire
  /\ arpWire' = arpWire \ {<<ip, p>>}
  /\ arpRx' = [arpRx EXCEPT ![p] = processArpReply(p, ip, self, mac)]
  /\ RxOnly /\ UNCHANGED arpEvents

(* An IP packet from an address the cache does not know in this place makes *)
(* the router ask for it, and for the destination.                          *)
processIpPkt(p, src, dst, mac) ==
  /\ arpPort[p].rx > 0 /\ arpPort[p].oper /\ arpRx[p] = <<>> /\ Spend
  /\ LET known(i) == /\ arpCache[src] # NoArp /\ arpCache[src].mac = mac /\ arpCache[src].port = p
                     /\ arpCache[src].l3 = i /\ p \in arpMembers[i]
         forSrc == {IF known(i) THEN {} ELSE sendArpReqL3Intf(src, i) : i \in getL3IntfOnSameSubnet(src)}
         forDst == {sendArpReqL3Intf(dst, i) : i \in getL3IntfOnSameSubnet(dst)}
     IN \E a \in forSrc \cup {{}}, b \in forDst \cup {{}} :
          /\ (forSrc # {} => a \in forSrc) /\ (forDst # {} => b \in forDst)
          /\ arpWire' = arpWire \cup a \cup b
  /\ RxOnly /\ UNCHANGED arpRx

(* The rendezvous of a receiver, of the timer and of the main goroutine    *)
(* with the cache goroutine.                                               *)
RxSend(p) ==
  /\ arpRx[p] # <<>> /\ arpInHand = NoMsg
  /\ arpInHand' = Head(arpRx[p])
  /\ arpRx' = [arpRx EXCEPT ![p] = Tail(@)]
  /\ UNCHANGED <<arpCache, arpAsic, arpDb, arpPort, arpMembers, arpL3, arpTimeout, arpTodo, arpWire, arpEvents>>

arpCacheTimeout ==
  /\ arpInHand = NoMsg
  /\ \E ip \in Addresses : arpCache[ip] # NoArp
  /\ arpInHand' = [op |-> "tick"]
  /\ UNCHANGED <<arpCache, arpAsic, arpDb, arpPort, arpMembers, arpL3, arpTimeout, arpTodo, arpRx, arpWire, arpEvents>>

(* A request is lost, or its host is not there. *)
LoseRequest == /\ \E r \in arpWire : arpWire' = arpWire \ {r}
               /\ UNCHANGED <<arpCache, arpAsic, arpDb, arpPort, arpMembers, arpL3, arpTimeout, arpTodo, arpRx, arpInHand, arpEvents>>

-----------------------------------------------------------------------------
(* The main goroutine.  What a request does to the ports of an interface  *)
(* it does port by port, in the order in which a map is read; for each     *)
(* port it goes through the steps of its Body: tell the receiver to stop,  *)
(* send to the cache goroutine, write the port's record, ask the host.     *)
Tell(m) == Job("tell", NoIntf, self, m)

(* Fault: the port is flushed before its receiver is stopped. *)
FlushFirst(do) == CASE do = "detach" -> <<"send", "stop", "set">>
                    [] do = "down" -> <<"stop", "set">>
                    [] do = "resolve" -> <<"send", "ask">>
                    [] do = "dropL3" -> <<"dropL3">>
                    [] OTHER -> <<"send">>
Body(do) == CASE do = "detach" -> <<"stop", "send", "set">>
              [] do = "down" -> <<"stop", "set">>
              [] do = "resolve" -> <<"send", "ask">>
              [] do = "dropL3" -> <<"dropL3">>
              [] OTHER -> <<"send">>

(* The next port, or the end of the request. *)
Visit(t, ports) ==
  IF ports # {}
  THEN {[do |-> t.do, at |-> 1, port |-> p, left |-> ports \ {p}, l3 |-> t.l3, ip |-> t.ip, msg |-> t.msg] : p \in ports}
  ELSE {IF t.do = "detach" THEN Job("dropL3", t.l3, self, NoMsg) ELSE Idle}

MainTakes(todo) ==
  /\ arpTodo = Idle /\ Spend
  /\ arpTodo' \in todo
  /\ UNCHANGED <<arpCache, arpAsic, arpDb, arpRx, arpInHand, arpWire>>

(* An address is configured on interface i.  The hosts are in one subnet,  *)
(* which one interface has at a time.                                      *)
processIPv4IntfCreate(i) ==
  /\ arpL3 = {}
  /\ MainTakes({Idle})
  /\ arpL3' = arpL3 \cup {i}
  /\ arpPort' = [p \in ArpPorts |-> IF p \notin arpMembers[i] THEN arpPort[p]
                                    ELSE [oper |-> arpPort[p].oper, l3 |-> i,
                                          rx |-> IF arpPort[p].oper THEN arpPort[p].rx + 1 ELSE arpPort[p].rx]]
  /\ UNCHANGED <<arpMembers, arpTimeout>>

(* ... and removed. *)
processIPv4IntfDelete(i) ==
  /\ i \in arpL3
  /\ MainTakes(Visit(Job("detach", i, self, NoMsg), arpMembers[i]))
  /\ UNCHANGED <<arpPort, arpMembers, arpL3, arpTimeout>>

processIPv4L3StateDown(i) ==
  /\ i \in arpL3
  /\ MainTakes(Visit(Job("flush", NoIntf, self, NoMsg), arpMembers[i]))
  /\ UNCHANGED <<arpPort, arpMembers, arpL3, arpTimeout>>

processL2StateDown(i) ==
  /\ MainTakes(Visit(Job("down", NoIntf, self, NoMsg), arpMembers[i]))
  /\ UNCHANGED <<arpPort, arpMembers, arpL3, arpTimeout>>

(* A receiver is started on every port with an address, whether one is     *)
(* running or not.                                                         *)
processL2StateUp(i) ==
  /\ arpTodo = Idle /\ arpEvents.left > 0
  /\ \A p \in arpMembers[i] : arpPort[p].rx < 2
  /\ arpPort' = [p \in ArpPorts |-> IF p \notin arpMembers[i] THEN arpPort[p]
                                    ELSE [oper |-> TRUE, l3 |-> arpPort[p].l3,
                                          rx |-> IF arpPort[p].l3 # NoIntf THEN arpPort[p].rx + 1 ELSE arpPort[p].rx]]
  /\ arpEvents' = [left |-> arpEvents.left - 1,
                   past |-> arpEvents.past \cup (IF \E p \in ArpPorts : arpPort'[p].rx > 1 THEN {"twoReceivers"} ELSE {})]
  /\ UNCHANGED <<arpCache, arpAsic, arpDb, arpMembers, arpL3, arpTimeout, arpTodo, arpRx, arpInHand, arpWire>>

(* A VLAN or a LAG gets a port; the code never takes one away.  The        *)
(* port's own record does not change.                                      *)
updateVlanInfra(i, p) ==
  /\ \A j \in ArpIntfs : p \notin arpMembers[j]
  /\ arpTodo = Idle /\ arpEvents.left > 0
  /\ arpMembers' = [arpMembers EXCEPT ![i] = @ \cup {p}]
  /\ arpEvents' = [left |-> arpEvents.left - 1,
                   past |-> arpEvents.past \cup (IF i \in arpL3 THEN {"grown"} ELSE {})]
  /\ UNCHANGED <<arpCache, arpAsic, arpDb, arpPort, arpL3, arpTimeout, arpTodo, arpRx, arpInHand, arpWire>>

(* asicd deletes a VLAN or a LAG that has no address. *)
deleteVlanInfra(i) ==
  /\ i \notin arpL3 /\ arpMembers[i] # {}
  /\ MainTakes({Idle})
  /\ arpMembers' = [arpMembers EXCEPT ![i] = {}]
  /\ UNCHANGED <<arpPort, arpL3, arpTimeout>>

(* RIBd wants the address of a next hop resolved, or no longer. *)
processResolveIPv4(ip, i) ==
  /\ i \in arpL3
  /\ MainTakes(Visit(Job("resolve", NoIntf, ip, NoMsg), arpMembers[i]))
  /\ UNCHANGED <<arpPort, arpMembers, arpL3, arpTimeout>>

processDeleteResolvedIPv4(ip) ==
  /\ MainTakes({Tell([op |-> "ribDelete", ip |-> ip])})
  /\ UNCHANGED <<arpPort, arpMembers, arpL3, arpTimeout>>

(* The configured value is compared with ConfRefreshTimeout, which is never *)
(* changed: going back to the default has no effect.                        *)
processArpConf(t) ==
  /\ MainTakes({IF t = DefaultTimeout THEN Idle ELSE Tell([op |-> "cnt", cnt |-> t])})
  /\ arpTimeout' = [cnt |-> IF t = DefaultTimeout THEN arpTimeout.cnt ELSE t, configured |-> t]
  /\ UNCHANGED <<arpPort, arpMembers, arpL3>>

ExecuteAction(ip, i) == {[op |-> "deleteByIp", ip |-> ip], [op |-> "refreshByIp", ip |-> ip],
                         [op |-> "deleteByIf", l3 |-> i], [op |-> "refreshByIf", l3 |-> i]}
processArpAction(ip, i) ==
  /\ MainTakes({Tell(m) : m \in ExecuteAction(ip, i)})
  /\ UNCHANGED <<arpPort, arpMembers, arpL3, arpTimeout>>

(* asicd reports that a host moved to another port of its interface. *)
processIPv4NbrMacMove(ip, p) ==
  /\ \E i \in arpL3 : p \in arpMembers[i] /\ arpCache[ip] # NoArp /\ arpCache[ip].l3 = i
  /\ MainTakes({Tell([op |-> "macMove", ip |-> ip, port |-> p])})
  /\ UNCHANGED <<arpPort, arpMembers, arpL3, arpTimeout>>

(* The steps of a request. *)
At(step) ==
  /\ arpTodo.do # "idle" /\ Body(arpTodo.do)[arpTodo.at] = step
  /\ arpTodo' \in IF arpTodo.at < Len(Body(arpTodo.do)) THEN {[arpTodo EXCEPT !.at = @ + 1]}
                  ELSE Visit(arpTodo, arpTodo.left)
  /\ UNCHANGED <<arpCache, arpAsic, arpDb, arpMembers, arpTimeout, arpRx, arpEvents>>

(* The port is up, and has an address when it goes down. *)
Stops == arpPort[arpTodo.port].oper /\ (arpTodo.do = "down" => arpPort[arpTodo.port].l3 # NoIntf)

(* CtrlCh: the receiver answers between two packets. *)
MainStop ==
  /\ At("stop")
  /\ \/ /\ Stops /\ arpPort[arpTodo.port].rx > 0 /\ arpRx[arpTodo.port] = <<>>
        /\ arpPort' = [arpPort EXCEPT ![arpTodo.port].rx = @ - 1]
     \/ ~Stops /\ UNCHANGED arpPort
  /\ UNCHANGED <<arpInHand, arpL3, arpWire>>

MainSend ==
  /\ At("send") /\ arpInHand = NoMsg
  /\ arpInHand' = CASE arpTodo.do \in {"detach", "flush"} -> [op |-> "flush", port |-> arpTodo.port]
                    [] arpTodo.do = "resolve" -> Update(arpTodo.port, arpTodo.ip, incomplete, TRUE)
                    [] OTHER -> arpTodo.msg
  /\ UNCHANGED <<arpPort, arpL3, arpWire>>

MainSet ==
  /\ At("set")
  /\ LET ent == arpPort[arpTodo.port]
     IN arpPort' = [arpPort EXCEPT ![arpTodo.port] =
                      IF arpTodo.do = "down" THEN [oper |-> FALSE, l3 |-> ent.l3, rx |-> ent.rx]
                      ELSE [oper |-> ent.oper, l3 |-> NoIntf, rx |-> ent.rx]]
  /\ UNCHANGED <<arpInHand, arpL3, arpWire>>

MainDropL3 ==
  /\ At("dropL3")
  /\ arpL3' = arpL3 \ {arpTodo.l3}
  /\ UNCHANGED <<arpInHand, arpPort, arpWire>>

MainAsk ==
  /\ At("ask")
  /\ arpWire' = arpWire \cup sendArpReq(arpTodo.ip, {arpTodo.port})
  /\ UNCHANGED <<arpInHand, arpPort, arpL3>>

MainStep == MainStop \/ MainSend \/ MainSet \/ MainDropL3 \/ MainAsk

(* arpd is restarted: asicd and the database live on.  With a configured   *)
(* timeout, InitServer sends it to the cache goroutine before that one is  *)
(* started, and hangs.                                                     *)
Restart ==
  /\ arpEvents.left > 0
  /\ arpEvents' = [left |-> arpEvents.left - 1, past |-> arpEvents.past \cup {"restart"}]
  /\ \E pick \in Picks(arpDb) : arpCache' = updateArpCacheFromDB(arpDb, pick)
  /\ arpDb' = {}
  /\ arpPort' = buildArpInfra([p \in ArpPorts |-> arpPort[p].oper], arpMembers, arpL3)
  /\ arpRx' = [p \in ArpPorts |-> <<>>]
  /\ arpWire' = {}
  /\ IF arpTimeout.configured = DefaultTimeout
     THEN arpTimeout' = [arpTimeout EXCEPT !.cnt = DefaultTimeout] /\ arpInHand' = NoMsg /\ arpTodo' = Idle
     ELSE /\ arpTimeout' = [arpTimeout EXCEPT !.cnt = arpTimeout.configured]
          /\ arpInHand' = [op |-> "notStarted"]
          /\ arpTodo' = Tell([op |-> "cnt", cnt |-> arpTimeout.configured])
  /\ UNCHANGED <<arpAsic, arpMembers, arpL3>>

ArpNext ==
  \/ updateArpCache \/ arpCacheTimeout \/ LoseRequest \/ MainStep \/ Restart
  \/ \E p \in ArpPorts : RxSend(p)
  \/ \E p \in ArpPorts, src \in ArpHosts \cup {zero, self}, dst \in ArpHosts \cup {self}, mac \in ArpMacs :
       RxRequest(p, src, dst, mac)
  \/ \E p \in ArpPorts, src \in ArpHosts, dst \in ArpHosts \cup {self}, mac \in ArpMacs : processIpPkt(p, src, dst, mac)
  \/ \E p \in ArpPorts, ip \in ArpHosts, mac \in ArpMacs : RxReply(p, ip, mac)
  \/ \E i \in ArpIntfs : \/ processIPv4IntfCreate(i) \/ processIPv4IntfDelete(i) \/ processIPv4L3StateDown(i)
                         \/ processL2StateDown(i) \/ processL2StateUp(i) \/ deleteVlanInfra(i)
  \/ \E i \in ArpIntfs, p \in ArpPorts : updateVlanInfra(i, p)
  \/ \E ip \in ArpHosts, i \in ArpIntfs : processResolveIPv4(ip, i) \/ processArpAction(ip, i)
  \/ \E ip \in ArpHosts : processDeleteResolvedIPv4(ip)
  \/ \E t \in ArpTimeouts : processArpConf(t)
  \/ \E ip \in ArpHosts, p \in ArpPorts : processIPv4NbrMacMove(ip, p)

(* Every goroutine runs on, a goroutine blocked on a channel is served in  *)
(* the order of arrival, and a host that is asked for ever answers.        *)
ArpFairness ==
  /\ WF_arpVars(updateArpCache) /\ SF_arpVars(arpCacheTimeout) /\ SF_arpVars(MainStep)
  /\ \A p \in ArpPorts : SF_arpVars(RxSend(p))
  /\ \A ip \in ArpHosts : SF_arpVars(\E p \in ArpPorts, mac \in ArpMacs : RxReply(p, ip, mac))

ArpSpec == ArpInit /\ [][ArpNext]_arpVars /\ ArpFairness

-----------------------------------------------------------------------------
(* Properties *)

(* What the theorem about ARPd supposes of the constants: the names that   *)
(* stand for nothing are no addresses, ports or interfaces, a port is in   *)
(* one VLAN or LAG, and the default timeout is the largest.                *)
ArpConstants ==
  /\ {self, zero} \cap ArpHosts = {} /\ {incomplete, "none"} \cap ArpMacs = {}
  /\ NoIntf \notin ArpIntfs /\ NoArpPort \notin ArpPorts
  /\ ArpMembers0 \in [ArpIntfs -> SUBSET ArpPorts]
  /\ \A i, j \in ArpIntfs : ArpMembers0[i] \cap ArpMembers0[j] # {} => i = j
  /\ ArpTimeouts \subseteq Nat /\ \E t \in ArpTimeouts : \A u \in ArpTimeouts : u =< t
  /\ ArpRetryCnt \in Nat /\ minCnt + ArpRetryCnt + 1 =< DefaultTimeout
  /\ MaxArpEvents \in Nat

ArpTypeOK ==
  /\ arpCache \in [Addresses -> ArpEntry \cup {NoArp}]
  /\ arpAsic \in [Addresses -> ArpMacs \cup {"none"}]
  /\ arpDb \subseteq Addresses \X (ArpIntfs \cup {NoIntf})
  /\ arpPort \in [ArpPorts -> [oper: BOOLEAN, l3: ArpIntfs \cup {NoIntf}, rx: 0..2]]
  /\ arpMembers \in [ArpIntfs -> SUBSET ArpPorts] /\ arpL3 \subseteq ArpIntfs
  /\ arpTimeout \in [cnt: ArpTimeouts, configured: ArpTimeouts]
  /\ arpInHand \in ArpMsg \cup {[op |-> "notStarted"]}
  /\ arpTodo \in ArpTodo
  /\ arpRx \in [ArpPorts -> Seq(ArpMsg)]
  /\ arpWire \subseteq Addresses \X ArpPorts
  /\ arpEvents \in [left: 0..MaxArpEvents, past: SUBSET {"refused", "restart", "twoReceivers", "grown"}]

Complete(ip) == arpCache[ip] # NoArp /\ arpCache[ip].mac # incomplete

(* What the cache shows as resolved is what asicd forwards with, also after *)
(* refused requests and restarts: every path that writes MacAddr talks to   *)
(* asicd first and returns when it fails (arpCache.go).                     *)
CompleteIsInstalled == \A ip \in Addresses : Complete(ip) => arpAsic[ip] = arpCache[ip].mac

(* asicd holds no neighbour the cache has given up, unless asicd refused a  *)
(* request or arpd was restarted: the timer, the flush of a port and the    *)
(* user's deletes all withdraw what they forget.                            *)
NoForgottenNeighbor ==
  arpEvents.past \cap {"refused", "restart"} = {} =>
    \A ip \in Addresses : arpAsic[ip] # "none" => Complete(ip)

(* Between requests of the main goroutine no entry names an interface that  *)
(* is gone, unless asicd refused a delete, the interface grew a port or had *)
(* two receivers on one: processIPv4IntfDelete stops the receiver of a port *)
(* before it flushes the port.                                              *)
EntriesHaveInterface ==
  (arpEvents.past = {} /\ arpTodo = Idle /\ arpInHand = NoMsg) =>
    \A ip \in Addresses : arpCache[ip] # NoArp => arpCache[ip].l3 \in arpL3

(* The main goroutine never waits for a receiver that does not run on a     *)
(* port that has an address: CtrlCh has no other reader.                    *)
StopHasReceiver ==
  (/\ arpTodo.do \in {"detach", "down"} /\ Body(arpTodo.do)[arpTodo.at] = "stop"
   /\ Stops /\ arpPort[arpTodo.port].l3 # NoIntf) => arpPort[arpTodo.port].rx > 0

(* A resolved entry is installed in the hardware with the address the cache *)
(* has, the hardware has no neighbour the cache has given up, entries       *)
(* belong to an interface, and nobody waits for a receiver that is not      *)
(* there (arpCache.go, arpInfra.go), with the exceptions each part names.   *)
ArpSafe == /\ ArpTypeOK /\ CompleteIsInstalled /\ NoForgottenNeighbor
           /\ EntriesHaveInterface /\ StopHasReceiver

(* A next hop RIBd asked for is resolved in the end when its host answers   *)
(* and a port of its interface is up: the counter starts again from         *)
(* timeoutCounter, so the windows in which the entry is asked for return.   *)
NextHopResolves ==
  \A ip \in ArpHosts :
    (arpCache[ip] # NoArp /\ arpCache[ip].rib /\ ~Complete(ip))
      ~> \/ arpCache[ip] = NoArp \/ Complete(ip) \/ arpInHand.op = "notStarted"
         \/ arpCache[ip].l3 \notin arpL3
         \/ \A p \in arpMembers[arpCache[ip].l3] : ~arpPort[p].oper \/ arpPort[p].rx = 0 \/ arpPort[p].l3 = NoIntf

=============================================================================
