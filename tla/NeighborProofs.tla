--------------------------- MODULE NeighborProofs ---------------------------
(***************************************************************************)
(* Proofs about the two daemons that keep the neighbours of an interface:  *)
(* NDPd, for IPv6, with any keys, ports and number of events, and ARPd,    *)
(* for IPv4, with any hosts, ports, VLANs, timeouts and number of events.  *)
(***************************************************************************)
EXTENDS NdpServer, ArpServer, TLAPS

-----------------------------------------------------------------------------
(* NDPd *)


\* Of the interface.  The users of a routed port's handle are counted exactly;
\* a VLAN has no handle of its own, and its count is exact as long as none of
\* its addresses was deleted while it was up.
NdpIntf == [type: {"port", "vlan"}, known: BOOLEAN, vlan: BOOLEAN, addrs: SUBSET NdpScopes, users: 0..255,
            handle: BOOLEAN, tx: BOOLEAN, ra: {"off", "armed", "fired"}, sent: 0..MAX_INITIAL_RTR_ADVERTISEMENTS]
NdpUsers(f, up) ==
  /\ ~f.known => ~f.tx /\ f.users = 0
  /\ f.type = "port" => (f.handle <=> f.users > 0) /\ f.users =< 2
  /\ f.type = "vlan" => ~f.handle
  /\ f.type = "vlan" /\ ~up => f.users =< 2 /\ (f.tx => f.users > 0)
DeletedUp == "deletedUp" \in ndpEvents.past

NdpTables == [info: SUBSET NdpKeys, key: [NdpKeys -> 0..2], hw: [NdpGlobal -> {Mac(k) : k \in NdpKeys} \cup {"none"}]]
NdpEventsOK == ndpEvents \in [left: 0..MaxNdpEvents, past: SUBSET {"refused", "deletedUp"}]
NdpFiredOK == ndpFired \subseteq [key: NdpKeys, fast: BOOLEAN]

\* Of the tables: what asicd has belongs to a neighbour of the server, and
\* neighborKey lists each neighbour once.
NdpOwner(s) == \A ip \in NdpGlobal : s.hw[ip] # "none" => \E k \in s.info : Ip(k) = ip /\ Mac(k) = s.hw[ip]
NdpListed(s) == \A k \in NdpKeys : s.key[k] = IF k \in s.info THEN 1 ELSE 0

\* The inductive invariant: the interface, the physical ports, the tables.
NdpIntfInv == ndpIf \in NdpIntf /\ NdpUsers(ndpIf, DeletedUp) /\ AdvertisesWhileUp
NdpL2Inv == ndpL2 \in [NdpPorts -> [oper: BOOLEAN, rx: BOOLEAN, l3: BOOLEAN, mapped: BOOLEAN]] /\ ReceiverIsMapped
NdpTablesInv == /\ ndpNbr \in [NdpKeys -> Neighbor \cup {NoNbr}] /\ Tables \in NdpTables
                /\ HardwareHasOwner /\ NeighborsAreFlushable /\ KeysListedOnce
NdpInv == NdpIntfInv /\ NdpL2Inv /\ NdpTablesInv /\ NdpEventsOK /\ NdpFiredOK

-----------------------------------------------------------------------------
(* The tables of the server *)

\* Only asicd's table changes when asicd is told.
LEMMA NdpPrograms ==
  ASSUME NEW s \in NdpTables, NEW ip, NEW mac
  PROVE  /\ Program(s, ip, mac).info = s.info /\ Program(s, ip, mac).key = s.key
         /\ Program(s, ip, mac).hw = IF ip \in NdpGlobal THEN [s.hw EXCEPT ![ip] = mac] ELSE s.hw
<1>1. PICK i, c, h : s = [info |-> i, key |-> c, hw |-> h]
  BY DEF NdpTables
<1>. QED  BY <1>1 DEF Program

\* A new neighbour (CreateNeighborInfo): asicd and the tables get it together,
\* unless asicd refuses.
LEMMA NdpCreates ==
  ASSUME NdpConstants, NEW s \in NdpTables, NEW k \in NdpKeys, NEW ok \in BOOLEAN, s.key[k] < 2
  PROVE  /\ CreateNeighborInfo(s, k, ok) \in NdpTables
         /\ NdpOwner(s) => NdpOwner(CreateNeighborInfo(s, k, ok))
         /\ NdpListed(s) /\ k \notin s.info => NdpListed(CreateNeighborInfo(s, k, ok))
         /\ CreateNeighborInfo(s, k, ok).info \subseteq s.info \cup {k}
<1> DEFINE hw == IF Ip(k) \in NdpGlobal THEN [s.hw EXCEPT ![Ip(k)] = Mac(k)] ELSE s.hw
           t == [info |-> s.info \cup {k}, key |-> [s.key EXCEPT ![k] = @ + 1], hw |-> hw]
<1>1. CASE Ip(k) \in NdpGlobal /\ ~ok
  <2>1. CreateNeighborInfo(s, k, ok) = s
    BY <1>1 DEF CreateNeighborInfo
  <2>. QED  BY <2>1
<1>2. CASE ~(Ip(k) \in NdpGlobal /\ ~ok)
  <2>1. CreateNeighborInfo(s, k, ok) = insertNeigborInfo(Program(s, Ip(k), Mac(k)), k)
    BY <1>2 DEF CreateNeighborInfo
  <2>0. /\ Program(s, Ip(k), Mac(k)).info = s.info /\ Program(s, Ip(k), Mac(k)).key = s.key
        /\ Program(s, Ip(k), Mac(k)).hw = hw
    BY NdpPrograms
  <2>2. CreateNeighborInfo(s, k, ok) = t
    BY <2>1, <2>0, Zenon DEF insertNeigborInfo
  <2>3. hw \in [NdpGlobal -> {Mac(j) : j \in NdpKeys} \cup {"none"}]
    BY DEF NdpTables
  <2>4. [s.key EXCEPT ![k] = @ + 1] \in [NdpKeys -> 0..2]
    BY DEF NdpTables
  <2>5. t \in NdpTables
    BY <2>3, <2>4 DEF NdpTables
  <2>6. NdpOwner(s) => NdpOwner(t)
    BY DEF NdpOwner, NdpTables
  <2>7. NdpListed(s) /\ k \notin s.info => NdpListed(t)
    BY DEF NdpListed, NdpTables
  <2>. QED  BY <2>2, <2>5, <2>6, <2>7
<1>. QED  BY <1>1, <1>2

\* A neighbour goes (deleteNeighbor): asicd forgets its address.
LEMMA NdpDeletes ==
  ASSUME NdpConstants, NEW s \in NdpTables, NEW k \in NdpKeys
  PROVE  /\ deleteNeighbor(s, k, TRUE) \in NdpTables
         /\ NdpOwner(s) => NdpOwner(deleteNeighbor(s, k, TRUE))
         /\ NdpListed(s) => NdpListed(deleteNeighbor(s, k, TRUE))
         /\ deleteNeighbor(s, k, TRUE).info \subseteq s.info
<1> DEFINE hw == IF Ip(k) \in NdpGlobal THEN [s.hw EXCEPT ![Ip(k)] = "none"] ELSE s.hw
           t == [info |-> s.info \ {k}, key |-> [s.key EXCEPT ![k] = IF @ > 0 THEN @ - 1 ELSE 0], hw |-> hw]
<1>1. /\ Program(s, Ip(k), "none").info = s.info /\ Program(s, Ip(k), "none").key = s.key
      /\ Program(s, Ip(k), "none").hw = hw
  BY NdpPrograms
<1>2. deleteNeighbor(s, k, TRUE) = t
  BY <1>1, Zenon DEF deleteNeighbor, deleteSvrStateNbrInfo
<1>3. hw \in [NdpGlobal -> {Mac(j) : j \in NdpKeys} \cup {"none"}]
  BY DEF NdpTables
<1>4. [s.key EXCEPT ![k] = IF @ > 0 THEN @ - 1 ELSE 0] \in [NdpKeys -> 0..2]
  BY DEF NdpTables
<1>5. t \in NdpTables
  BY <1>3, <1>4 DEF NdpTables
<1>6. NdpOwner(s) => NdpOwner(t)
  BY DEF NdpOwner, NdpTables
<1>7. NdpListed(s) => NdpListed(t)
  BY DEF NdpListed, NdpTables
<1>8. t.info \subseteq s.info
  OBVIOUS
<1> HIDE DEF t
<1>. QED  BY <1>2, <1>5, <1>6, <1>7, <1>8

\* The neighbours of an interface go (DeleteNeighborInfo): without a refusal
\* asicd forgets the addresses of all of them.
LEMMA NdpFlushes ==
  ASSUME NdpConstants, NEW s \in NdpTables, NEW keys \in SUBSET NdpKeys, NEW ok \in BOOLEAN
  PROVE  /\ DeleteNeighborInfo(s, keys, ok) \in NdpTables
         /\ ok /\ NdpOwner(s) => NdpOwner(DeleteNeighborInfo(s, keys, ok))
         /\ NdpListed(s) => NdpListed(DeleteNeighborInfo(s, keys, ok))
         /\ DeleteNeighborInfo(s, keys, ok).info = s.info \ keys
<1> DEFINE t == DeleteNeighborInfo(s, keys, ok)
<1>1. t.key \in [NdpKeys -> 0..2] /\ t.info \subseteq NdpKeys /\ t.info = s.info \ keys
  BY DEF DeleteNeighborInfo, NdpTables
<1>2. t.hw \in [NdpGlobal -> {Mac(j) : j \in NdpKeys} \cup {"none"}]
  BY DEF DeleteNeighborInfo, NdpTables
<1>3. t \in NdpTables
  BY <1>1, <1>2 DEF DeleteNeighborInfo, NdpTables
<1>4. ok /\ NdpOwner(s) => NdpOwner(t)
  BY DEF NdpOwner, NdpTables, DeleteNeighborInfo
<1>5. NdpListed(s) => NdpListed(t)
  BY DEF NdpListed, NdpTables, DeleteNeighborInfo
<1>. QED  BY <1>1, <1>3, <1>4, <1>5

-----------------------------------------------------------------------------
(* What a step leaves alone *)

\* An event is counted, and what is past stays past.
LEMMA NdpSpends ==
  ASSUME NdpConstants, NdpEventsOK, NEW what \in SUBSET {"refused", "deletedUp"}, Spends(what)
  PROVE  NdpEventsOK' /\ ndpEvents'.past = ndpEvents.past \cup what
<1>1. ndpEvents'.left \in 0..MaxNdpEvents /\ ndpEvents'.past = ndpEvents.past \cup what
  BY DEF NdpEventsOK, Spends, NdpConstants
<1>2. ndpEvents' = [left |-> ndpEvents'.left, past |-> ndpEvents'.past]
  BY DEF Spends
<1>3. ndpEvents.past \cup what \in SUBSET {"refused", "deletedUp"}
  BY DEF NdpEventsOK
<1>. QED  BY <1>1, <1>2, <1>3, Zenon DEF NdpEventsOK

LEMMA NdpFrameIntf ==
  ASSUME NdpIntfInv, ndpIf' = ndpIf, ndpEvents.past \subseteq ndpEvents'.past
  PROVE  NdpIntfInv'
<1>1. DeletedUp => DeletedUp'
  BY DEF DeletedUp
<1>2. NdpUsers(ndpIf', DeletedUp') /\ ndpIf' \in NdpIntf
  BY <1>1 DEF NdpIntfInv, NdpUsers
<1>3. AdvertisesWhileUp'
  BY DEF NdpIntfInv, AdvertisesWhileUp
<1>. QED  BY <1>2, <1>3 DEF NdpIntfInv

LEMMA NdpFrameL2 ==
  ASSUME NdpL2Inv, ndpL2' = ndpL2
  PROVE  NdpL2Inv'
BY DEF NdpL2Inv, ReceiverIsMapped

\* The tables become s, without breaking what s keeps.
LEMMA NdpNewTables ==
  ASSUME NEW s \in NdpTables, SetTables(s), ndpNbr' \in [NdpKeys -> Neighbor \cup {NoNbr}],
         "refused" \notin ndpEvents'.past => NdpOwner(s),
         "deletedUp" \notin ndpEvents'.past => NdpListed(s) /\ \A k \in s.info : ndpNbr'[k] # NoNbr
  PROVE  NdpTablesInv'
<1>1. Tables' = s
  BY DEF Tables, SetTables, NdpTables
<1>2. HardwareHasOwner' /\ NeighborsAreFlushable' /\ KeysListedOnce'
  BY DEF SetTables, HardwareHasOwner, NeighborsAreFlushable, KeysListedOnce, NdpOwner, NdpListed
<1>. QED  BY <1>1, <1>2 DEF NdpTablesInv

\* What the invariant says of the tables as a record.
LEMMA NdpOldTables ==
  ASSUME NdpTablesInv
  PROVE  /\ Tables \in NdpTables
         /\ Tables.info = ndpInfo /\ Tables.key = ndpKey /\ Tables.hw = ndpHw
         /\ "refused" \notin ndpEvents.past => NdpOwner(Tables)
         /\ "deletedUp" \notin ndpEvents.past => NdpListed(Tables) /\ \A k \in ndpInfo : ndpNbr[k] # NoNbr
         /\ ndpInfo \subseteq NdpKeys /\ ndpKey \in [NdpKeys -> 0..2]
BY DEF NdpTablesInv, Tables, NdpTables, HardwareHasOwner, NeighborsAreFlushable, KeysListedOnce, NdpOwner, NdpListed

LEMMA NdpFrameTables ==
  ASSUME NdpTablesInv, UNCHANGED <<ndpNbr, ndpInfo, ndpKey, ndpHw>>, ndpEvents.past \subseteq ndpEvents'.past
  PROVE  NdpTablesInv'
<1>1. SetTables(Tables) /\ ndpNbr' \in [NdpKeys -> Neighbor \cup {NoNbr}]
  BY DEF SetTables, Tables, NdpTablesInv
<1>. QED  BY <1>1, NdpOldTables, NdpNewTables

\* The neighbours of the interface's map change, none is lost.
LEMMA NdpFrameServer ==
  ASSUME NdpTablesInv, UNCHANGED <<ndpInfo, ndpKey, ndpHw>>, ndpEvents.past \subseteq ndpEvents'.past,
         ndpNbr' \in [NdpKeys -> Neighbor \cup {NoNbr}],
         \A k \in NdpKeys : ndpNbr[k] # NoNbr => ndpNbr'[k] # NoNbr
  PROVE  NdpTablesInv'
<1>1. SetTables(Tables)
  BY DEF SetTables, Tables
<1>. QED  BY <1>1, NdpOldTables, NdpNewTables

-----------------------------------------------------------------------------
(* Packets and timers of a neighbour *)

\* The key under which sendUnicastNS, DeleteNeighbor and FlushNeighborPerIp
\* look a neighbour up is never one of the map's.
LEMMA NdpNeverFound ==
  ASSUME NdpConstants, NEW k \in NdpKeys
  PROVE  UnicastKey(Ip(k), Mac(k)) \notin NdpKeys
<1>1. DOMAIN UnicastKey(Ip(k), Mac(k)) = 1..2
  BY DEF UnicastKey
<1>2. 1..2 # 1..3
  <2>1. 3 \in 1..3 /\ 3 \notin 1..2
    OBVIOUS
  <2>. QED  BY <2>1
<1>. QED  BY <1>1, <1>2 DEF NdpConstants

LEMMA NdpNotThere ==
  ASSUME NEW n \in Neighbor
  PROVE  n # NoNbr /\ n.state # "none"
BY DEF Neighbor, NoNbr

\* Every packet leaves an entry in the interface's map.
LEMMA NdpPacketKeeps ==
  ASSUME NEW k \in NdpKeys, ndpNbr[k] \in Neighbor \cup {NoNbr}, NEW n \in ProcessND(k)
  PROVE  n \in Neighbor
<1> DEFINE f == IF ndpNbr[k] # NoNbr THEN ndpNbr[k] ELSE InitCache
<1>1. InitCache \in Neighbor
  BY DEF InitCache, RchTimer, Neighbor, NbrTimers, MAX_UNICAST_SOLICIT
<1>2. f \in Neighbor
  BY <1>1
<1>3. \A m \in Neighbor : /\ RchTimer(m) \in Neighbor /\ UpdateProbe(m) \in Neighbor
                          /\ [m EXCEPT !.state = "REACHABLE"] \in Neighbor
  <2>1. \A m \in Neighbor : RchTimer(m) \in Neighbor
    BY DEF RchTimer, Neighbor, NbrTimers
  <2>2. ASSUME NEW m \in Neighbor PROVE UpdateProbe(m) \in Neighbor
    <3>1. 0 \in 0..MAX_UNICAST_SOLICIT + 1 /\ m.timers \ {"delay", "retransmit"} \in SUBSET NbrTimers
      BY DEF Neighbor, MAX_UNICAST_SOLICIT
    <3>. QED  BY <3>1 DEF UpdateProbe, Neighbor
  <2>3. \A m \in Neighbor : [m EXCEPT !.state = "REACHABLE"] \in Neighbor
    BY DEF Neighbor
  <2>. QED  BY <2>1, <2>2, <2>3
<1>4. /\ processNS(k, TRUE) \in Neighbor /\ processNS(k, FALSE) \in Neighbor
  BY <1>2, <1>3 DEF processNS
<1>5. processNA(k) \in Neighbor /\ processRA(k) \in Neighbor
  <2>1. CASE ndpNbr[k] # NoNbr
    BY <2>1, <1>1, <1>3 DEF processNA, processRA
  <2>2. CASE ndpNbr[k] = NoNbr
    BY <2>2, <1>1, <1>3 DEF processNA, processRA
  <2>. QED  BY <2>1, <2>2
<1>. QED  BY <1>4, <1>5 DEF ProcessND

LEMMA NdpProcessRxPkt ==
  ASSUME NdpConstants, NdpInv, NEW k \in NdpKeys, ProcessRxPkt(k)
  PROVE  NdpInv'
<1> USE DEF NdpInv
<1>1. PICK n \in ProcessND(k), ok \in BOOLEAN :
        /\ ndpNbr' = [ndpNbr EXCEPT ![k] = n]
        /\ SetTables(IF ndpNbr[k] = NoNbr \/ k \notin ndpInfo THEN CreateNeighborInfo(Tables, k, ok) ELSE Tables)
        /\ Spends(IF ok THEN {} ELSE {"refused"})
  BY DEF ProcessRxPkt
<1>2. ndpKey[k] < 2 /\ UNCHANGED <<ndpIf, ndpL2, ndpFired>>
  BY DEF ProcessRxPkt
<1>3. NdpEventsOK' /\ ndpEvents.past \subseteq ndpEvents'.past
  BY <1>1, NdpSpends
<1>4. ndpNbr \in [NdpKeys -> Neighbor \cup {NoNbr}] /\ n \in Neighbor /\ n # NoNbr
  BY <1>1, NdpPacketKeeps, NdpNotThere DEF NdpTablesInv
<1>5. ndpNbr' \in [NdpKeys -> Neighbor \cup {NoNbr}] /\ ndpNbr'[k] # NoNbr
      /\ \A j \in NdpKeys : ndpNbr[j] # NoNbr => ndpNbr'[j] # NoNbr
  BY <1>1, <1>4
<1>6. NdpTablesInv'
  <2>1. CASE ndpNbr[k] = NoNbr \/ k \notin ndpInfo
    <3> DEFINE s == CreateNeighborInfo(Tables, k, ok)
    <3>1. /\ s \in NdpTables
          /\ NdpOwner(Tables) => NdpOwner(s)
          /\ NdpListed(Tables) /\ k \notin ndpInfo => NdpListed(s)
          /\ s.info \subseteq ndpInfo \cup {k}
      BY <1>2, NdpOldTables, NdpCreates
    <3>2. "deletedUp" \notin ndpEvents.past => k \notin ndpInfo
      BY <2>1, NdpOldTables
    <3>3. SetTables(s)
      BY <1>1, <2>1
    <3> HIDE DEF s
    <3>4. "refused" \notin ndpEvents'.past => NdpOwner(s)
      BY <3>1, <1>3, NdpOldTables
    <3>5. "deletedUp" \notin ndpEvents'.past => NdpListed(s) /\ \A j \in s.info : ndpNbr'[j] # NoNbr
      BY <3>1, <3>2, <1>3, <1>5, NdpOldTables
    <3>. QED  BY <3>1, <3>3, <3>4, <3>5, <1>5, NdpNewTables
  <2>2. CASE ~(ndpNbr[k] = NoNbr \/ k \notin ndpInfo)
    <3>1. UNCHANGED <<ndpInfo, ndpKey, ndpHw>>
      BY <1>1, <2>2 DEF SetTables, Tables
    <3>. QED  BY <3>1, <1>3, <1>5, NdpFrameServer
  <2>. QED  BY <2>1, <2>2
<1>. QED  BY <1>2, <1>3, <1>6, NdpFrameIntf, NdpFrameL2 DEF NdpFiredOK

LEMMA NdpRouterLifetimeZero ==
  ASSUME NdpConstants, NdpInv, NEW k \in NdpKeys, RouterLifetimeZero(k)
  PROVE  NdpInv'
<1> USE DEF NdpInv
<1> DEFINE s == deleteNeighbor(Tables, k, TRUE)
<1>1. Spends({}) /\ SetTables(s) /\ UNCHANGED <<ndpIf, ndpNbr, ndpL2, ndpFired>>
  BY DEF RouterLifetimeZero
<1>2. NdpEventsOK' /\ ndpEvents'.past = ndpEvents.past
  BY <1>1, NdpSpends
<1>3. /\ s \in NdpTables /\ (NdpOwner(Tables) => NdpOwner(s)) /\ (NdpListed(Tables) => NdpListed(s))
      /\ s.info \subseteq ndpInfo
  BY NdpOldTables, NdpDeletes
<1> HIDE DEF s
<1>4. NdpTablesInv'
  <2>1. "refused" \notin ndpEvents'.past => NdpOwner(s)
    BY <1>2, <1>3, NdpOldTables
  <2>2. "deletedUp" \notin ndpEvents'.past => NdpListed(s) /\ \A j \in s.info : ndpNbr'[j] # NoNbr
    BY <1>1, <1>2, <1>3, NdpOldTables
  <2>3. ndpNbr' \in [NdpKeys -> Neighbor \cup {NoNbr}]
    BY <1>1 DEF NdpTablesInv
  <2>. QED  BY <1>1, <1>3, <2>1, <2>2, <2>3, NdpNewTables
<1>. QED  BY <1>1, <1>2, <1>4, NdpFrameIntf, NdpFrameL2 DEF NdpFiredOK

LEMMA NdpNbrTimerExpires ==
  ASSUME NdpInv, NEW k \in NdpKeys, NEW t \in NbrTimers, NbrTimerExpires(k, t)
  PROVE  NdpInv'
<1> USE DEF NdpInv
<1>1. UNCHANGED <<ndpIf, ndpL2, ndpInfo, ndpKey, ndpHw, ndpEvents>>
  BY DEF NbrTimerExpires
<1>2. NdpFiredOK'
  <2>1. PICK fast \in BOOLEAN : ndpFired' = ndpFired \cup {[key |-> k, fast |-> fast]}
    BY DEF NbrTimerExpires
  <2>. QED  BY <2>1 DEF NdpFiredOK
<1>3. ndpNbr \in [NdpKeys -> Neighbor \cup {NoNbr}] /\ ndpNbr[k] \in Neighbor
  BY DEF NbrTimerExpires, NdpTablesInv
<1>4. PICK n : n = [ndpNbr[k] EXCEPT !.timers = IF t = "reachable" THEN @ ELSE @ \ {t}]
  OBVIOUS
<1>5. n \in Neighbor
  BY <1>3, <1>4 DEF Neighbor
<1>6. ndpNbr' = [ndpNbr EXCEPT ![k] = n]
  BY <1>3, <1>4 DEF NbrTimerExpires
<1>7. NdpTablesInv'
  BY <1>1, <1>3, <1>5, <1>6, NdpNotThere, NdpFrameServer
<1>. QED  BY <1>1, <1>2, <1>7, NdpFrameIntf, NdpFrameL2 DEF NdpEventsOK

-----------------------------------------------------------------------------
(* The interface *)

\* The fields that only configuration changes.
NdpSame(f, g) == g.type = f.type /\ g.known = f.known /\ g.vlan = f.vlan /\ g.addrs = f.addrs

\* A router advertisement is sent: the timer is armed while there is a handle
\* to send on.
LEMMA NdpSendRA ==
  ASSUME NEW f \in NdpIntf
  PROVE  /\ SendRA(f) \in NdpIntf /\ NdpSame(f, SendRA(f))
         /\ SendRA(f).users = f.users /\ SendRA(f).handle = f.handle /\ SendRA(f).tx = f.tx
         /\ f.tx => SendRA(f).ra # "off"
<1>1. CASE ~f.tx
  BY <1>1 DEF SendRA, RAResTransmitTimer, StopRATimer, NdpIntf, NdpSame
<1>2. CASE f.tx /\ f.ra = "off"
  <2>0. PICK n : n = 0
    OBVIOUS
  <2>1. SendRA(f) = [f EXCEPT !.ra = "armed", !.sent = n]
    BY <1>2, <2>0 DEF SendRA, RAResTransmitTimer
  <2>2. n \in 0..MAX_INITIAL_RTR_ADVERTISEMENTS
    BY <2>0 DEF MAX_INITIAL_RTR_ADVERTISEMENTS
  <2>3. PICK g : g = [f EXCEPT !.ra = "armed"]
    OBVIOUS
  <2>4. g \in NdpIntf /\ NdpSame(f, g) /\ g.users = f.users /\ g.handle = f.handle /\ g.tx = f.tx /\ g.ra = "armed"
    BY <2>3 DEF NdpIntf, NdpSame
  <2>5. SendRA(f) = [g EXCEPT !.sent = n]
    BY <2>1, <2>3
  <2>. QED  BY <2>2, <2>4, <2>5 DEF NdpIntf, NdpSame
<1>3. CASE f.tx /\ f.ra # "off"
  <2>1. PICK n : n = IF f.sent < MAX_INITIAL_RTR_ADVERTISEMENTS THEN f.sent + 1 ELSE f.sent
    OBVIOUS
  <2>2. SendRA(f) = [f EXCEPT !.ra = "armed", !.sent = n]
    BY <1>3, <2>1 DEF SendRA, RAResTransmitTimer
  <2>3. n \in 0..MAX_INITIAL_RTR_ADVERTISEMENTS
    BY <2>1 DEF NdpIntf, MAX_INITIAL_RTR_ADVERTISEMENTS
  <2>. QED  BY <1>3, <2>2, <2>3 DEF NdpIntf, NdpSame
<1>. QED  BY <1>1, <1>2, <1>3

\* A user of the handle less, in the counter's eight bits.
LEMMA NdpDeletePcapUser ==
  ASSUME NEW f \in NdpIntf
  PROVE  /\ deletePcapUser(f) \in NdpIntf /\ NdpSame(f, deletePcapUser(f))
         /\ deletePcapUser(f).handle = f.handle /\ deletePcapUser(f).tx = f.tx /\ deletePcapUser(f).ra = f.ra
         /\ f.users > 0 => deletePcapUser(f).users = f.users - 1
<1>1. PICK u : u = Uint8(f.users - 1)
  OBVIOUS
<1>2. u \in 0..255 /\ (f.users > 0 => u = f.users - 1)
  BY <1>1 DEF Uint8, NdpIntf
<1>3. deletePcapUser(f) = [f EXCEPT !.users = u]
  BY <1>1 DEF deletePcapUser
<1>. QED  BY <1>2, <1>3 DEF NdpIntf, NdpSame

\* The handle goes with its last user.
LEMMA NdpDeletePcap ==
  ASSUME NEW f \in NdpIntf
  PROVE  /\ DeletePcapPort(f) \in NdpIntf /\ NdpSame(f, DeletePcapPort(f))
         /\ DeletePcapPort(f).tx = f.tx /\ DeletePcapPort(f).ra = f.ra
         /\ ~f.handle => DeletePcapPort(f) = f
         /\ f.handle /\ f.users = 1 => ~DeletePcapPort(f).handle /\ DeletePcapPort(f).users = 0
         /\ f.handle /\ f.users = 2 => DeletePcapPort(f).handle /\ DeletePcapPort(f).users = 1
<1>1. CASE ~f.handle
  BY <1>1 DEF DeletePcapPort, NdpSame, NdpIntf
<1>2. CASE f.handle /\ deletePcapUser(f).users = 0
  <2>0. PICK n : n = 0
    OBVIOUS
  <2>1. DeletePcapPort(f) = [f EXCEPT !.users = n, !.handle = FALSE]
    BY <1>2, <2>0 DEF DeletePcapPort
  <2>2. n \in 0..255 /\ n = 0 /\ f.users # 2
    BY <1>2, <2>0, NdpDeletePcapUser DEF NdpIntf
  <2>3. PICK g : g = [f EXCEPT !.users = n]
    OBVIOUS
  <2>4. g \in NdpIntf /\ NdpSame(f, g) /\ g.tx = f.tx /\ g.ra = f.ra /\ g.users = 0
    BY <2>2, <2>3 DEF NdpSame, NdpIntf
  <2>5. PICK b \in BOOLEAN : b = FALSE
    OBVIOUS
  <2>6. PICK h : h = DeletePcapPort(f) /\ h = [g EXCEPT !.handle = b]
    BY <2>1, <2>3, <2>5
  <2>9. h \in NdpIntf /\ NdpSame(g, h) /\ h.tx = g.tx /\ h.ra = g.ra /\ h.users = g.users /\ h.handle = b
    BY <2>4, <2>6 DEF NdpSame, NdpIntf
  <2>7. h \in NdpIntf /\ NdpSame(g, h) /\ h.tx = g.tx /\ h.ra = g.ra /\ h.users = g.users /\ ~h.handle
    BY <2>5, <2>9
  <2>8. h \in NdpIntf /\ NdpSame(f, h) /\ h.tx = f.tx /\ h.ra = f.ra /\ h.users = 0 /\ ~h.handle
    BY <2>4, <2>7 DEF NdpSame
  <2>. QED  BY <1>2, <2>2, <2>6, <2>8
<1>3. CASE f.handle /\ deletePcapUser(f).users # 0
  <2>1. DeletePcapPort(f) = deletePcapUser(f)
    BY <1>3 DEF DeletePcapPort
  <2>. QED  BY <1>3, <2>1, NdpDeletePcapUser
<1>. QED  BY <1>1, <1>2, <1>3

\* An interface that loses its last user stops advertising.
LEMMA NdpDeleteNbrList ==
  ASSUME NEW f \in NdpIntf
  PROVE  /\ deleteNbrList(f) \in NdpIntf /\ NdpSame(f, deleteNbrList(f))
         /\ deleteNbrList(f).users = f.users /\ deleteNbrList(f).handle = f.handle /\ deleteNbrList(f).tx = f.tx
         /\ Flushes(deleteNbrList(f)) <=> Flushes(f)
         /\ ~Flushes(f) => deleteNbrList(f) = f
BY DEF deleteNbrList, StopRATimer, Flushes, NdpIntf, NdpSame

\* The interface's own invariant.
NdpIntfOK(f, up) == f \in NdpIntf /\ NdpUsers(f, up) /\ (f.tx /\ f.users > 0 /\ ~up => f.ra # "off")

LEMMA NdpNewIntf ==
  ASSUME NdpIntfOK(ndpIf', DeletedUp')
  PROVE  NdpIntfInv'
BY DEF NdpIntfOK, NdpIntfInv, AdvertisesWhileUp, DeletedUp

LEMMA NdpOldIntf ==
  ASSUME NdpIntfInv
  PROVE  NdpIntfOK(ndpIf, DeletedUp)
BY DEF NdpIntfOK, NdpIntfInv, AdvertisesWhileUp, DeletedUp

LEMMA NdpRATimer ==
  ASSUME NdpConstants, NdpInv, RATimerExpires
  PROVE  NdpInv'
<1> USE DEF NdpInv
<1>1. ndpIf' = [ndpIf EXCEPT !.ra = "fired"] /\ UNCHANGED <<ndpNbr, ndpL2, ndpInfo, ndpKey, ndpHw, ndpFired, ndpEvents>>
  BY DEF RATimerExpires
<1>2. NdpIntfOK(ndpIf', DeletedUp')
  BY <1>1, NdpOldIntf DEF NdpIntfOK, NdpIntf, NdpUsers, DeletedUp
<1>. QED  BY <1>1, <1>2, NdpNewIntf, NdpFrameL2, NdpFrameTables DEF NdpEventsOK, NdpFiredOK

LEMMA NdpTimerExpiry ==
  ASSUME NdpConstants, NdpInv, ProcessTimerExpiry
  PROVE  NdpInv'
<1> USE DEF NdpInv
<1>1. ASSUME NEW m \in ndpFired,
             LET r == sendUnicastNS(UnicastKey(Ip(m.key), Mac(m.key)), m.fast)
             IN /\ ndpFired' = ndpFired \ {m}
                /\ IF ndpIf.known
                   THEN ndpNbr' = r.nbr /\ SetTables(IF r.op = "DELETE" THEN deleteNeighbor(Tables, m.key, TRUE) ELSE Tables)
                   ELSE UNCHANGED <<ndpNbr, ndpInfo, ndpKey, ndpHw>>
                /\ UNCHANGED <<ndpIf, ndpL2, ndpEvents>>
      PROVE  NdpInv'
  <2>1. m.key \in NdpKeys
    BY DEF NdpFiredOK
  <2>2. sendUnicastNS(UnicastKey(Ip(m.key), Mac(m.key)), m.fast) = [op |-> "IGNORE", nbr |-> ndpNbr]
    BY <2>1, NdpNeverFound DEF sendUnicastNS
  <2>3. UNCHANGED <<ndpNbr, ndpInfo, ndpKey, ndpHw, ndpIf, ndpL2, ndpEvents>> /\ ndpFired' \subseteq ndpFired
    BY <1>1, <2>2 DEF SetTables, Tables
  <2>. QED  BY <2>3, NdpFrameIntf, NdpFrameL2, NdpFrameTables DEF NdpEventsOK, NdpFiredOK
<1>2. ASSUME ndpIf' = SendRA(ndpIf), UNCHANGED <<ndpNbr, ndpL2, ndpInfo, ndpKey, ndpHw, ndpFired, ndpEvents>>
      PROVE  NdpInv'
  <2>1. NdpIntfOK(ndpIf', DeletedUp')
    BY <1>2, NdpOldIntf, NdpSendRA DEF NdpIntfOK, NdpUsers, DeletedUp, NdpSame
  <2>. QED  BY <1>2, <2>1, NdpNewIntf, NdpFrameL2, NdpFrameTables DEF NdpEventsOK, NdpFiredOK
<1>. QED  BY <1>1, <1>2 DEF ProcessTimerExpiry

-----------------------------------------------------------------------------
(* Notifications *)

\* The neighbours are flushed: the server forgets at least what it knew of
\* them, and everything it knew if each could be flushed.
LEMMA NdpFlushAll ==
  ASSUME NdpConstants, NdpTablesInv, NEW ok \in BOOLEAN, ndpEvents.past \subseteq ndpEvents'.past,
         ~ok => "refused" \in ndpEvents'.past,
         ndpNbr' = [k \in NdpKeys |-> NoNbr], SetTables(DeleteNeighborInfo(Tables, FlushNeighbors, ok))
  PROVE  NdpTablesInv'
<1> DEFINE s == DeleteNeighborInfo(Tables, FlushNeighbors, ok)
<1>1. FlushNeighbors \in SUBSET NdpKeys
  BY DEF FlushNeighbors
<1>2. /\ s \in NdpTables /\ s.info = ndpInfo \ FlushNeighbors
      /\ ok /\ NdpOwner(Tables) => NdpOwner(s)
      /\ NdpListed(Tables) => NdpListed(s)
  BY <1>1, NdpOldTables, NdpFlushes
<1> HIDE DEF s
<1>3. "refused" \notin ndpEvents'.past => NdpOwner(s)
  BY <1>2, NdpOldTables
<1>4. "deletedUp" \notin ndpEvents.past => s.info = {}
  BY <1>2, NdpOldTables DEF FlushNeighbors
<1>5. "deletedUp" \notin ndpEvents'.past => NdpListed(s) /\ \A k \in s.info : ndpNbr'[k] # NoNbr
  BY <1>2, <1>4, NdpOldTables
<1>6. ndpNbr' \in [NdpKeys -> Neighbor \cup {NoNbr}]
  OBVIOUS
<1>. QED  BY <1>2, <1>3, <1>5, <1>6, NdpNewTables DEF s

LEMMA NdpIPIntfCreate ==
  ASSUME NdpConstants, NdpInv, NEW a \in NdpScopes, IPIntfCreate(a)
  PROVE  NdpInv'
<1> USE DEF NdpInv
<1>1. Spends({}) /\ UNCHANGED <<ndpNbr, ndpL2, ndpInfo, ndpKey, ndpHw, ndpFired>>
  BY DEF IPIntfCreate
<1>2. NdpEventsOK' /\ ndpEvents'.past = ndpEvents.past
  BY <1>1, NdpSpends
<1>3. NdpIntfOK(ndpIf, DeletedUp) /\ DeletedUp' = DeletedUp
  BY <1>2, NdpOldIntf DEF DeletedUp
<1>4. NdpIntfOK(ndpIf', DeletedUp')
  <2>1. CASE ndpIf.known
    <3>1. ndpIf' = [ndpIf EXCEPT !.addrs = @ \cup {a}]
      BY <2>1 DEF IPIntfCreate
    <3>. QED  BY <1>3, <3>1 DEF NdpIntfOK, NdpIntf, NdpUsers
  <2>2. CASE ~ndpIf.known
    <3>1. ndpIf \in NdpIntf /\ ~ndpIf.tx
      BY <1>3, <2>2 DEF NdpIntfOK, NdpUsers
    <3>2. ndpIf' = [type |-> ndpIf.type, known |-> TRUE, vlan |-> ndpIf.vlan, addrs |-> {a}, users |-> 0,
                    handle |-> FALSE, tx |-> ndpIf.tx, ra |-> "off", sent |-> 0]
      BY <2>2, <3>1 DEF IPIntfCreate, NdpIntf
    <3>3. 0 \in 0..255 /\ 0 \in 0..MAX_INITIAL_RTR_ADVERTISEMENTS /\ {a} \in SUBSET NdpScopes
      BY DEF MAX_INITIAL_RTR_ADVERTISEMENTS
    <3>4. ndpIf' \in NdpIntf
      BY <3>1, <3>2, <3>3, Zenon DEF NdpIntf
    <3>5. /\ ndpIf'.known /\ ~ndpIf'.tx /\ ndpIf'.users = 0 /\ ndpIf'.handle = FALSE
      BY <3>1, <3>2
    <3>. QED  BY <3>4, <3>5 DEF NdpIntfOK, NdpUsers
  <2>. QED  BY <2>1, <2>2
<1>. QED  BY <1>1, <1>2, <1>4, NdpNewIntf, NdpFrameL2, NdpFrameTables DEF NdpFiredOK

LEMMA NdpVlanNotification ==
  ASSUME NdpConstants, NdpInv, HandleVlanNotification
  PROVE  NdpInv'
<1> USE DEF NdpInv
<1>1. Spends({}) /\ UNCHANGED <<ndpNbr, ndpL2, ndpInfo, ndpKey, ndpHw, ndpFired>> /\ ndpIf' = [ndpIf EXCEPT !.vlan = ~@]
  BY DEF HandleVlanNotification
<1>2. NdpEventsOK' /\ ndpEvents'.past = ndpEvents.past
  BY <1>1, NdpSpends
<1>3. NdpIntfOK(ndpIf, DeletedUp) /\ DeletedUp' = DeletedUp
  BY <1>2, NdpOldIntf DEF DeletedUp
<1>4. NdpIntfOK(ndpIf', DeletedUp')
  BY <1>1, <1>3 DEF NdpIntfOK, NdpIntf, NdpUsers
<1>. QED  BY <1>1, <1>2, <1>4, NdpNewIntf, NdpFrameL2, NdpFrameTables DEF NdpFiredOK

LEMMA NdpL2Operstate ==
  ASSUME NdpConstants, NdpInv, NEW q \in NdpPorts, NEW up \in BOOLEAN, updateL2Operstate(q, up)
  PROVE  NdpInv'
<1> USE DEF NdpInv
<1> DEFINE L2 == [oper: BOOLEAN, rx: BOOLEAN, l3: BOOLEAN, mapped: BOOLEAN]
<1>1. Spends({}) /\ UNCHANGED <<ndpIf, ndpNbr, ndpInfo, ndpKey, ndpHw, ndpFired>>
  BY DEF updateL2Operstate
<1>2. NdpEventsOK' /\ ndpEvents'.past = ndpEvents.past
  BY <1>1, NdpSpends
<1>3. ndpL2 \in [NdpPorts -> L2] /\ \A p \in NdpPorts : ndpL2[p].rx => ndpL2[p].mapped
  BY DEF NdpL2Inv, ReceiverIsMapped
<1>4. PICK e \in L2 : e = ndpL2[q]
  BY <1>3
<1>5. PICK n : n = IF ~up THEN [e EXCEPT !.oper = FALSE, !.rx = FALSE, !.mapped = FALSE]
                   ELSE IF ~e.rx /\ e.l3 THEN [e EXCEPT !.oper = TRUE, !.rx = TRUE, !.mapped = TRUE]
                   ELSE [e EXCEPT !.oper = TRUE]
  OBVIOUS
<1>6. n \in L2 /\ (n.rx => n.mapped)
  <2>1. CASE ~up
    BY <2>1, <1>5
  <2>2. CASE up /\ ~e.rx /\ e.l3
    BY <2>2, <1>5
  <2>3. CASE up /\ ~(~e.rx /\ e.l3)
    BY <2>3, <1>3, <1>4, <1>5
  <2>. QED  BY <2>1, <2>2, <2>3
<1>7. ndpL2' = [ndpL2 EXCEPT ![q] = n]
  BY <1>4, <1>5 DEF updateL2Operstate
<1>8. NdpL2Inv'
  BY <1>3, <1>6, <1>7 DEF NdpL2Inv, ReceiverIsMapped
<1>. QED  BY <1>1, <1>2, <1>8, NdpFrameIntf, NdpFrameTables DEF NdpFiredOK

\* The users of a routed port are at most two, so that both go; a VLAN has no
\* handle to give up.
LEMMA NdpDeleteAll ==
  ASSUME NEW f, NEW up, NdpIntfOK(f, up)
  PROVE  /\ DeleteAll(f) \in NdpIntf /\ NdpSame(f, DeleteAll(f)) /\ DeleteAll(f).tx = f.tx
         /\ f.type = "port" => Flushes(DeleteAll(f))
         /\ f.type = "vlan" => DeleteAll(f).users = f.users /\ ~DeleteAll(f).handle
<1> DEFINE g == DeletePcapPort(f)
           h == DeletePcapPort(g)
<1>1. f \in NdpIntf /\ NdpUsers(f, up)
  BY DEF NdpIntfOK
<1>2. /\ g \in NdpIntf /\ NdpSame(f, g) /\ g.tx = f.tx
      /\ (~f.handle => g = f)
      /\ (f.handle /\ f.users = 1 => ~g.handle /\ g.users = 0)
      /\ (f.handle /\ f.users = 2 => g.handle /\ g.users = 1)
  BY <1>1, NdpDeletePcap
<1>3. /\ h \in NdpIntf /\ NdpSame(g, h) /\ h.tx = g.tx
      /\ (~g.handle => h = g)
      /\ (g.handle /\ g.users = 1 => ~h.handle /\ h.users = 0)
  BY <1>2, NdpDeletePcap
<1>4. DeleteAll(f) = deleteNbrList(h)
  BY DEF DeleteAll
<1> HIDE DEF g, h
<1>5. /\ deleteNbrList(h) \in NdpIntf /\ NdpSame(h, deleteNbrList(h))
      /\ deleteNbrList(h).users = h.users /\ deleteNbrList(h).handle = h.handle /\ deleteNbrList(h).tx = h.tx
      /\ (Flushes(deleteNbrList(h)) <=> Flushes(h))
  BY <1>3, NdpDeleteNbrList
<1>6. f.type = "port" => Flushes(h)
  BY <1>1, <1>2, <1>3 DEF NdpUsers, Flushes, NdpIntf
<1>7. f.type = "vlan" => h = f /\ ~f.handle
  BY <1>1, <1>2, <1>3 DEF NdpUsers
<1>8. NdpSame(f, deleteNbrList(h))
  BY <1>2, <1>3, <1>5 DEF NdpSame
<1>. QED  BY <1>2, <1>3, <1>4, <1>5, <1>6, <1>7, <1>8

LEMMA NdpIPIntfDelete ==
  ASSUME NdpConstants, NdpInv, NEW ok \in BOOLEAN, IPIntfDelete(ok)
  PROVE  NdpInv'
<1> USE DEF NdpInv
<1>1. PICK f : f = DeleteAll(ndpIf)
  OBVIOUS
<1>2. /\ ndpIf.known
      /\ Spends((IF ok THEN {} ELSE {"refused"}) \cup (IF Flushes(f) THEN {} ELSE {"deletedUp"}))
      /\ IF Flushes(f) THEN SetTables(DeleteNeighborInfo(Tables, FlushNeighbors, ok)) ELSE UNCHANGED <<ndpInfo, ndpKey, ndpHw>>
      /\ ndpNbr' = [k \in NdpKeys |-> NoNbr]
      /\ ndpIf' = [f EXCEPT !.handle = FALSE, !.users = 0, !.addrs = {}, !.ra = "off"]
      /\ UNCHANGED <<ndpL2, ndpFired>>
  BY <1>1 DEF IPIntfDelete
<1>3. /\ NdpEventsOK' /\ ndpEvents.past \subseteq ndpEvents'.past
      /\ (~ok => "refused" \in ndpEvents'.past)
      /\ (~Flushes(f) => "deletedUp" \in ndpEvents'.past)
  BY <1>2, NdpSpends
<1>4. NdpIntfOK(ndpIf, DeletedUp)
  BY NdpOldIntf
<1>5. /\ f \in NdpIntf /\ NdpSame(ndpIf, f) /\ f.tx = ndpIf.tx
      /\ (f.type = "vlan" => f.users = ndpIf.users /\ ~f.handle)
  BY <1>1, <1>4, NdpDeleteAll DEF NdpSame
<1>6. NdpTablesInv'
  <2>1. CASE Flushes(f)
    BY <2>1, <1>2, <1>3, NdpFlushAll
  <2>2. CASE ~Flushes(f)
    <3>1. SetTables(Tables)
      BY <1>2, <2>2 DEF SetTables, Tables
    <3>2. ndpNbr' \in [NdpKeys -> Neighbor \cup {NoNbr}]
      BY <1>2
    <3>3. "refused" \notin ndpEvents'.past => NdpOwner(Tables)
      BY <1>3, NdpOldTables
    <3>. QED  BY <1>3, <2>2, <3>1, <3>2, <3>3, NdpOldTables, NdpNewTables
  <2>. QED  BY <2>1, <2>2
<1>7. NdpIntfInv'
  <2>1. ndpIf' = [type |-> f.type, known |-> f.known, vlan |-> f.vlan, addrs |-> {}, users |-> 0,
                  handle |-> FALSE, tx |-> f.tx, ra |-> "off", sent |-> f.sent]
    BY <1>2, <1>5 DEF NdpIntf
  <2>2. 0 \in 0..255 /\ {} \in SUBSET NdpScopes
    OBVIOUS
  <2>3. ndpIf' \in NdpIntf
    BY <1>5, <2>1, <2>2 DEF NdpIntf
  <2>4. /\ ndpIf'.known /\ ndpIf'.tx = ndpIf.tx /\ ndpIf'.users = 0 /\ ~ndpIf'.handle
        /\ ndpIf'.type = f.type /\ ndpIf'.type = ndpIf.type
    BY <1>2, <1>5, <2>1 DEF NdpSame
  <2>5. ndpIf.type = "vlan" /\ ~DeletedUp' => ndpIf.users = 0 /\ ~DeletedUp
    BY <1>3, <1>5, <2>4 DEF DeletedUp, Flushes
  <2>6. ndpIf.type = "vlan" /\ ~DeletedUp' => ~ndpIf.tx
    BY <2>5, <1>4 DEF NdpIntfOK, NdpUsers
  <2>7. NdpIntfOK(ndpIf', DeletedUp')
    BY <2>3, <2>4, <2>6 DEF NdpIntfOK, NdpUsers
  <2>. QED  BY <2>7, NdpNewIntf
<1>. QED  BY <1>2, <1>3, <1>6, <1>7, NdpFrameL2 DEF NdpFiredOK

LEMMA NdpStartRxTx ==
  ASSUME NdpConstants, NdpInv, StartRxTx
  PROVE  NdpInv'
<1> USE DEF NdpInv
<1>1. PICK f : f = IF ndpIf.type = "port" THEN CreatePcapPort(ndpIf) ELSE addPcapUser(ndpIf)
  OBVIOUS
<1>2. PICK g : g = IF f.users = 1 THEN [f EXCEPT !.tx = TRUE] ELSE f
  OBVIOUS
<1>3. /\ ndpIf.known /\ ndpIf.users < 2 /\ Spends({})
      /\ ndpIf' = SendRA(g)
      /\ ndpL2' = IF ndpIf.type = "vlan" /\ ndpIf.users = 0 THEN CreatePcapVlan ELSE ndpL2
      /\ UNCHANGED <<ndpNbr, ndpInfo, ndpKey, ndpHw, ndpFired>>
  BY <1>1, <1>2 DEF StartRxTx
<1>4. NdpEventsOK' /\ ndpEvents'.past = ndpEvents.past
  BY <1>3, NdpSpends
<1>5. NdpIntfOK(ndpIf, DeletedUp) /\ DeletedUp' = DeletedUp
  BY <1>4, NdpOldIntf DEF DeletedUp
<1>6. PICK u : u = Uint8(ndpIf.users + 1)
  OBVIOUS
<1>7. u = ndpIf.users + 1 /\ u \in 1..2 /\ ndpIf \in NdpIntf
  BY <1>3, <1>5, <1>6 DEF Uint8, NdpIntfOK, NdpIntf
<1>8. /\ f \in NdpIntf /\ NdpSame(ndpIf, f) /\ f.users = u /\ f.tx = ndpIf.tx
      /\ (ndpIf.type = "port" => f.handle) /\ (ndpIf.type # "port" => f.handle = ndpIf.handle)
  <2>1. CASE ndpIf.type = "port"
    <3>1. PICK h : h = [ndpIf EXCEPT !.handle = TRUE]
      OBVIOUS
    <3>2. h \in NdpIntf /\ NdpSame(ndpIf, h) /\ h.users = ndpIf.users /\ h.tx = ndpIf.tx /\ h.handle
      BY <1>7, <3>1 DEF NdpIntf, NdpSame
    <3>3. f = [h EXCEPT !.users = u]
      BY <1>1, <1>6, <2>1, <3>1, <3>2 DEF CreatePcapPort, addPcapUser
    <3>. QED  BY <1>7, <2>1, <3>2, <3>3 DEF NdpIntf, NdpSame
  <2>2. CASE ndpIf.type # "port"
    <3>1. f = [ndpIf EXCEPT !.users = u]
      BY <1>1, <1>6, <2>2 DEF addPcapUser
    <3>. QED  BY <1>7, <2>2, <3>1 DEF NdpIntf, NdpSame
  <2>. QED  BY <2>1, <2>2
<1>9. /\ g \in NdpIntf /\ NdpSame(ndpIf, g) /\ g.users = u /\ g.handle = f.handle
  BY <1>2, <1>8 DEF NdpIntf, NdpSame
<1>10. NdpIntfOK(ndpIf', DeletedUp')
  <2>1. /\ ndpIf' \in NdpIntf /\ NdpSame(g, ndpIf') /\ ndpIf'.users = u /\ ndpIf'.handle = f.handle
        /\ ndpIf'.tx = g.tx /\ (g.tx => ndpIf'.ra # "off")
    BY <1>3, <1>9, NdpSendRA
  <2>2. ndpIf'.known /\ ndpIf'.type = ndpIf.type
    BY <1>3, <1>9, <2>1 DEF NdpSame
  <2>. QED  BY <1>5, <1>7, <1>8, <2>1, <2>2 DEF NdpIntfOK, NdpUsers
<1>11. NdpL2Inv'
  <2>1. CASE ndpL2' = ndpL2
    BY <2>1, NdpFrameL2
  <2>2. CASE ndpL2' = CreatePcapVlan
    <3> DEFINE L2 == [oper: BOOLEAN, rx: BOOLEAN, l3: BOOLEAN, mapped: BOOLEAN]
    <3>1. ASSUME NEW e \in L2
          PROVE  [e EXCEPT !.rx = e.oper, !.l3 = TRUE, !.mapped = TRUE] \in L2
                 /\ [e EXCEPT !.rx = e.oper, !.l3 = TRUE, !.mapped = TRUE].mapped
      OBVIOUS
    <3>. QED  BY <2>2, <3>1 DEF NdpL2Inv, ReceiverIsMapped, CreatePcapVlan
  <2>. QED  BY <1>3, <2>1, <2>2
<1>. QED  BY <1>3, <1>4, <1>10, <1>11, NdpNewIntf, NdpFrameTables DEF NdpFiredOK

\* An address goes down: on a port the handle's user goes with it; a VLAN's
\* count is decremented while it has a handle to send on.
LEMMA NdpGoesDown ==
  ASSUME NEW f, NEW up, NdpIntfOK(f, up)
  PROVE  LET down == CASE f.type = "port" -> DeleteIntf(f)
                       [] f.type = "vlan" /\ f.tx -> DeleteIntf(deletePcapUser(f))
                       [] OTHER -> f
         IN  NdpSame(f, down) /\ NdpIntfOK(DeleteTXPcap(down), up)
<1>1. f \in NdpIntf /\ NdpUsers(f, up) /\ (f.tx /\ f.users > 0 /\ ~up => f.ra # "off")
  BY DEF NdpIntfOK
<1>2. ASSUME NEW g \in NdpIntf, NdpSame(f, g), g.tx = f.tx, ~f.known => g.users = 0,
             g.type = "port" => (g.handle <=> g.users > 0) /\ g.users =< 2,
             g.type = "vlan" => ~g.handle,
             g.type = "vlan" /\ ~up => g.users =< 2,
             g.tx /\ g.users > 0 /\ ~up => g.ra # "off"
      PROVE  NdpSame(f, deleteNbrList(g)) /\ NdpIntfOK(DeleteTXPcap(deleteNbrList(g)), up)
  <2>1. PICK h : h = deleteNbrList(g)
    OBVIOUS
  <2>2. /\ h \in NdpIntf /\ NdpSame(g, h) /\ h.users = g.users /\ h.handle = g.handle /\ h.tx = g.tx
        /\ (Flushes(h) <=> Flushes(g)) /\ (~Flushes(g) => h = g)
    BY <2>1, NdpDeleteNbrList
  <2>3. NdpSame(f, h)
    BY <1>2, <2>2 DEF NdpSame
  <2>4. CASE ~Flushes(h)
    <3>1. DeleteTXPcap(h) = g /\ h = g
      BY <2>2, <2>4 DEF DeleteTXPcap
    <3>2. NdpUsers(g, up)
      BY <1>1, <1>2, <2>4, <3>1 DEF NdpUsers, NdpSame, Flushes, NdpIntf
    <3>. QED  BY <1>2, <2>1, <2>3, <3>1, <3>2 DEF NdpIntfOK
  <2>5. CASE Flushes(h)
    <3>1. PICK b \in BOOLEAN : b = FALSE
      OBVIOUS
    <3>2. PICK e : e = [h EXCEPT !.tx = b] /\ e = DeleteTXPcap(h)
      BY <2>5, <3>1 DEF DeleteTXPcap
    <3>3. e \in NdpIntf /\ NdpSame(h, e) /\ e.users = h.users /\ e.handle = h.handle /\ e.tx = b
      BY <2>2, <3>2 DEF NdpIntf, NdpSame
    <3>4. ~e.tx /\ e.users = 0 /\ ~e.handle
      BY <2>5, <3>1, <3>3 DEF Flushes
    <3>5. NdpIntfOK(e, up)
      BY <3>3, <3>4 DEF NdpIntfOK, NdpUsers
    <3>. QED  BY <2>1, <2>3, <3>2, <3>5
  <2>. QED  BY <2>4, <2>5
<1>3. CASE f.type = "port"
  <2>1. PICK g : g = DeletePcapPort(f)
    OBVIOUS
  <2>2. /\ g \in NdpIntf /\ NdpSame(f, g) /\ g.tx = f.tx /\ g.ra = f.ra
        /\ (~f.handle => g = f)
        /\ (f.handle /\ f.users = 1 => ~g.handle /\ g.users = 0)
        /\ (f.handle /\ f.users = 2 => g.handle /\ g.users = 1)
    BY <1>1, <2>1, NdpDeletePcap
  <2>3. f.users \in 0..2 /\ (f.handle <=> f.users > 0) /\ (~f.known => f.users = 0) /\ g.type = "port"
    BY <1>1, <1>3, <2>2 DEF NdpUsers, NdpIntf, NdpSame
  <2>4. NdpSame(f, deleteNbrList(g)) /\ NdpIntfOK(DeleteTXPcap(deleteNbrList(g)), up)
    BY <1>1, <1>2, <2>2, <2>3
  <2>. QED  BY <1>3, <2>1, <2>4 DEF DeleteIntf
<1>4. CASE f.type = "vlan" /\ f.tx
  <2>1. PICK d : d = deletePcapUser(f)
    OBVIOUS
  <2>2. /\ d \in NdpIntf /\ NdpSame(f, d) /\ d.handle = f.handle /\ d.tx = f.tx /\ d.ra = f.ra
        /\ (f.users > 0 => d.users = f.users - 1)
    BY <1>1, <2>1, NdpDeletePcapUser
  <2>3. ~f.handle /\ f.known /\ d.type = "vlan" /\ (~up => f.users \in 1..2)
    BY <1>1, <1>4, <2>2 DEF NdpUsers, NdpIntf, NdpSame
  <2>4. DeletePcapPort(d) = d
    BY <2>2, <2>3, NdpDeletePcap
  <2>6. d.tx /\ d.users > 0 /\ ~up => d.ra # "off"
    BY <1>1, <1>4, <2>2, <2>3
  <2>7. d.type = "vlan" /\ ~up => d.users =< 2
    BY <2>2, <2>3
  <2>5. NdpSame(f, deleteNbrList(d)) /\ NdpIntfOK(DeleteTXPcap(deleteNbrList(d)), up)
    BY <1>2, <2>2, <2>3, <2>6, <2>7
  <2>. QED  BY <1>4, <2>1, <2>4, <2>5 DEF DeleteIntf
<1>5. CASE f.type = "vlan" /\ ~f.tx
  <2>1. NdpSame(f, f)
    BY DEF NdpSame
  <2>2. CASE ~Flushes(f)
    BY <1>5, <2>1, <2>2 DEF DeleteTXPcap
  <2>3. CASE Flushes(f)
    <3>1. PICK b \in BOOLEAN : b = FALSE
      OBVIOUS
    <3>2. PICK e : e = [f EXCEPT !.tx = b] /\ e = DeleteTXPcap(f)
      BY <2>3, <3>1 DEF DeleteTXPcap
    <3>3. e \in NdpIntf /\ NdpSame(f, e) /\ e.users = f.users /\ e.handle = f.handle /\ e.tx = b
      BY <1>1, <3>2 DEF NdpIntf, NdpSame
    <3>4. ~e.tx /\ e.users = 0 /\ ~e.handle
      BY <2>3, <3>1, <3>3 DEF Flushes
    <3>5. NdpIntfOK(e, up)
      BY <3>3, <3>4 DEF NdpIntfOK, NdpUsers
    <3>. QED  BY <1>5, <2>1, <3>2, <3>5
  <2>. QED  BY <2>2, <2>3
<1>6. f.type \in {"port", "vlan"} /\ f.tx \in BOOLEAN
  BY <1>1 DEF NdpIntf
<1>. QED  BY <1>3, <1>4, <1>5, <1>6

LEMMA NdpStopRxTx ==
  ASSUME NdpConstants, NdpInv, NEW ok \in BOOLEAN, StopRxTx(ok)
  PROVE  NdpInv'
<1> USE DEF NdpInv
<1>1. PICK down : down = CASE ndpIf.type = "port" -> DeleteIntf(ndpIf)
                           [] ndpIf.type = "vlan" /\ ndpIf.tx -> DeleteIntf(deletePcapUser(ndpIf))
                           [] OTHER -> ndpIf
  OBVIOUS
<1>2. /\ Spends(IF ok THEN {} ELSE {"refused"})
      /\ Flushed(down, ok) \/ UNCHANGED <<ndpNbr, ndpInfo, ndpKey, ndpHw>>
      /\ ndpIf' = DeleteTXPcap(down)
      /\ ndpL2' = DeletePcapVlan \/ ndpL2' = ndpL2
      /\ UNCHANGED ndpFired
  BY <1>1, Zenon DEF StopRxTx
<1>3. /\ NdpEventsOK' /\ ndpEvents.past \subseteq ndpEvents'.past /\ (~ok => "refused" \in ndpEvents'.past)
      /\ ("deletedUp" \in ndpEvents'.past <=> "deletedUp" \in ndpEvents.past)
  BY <1>2, NdpSpends
<1>4. NdpIntfInv'
  <2>1. NdpIntfOK(ndpIf, DeletedUp) /\ (DeletedUp <=> DeletedUp')
    BY <1>3, NdpOldIntf DEF DeletedUp
  <2>2. NdpIntfOK(DeleteTXPcap(down), DeletedUp)
    BY <1>1, <2>1, NdpGoesDown
  <2>3. NdpIntfOK(ndpIf', DeletedUp')
    BY <1>2, <2>1, <2>2 DEF NdpIntfOK, NdpUsers
  <2>. QED  BY <2>3, NdpNewIntf
<1>5. NdpTablesInv'
  <2>1. CASE UNCHANGED <<ndpNbr, ndpInfo, ndpKey, ndpHw>>
    BY <2>1, <1>3, NdpFrameTables
  <2>2. CASE Flushed(down, ok) /\ ~UNCHANGED <<ndpNbr, ndpInfo, ndpKey, ndpHw>>
    <3>1. ndpNbr' = [k \in NdpKeys |-> NoNbr] /\ SetTables(DeleteNeighborInfo(Tables, FlushNeighbors, ok))
      BY <2>2 DEF Flushed
    <3>. QED  BY <1>3, <3>1, NdpFlushAll
  <2>. QED  BY <1>2, <2>1, <2>2
<1>6. NdpL2Inv'
  <2>1. CASE ndpL2' = ndpL2
    BY <2>1, NdpFrameL2
  <2>2. CASE ndpL2' = DeletePcapVlan
    <3> DEFINE L2 == [oper: BOOLEAN, rx: BOOLEAN, l3: BOOLEAN, mapped: BOOLEAN]
    <3>1. ASSUME NEW e \in L2
          PROVE  [e EXCEPT !.rx = FALSE, !.l3 = FALSE, !.mapped = FALSE] \in L2
                 /\ ~[e EXCEPT !.rx = FALSE, !.l3 = FALSE, !.mapped = FALSE].rx
      OBVIOUS
    <3>. QED  BY <2>2, <3>1 DEF NdpL2Inv, ReceiverIsMapped, DeletePcapVlan
  <2>. QED  BY <1>2, <2>1, <2>2
<1>. QED  BY <1>2, <1>3, <1>4, <1>5, <1>6 DEF NdpFiredOK

-----------------------------------------------------------------------------
(* Actions of the user *)

LEMMA NdpActionDeleteByIntf ==
  ASSUME NdpConstants, NdpInv, NEW ok \in BOOLEAN, ActionDeleteByIntf(ok)
  PROVE  NdpInv'
<1> USE DEF NdpInv
<1>1. /\ Spends(IF ok THEN {} ELSE {"refused"}) /\ UNCHANGED <<ndpIf, ndpL2, ndpFired>>
      /\ ndpNbr' = [k \in NdpKeys |-> NoNbr] /\ SetTables(DeleteNeighborInfo(Tables, FlushNeighbors, ok))
  BY DEF ActionDeleteByIntf
<1>2. NdpEventsOK' /\ ndpEvents.past \subseteq ndpEvents'.past /\ (~ok => "refused" \in ndpEvents'.past)
  BY <1>1, NdpSpends
<1>. QED  BY <1>1, <1>2, NdpFlushAll, NdpFrameIntf, NdpFrameL2 DEF NdpFiredOK

\* The three actions that look a neighbour up under the wrong key find none.
LEMMA NdpActionsFindNone ==
  ASSUME NdpConstants, NdpInv,
         \/ \E k \in NdpKeys : ActionDeleteByNbrIp(k) \/ ActionRefreshByNbrIp(k)
         \/ ActionRefreshByIntf
  PROVE  NdpInv'
<1> USE DEF NdpInv
<1>1. ndpNbr \in [NdpKeys -> Neighbor \cup {NoNbr}]
  BY DEF NdpTablesInv
<1>2. ASSUME NEW k \in NdpKeys
      PROVE  DeleteNeighbor(k) = ndpNbr /\ sendUnicastNS(UnicastKey(Ip(k), Mac(k)), FALSE).nbr = ndpNbr
  BY NdpNeverFound DEF DeleteNeighbor, FlushNeighborPerIp, sendUnicastNS
<1>3. RefreshAllNeighbors = [k \in NdpKeys |-> ndpNbr[k]]
  BY NdpNeverFound, Zenon DEF RefreshAllNeighbors
<1>4. Spends({}) /\ UNCHANGED <<ndpIf, ndpL2, ndpInfo, ndpKey, ndpHw, ndpFired, ndpNbr>>
  BY <1>1, <1>2, <1>3 DEF ActionDeleteByNbrIp, ActionRefreshByNbrIp, ActionRefreshByIntf
<1>5. NdpEventsOK' /\ ndpEvents'.past = ndpEvents.past
  BY <1>4, NdpSpends
<1>. QED  BY <1>4, <1>5, NdpFrameIntf, NdpFrameL2, NdpFrameTables DEF NdpFiredOK

-----------------------------------------------------------------------------
\* NDPd starts without neighbours.
LEMMA NdpInitInv ==
  ASSUME NdpConstants, NdpInit
  PROVE  NdpInv
<1>1. NdpEventsOK /\ NdpFiredOK /\ ndpEvents.past = {}
  BY DEF NdpInit, NdpEventsOK, NdpFiredOK, NdpConstants
<1>2. NdpL2Inv
  BY DEF NdpInit, NdpL2Inv, ReceiverIsMapped
<1>3. NdpIntfInv
  <2>1. 0 \in 0..255 /\ 0 \in 0..MAX_INITIAL_RTR_ADVERTISEMENTS
    BY DEF MAX_INITIAL_RTR_ADVERTISEMENTS
  <2>2. ndpIf \in NdpIntf
    <3>1. PICK b \in BOOLEAN, c \in BOOLEAN : b = FALSE /\ c = TRUE
      OBVIOUS
    <3>2. ndpIf \in [type: {"port", "vlan"}, known: BOOLEAN, vlan: {c}, addrs: SUBSET NdpScopes, users: {0},
                    handle: {b}, tx: {b}, ra: {"off"}, sent: {0}]
      BY <3>1 DEF NdpInit
    <3>. QED  BY <2>1, <3>2 DEF NdpIntf
  <2>3. ndpIf.users = 0 /\ ndpIf.tx = FALSE /\ ndpIf.handle = FALSE
    BY DEF NdpInit
  <2>. QED  BY <2>2, <2>3 DEF NdpIntfInv, NdpUsers, AdvertisesWhileUp
<1>4. NdpTablesInv
  <2>1. Tables \in NdpTables /\ ndpNbr \in [NdpKeys -> Neighbor \cup {NoNbr}]
    BY DEF NdpInit, Tables, NdpTables
  <2>2. HardwareHasOwner /\ NeighborsAreFlushable /\ KeysListedOnce
    BY DEF NdpInit, HardwareHasOwner, NeighborsAreFlushable, KeysListedOnce
  <2>. QED  BY <2>1, <2>2 DEF NdpTablesInv
<1>. QED  BY <1>1, <1>2, <1>3, <1>4 DEF NdpInv

LEMMA NdpNextInv ==
  ASSUME NdpConstants, NdpInv, [NdpNext]_ndpVars
  PROVE  NdpInv'
<1>1. CASE UNCHANGED ndpVars
  BY <1>1, NdpFrameIntf, NdpFrameL2, NdpFrameTables DEF ndpVars, NdpInv, NdpEventsOK, NdpFiredOK
<1>2. CASE NdpNext
  BY <1>2, NdpProcessRxPkt, NdpRouterLifetimeZero, NdpNbrTimerExpires, NdpRATimer, NdpTimerExpiry,
     NdpIPIntfCreate, NdpVlanNotification, NdpL2Operstate, NdpIPIntfDelete, NdpStartRxTx, NdpStopRxTx,
     NdpActionDeleteByIntf, NdpActionsFindNone DEF NdpNext
<1>. QED  BY <1>1, <1>2

\* NDPd for every set of neighbours and ports and any number of packets,
\* notifications, user actions and refusals of asicd: what asicd forwards to
\* belongs to a neighbour the server knows, every neighbour can be flushed
\* and is listed once, a physical port that receives leads to its interface,
\* and an interface that is up advertises (ndp/server/pktHandler.go,
\* interface.go, timers.go), with the exceptions the parts of NdpSafe name.
THEOREM NdpIsSafe ==
  ASSUME NdpConstants
  PROVE  NdpSpec => []NdpSafe
<1>1. NdpInit => NdpInv
  BY NdpInitInv
<1>2. NdpInv /\ [NdpNext]_ndpVars => NdpInv'
  BY NdpNextInv
<1>3. NdpInv => NdpSafe
  <2>1. NdpInv => NdpTypeOK
    BY DEF NdpInv, NdpIntfInv, NdpL2Inv, NdpTablesInv, NdpTypeOK, NdpIntf, NdpTables, Tables
  <2>. QED  BY <2>1 DEF NdpInv, NdpIntfInv, NdpL2Inv, NdpTablesInv, NdpSafe
<1>. QED  BY <1>1, <1>2, <1>3, PTL DEF NdpSpec


-----------------------------------------------------------------------------
(* ARPd: the inductive invariant *)

\* The main goroutine has passed the point where it stops the receiver of
\* port p; the ports its request has still to see.
PastStop(p) == arpTodo.port = p /\ arpTodo.do \in {"detach", "down"} /\ arpTodo.at > 1
Visiting == arpTodo.left \cup ({arpTodo.port} \ {NoArpPort})

\* A request is at a step of its body.  One that takes the address away from
\* an interface has still to see every port that has it, and none has it when
\* the interface itself goes.
TodoSane ==
  /\ arpTodo.do = "idle" => arpTodo = Idle
  /\ arpTodo.do \in {"tell", "dropL3", "flush"} => arpTodo.at = 1
  /\ arpTodo.do \in {"down", "resolve"} => arpTodo.at =< 2
  /\ arpTodo.do \in {"detach", "flush", "down", "resolve"} => arpTodo.port \in ArpPorts
  /\ arpTodo.do \in {"tell", "dropL3"} => arpTodo.left = {}
  /\ arpTodo.do # "tell" => arpTodo.msg = NoMsg
  /\ arpTodo.do \in {"detach", "dropL3"} => arpTodo.l3 \in arpL3
  /\ arpTodo.do = "detach" => \A p \in arpMembers[arpTodo.l3] : arpPort[p].l3 # NoIntf => p \in Visiting
  /\ arpTodo.do = "dropL3" => \A p \in arpMembers[arpTodo.l3] : arpPort[p].l3 = NoIntf

\* A port is in one VLAN or LAG, and has an address only with it.
PortsSane ==
  /\ \A i, j \in ArpIntfs : \A p \in arpMembers[i] : p \in arpMembers[j] => i = j
  /\ \A i, j \in arpL3 : i = j
  /\ \A p \in ArpPorts : arpPort[p].l3 # NoIntf => arpPort[p].l3 \in arpL3 /\ p \in arpMembers[arpPort[p].l3]

\* A port that is up and has an address has a receiver, up to the point where
\* it is stopped; a second one is started only where this is so, and only a
\* receiver has updates to send.
Receivers ==
  \A p \in ArpPorts :
    /\ arpPort[p].rx = 0 => arpRx[p] = <<>>
    /\ (arpPort[p].l3 # NoIntf /\ arpPort[p].oper /\ ~PastStop(p)) => arpPort[p].rx > 0
    /\ (arpPort[p].l3 = NoIntf \/ ~arpPort[p].oper \/ PastStop(p)) => arpPort[p].rx =< 1
    /\ \A k \in 1..Len(arpRx[p]) : arpRx[p][k].op = "update" /\ arpRx[p][k].port = p

\* As long as nothing exceptional has happened a port has one receiver at
\* most, and none after that point.
OneReceiver ==
  \A p \in ArpPorts :
    /\ arpPort[p].rx =< 1
    /\ (arpPort[p].l3 = NoIntf \/ ~arpPort[p].oper \/ PastStop(p)) => arpPort[p].rx = 0

\* A message that makes the cache learn an entry on port p, or flush it.
Learns(m, p) == m.op \in {"update", "macMove"} /\ m.port = p
FlushesPort(m, p) == m.op = "flush" /\ m.port = p

\* Then nobody brings an entry to a port without address; an entry has the
\* interface of its port, or the flush of the port is in hand; when a port
\* loses its address the last message it gave has been handled, and its
\* entries are flushed or about to be; and the ports of an interface with an
\* address have it.
LearnsWhereItMay ==
  \A p \in ArpPorts :
    /\ (Learns(arpInHand, p) \/ Learns(arpTodo.msg, p)) => arpPort[p].l3 # NoIntf
    /\ arpRx[p] # <<>> => arpPort[p].l3 # NoIntf
    /\ (arpTodo.do = "resolve" /\ p \in Visiting) => arpPort[p].l3 # NoIntf
EntriesOnPorts ==
  \A ip \in Addresses : arpCache[ip] # NoArp =>
    /\ arpCache[ip].port \in ArpPorts /\ arpCache[ip].l3 \in ArpIntfs
    /\ \/ arpPort[arpCache[ip].port].l3 = arpCache[ip].l3
       \/ FlushesPort(arpInHand, arpCache[ip].port)
FlushedBefore ==
  (arpTodo.do = "detach" /\ arpTodo.at = 3) =>
    /\ ~Learns(arpInHand, arpTodo.port)
    /\ \/ FlushesPort(arpInHand, arpTodo.port)
       \/ \A ip \in Addresses : arpCache[ip] # NoArp => arpCache[ip].port # arpTodo.port
MembersHaveIt ==
  arpTodo.do \notin {"detach", "dropL3"} => \A i \in arpL3 : \A p \in arpMembers[i] : arpPort[p].l3 = i

ArpOrdinary == arpEvents.past = {} =>
  OneReceiver /\ LearnsWhereItMay /\ EntriesOnPorts /\ FlushedBefore /\ MembersHaveIt

ArpInv == /\ ArpTypeOK /\ CompleteIsInstalled /\ NoForgottenNeighbor
          /\ TodoSane /\ PortsSane /\ Receivers /\ ArpOrdinary

-----------------------------------------------------------------------------
(* Types *)

TablesTyped == /\ arpCache \in [Addresses -> ArpEntry \cup {NoArp}]
               /\ arpAsic \in [Addresses -> ArpMacs \cup {"none"}]
               /\ arpDb \subseteq Addresses \X (ArpIntfs \cup {NoIntf})
PortsTyped == /\ arpPort \in [ArpPorts -> [oper: BOOLEAN, l3: ArpIntfs \cup {NoIntf}, rx: 0..2]]
              /\ arpMembers \in [ArpIntfs -> SUBSET ArpPorts] /\ arpL3 \subseteq ArpIntfs
              /\ arpTimeout \in [cnt: ArpTimeouts, configured: ArpTimeouts]
EventsTyped == arpEvents \in [left: 0..MaxArpEvents, past: SUBSET {"refused", "restart", "twoReceivers", "grown"}]
InHandTyped == arpInHand \in ArpMsg \cup {[op |-> "notStarted"]}
WireTyped == arpWire \subseteq Addresses \X ArpPorts
RxTyped == arpRx \in [ArpPorts -> Seq(ArpMsg)]

LEMMA ArpTypes ==
  ArpTypeOK <=> TablesTyped /\ PortsTyped /\ EventsTyped /\ InHandTyped /\ arpTodo \in ArpTodo /\ RxTyped /\ WireTyped
BY DEF ArpTypeOK, TablesTyped, PortsTyped, EventsTyped, InHandTyped, WireTyped, RxTyped

LEMMA ArpTypesNext ==
  ArpTypeOK' <=> /\ TablesTyped' /\ PortsTyped' /\ EventsTyped' /\ InHandTyped' /\ (arpTodo \in ArpTodo)'
                 /\ RxTyped' /\ WireTyped'
BY DEF ArpTypeOK, TablesTyped, PortsTyped, EventsTyped, InHandTyped, WireTyped, RxTyped

\* An entry is not the absence of one.
LEMMA EntryFacts ==
  ASSUME ArpConstants, NEW e \in ArpEntry
  PROVE  /\ e # NoArp /\ e.mac \in ArpMacs \cup {incomplete} /\ e.port \in ArpPorts \cup {NoArpPort}
         /\ e.l3 \in ArpIntfs \cup {NoIntf} /\ e.counter \in 0..DefaultTimeout /\ e.rib \in BOOLEAN
<1>1. e.mac \in ArpMacs \cup {incomplete}  BY DEF ArpEntry
<1>2. e.mac # "none"  BY <1>1 DEF ArpConstants, incomplete
<1>3. e # NoArp  BY <1>2 DEF NoArp
<1>. QED  BY <1>1, <1>3 DEF ArpEntry

LEMMA TimeoutFacts ==
  ASSUME ArpConstants
  PROVE  /\ DefaultTimeout \in ArpTimeouts /\ DefaultTimeout \in Nat
         /\ \A u \in ArpTimeouts : u \in Nat /\ u =< DefaultTimeout
BY DEF ArpConstants, DefaultTimeout

LEMMA MsgFacts ==
  ASSUME NEW m \in ArpMsg \cup {[op |-> "notStarted"]}
  PROVE  /\ m.op = "update" => /\ m.ip \in Addresses /\ m.mac \in ArpMacs \cup {incomplete}
                               /\ m.port \in ArpPorts /\ m.rib \in BOOLEAN
         /\ m.op = "flush" => m.port \in ArpPorts
         /\ m.op = "cnt" => m.cnt \in ArpTimeouts
         /\ m.op = "macMove" => m.ip \in ArpHosts /\ m.port \in ArpPorts
         /\ m.op \in {"ribDelete", "deleteByIp", "refreshByIp"} => m.ip \in ArpHosts
         /\ m.op \in {"deleteByIf", "refreshByIf"} => m.l3 \in ArpIntfs
BY DEF ArpMsg, Addresses, NoMsg

\* asicd may refuse a request only while there are events left.
LEMMA RefuseFacts ==
  ASSUME ArpConstants, EventsTyped, NEW r \in BOOLEAN, r => arpEvents.left > 0, Refuse(r)
  PROVE  /\ EventsTyped' /\ arpEvents.past \subseteq arpEvents'.past
         /\ r => "refused" \in arpEvents'.past
BY DEF EventsTyped, Refuse, ArpConstants

LEMMA EventFacts ==
  ASSUME ArpConstants, EventsTyped, arpEvents.left > 0, NEW new \in SUBSET {"refused", "restart", "twoReceivers", "grown"},
         arpEvents' = [left |-> arpEvents.left - 1, past |-> arpEvents.past \cup new]
  PROVE  /\ EventsTyped' /\ arpEvents.past \subseteq arpEvents'.past /\ new \subseteq arpEvents'.past
         /\ arpEvents'.past = {} => new = {}
<1>1. arpEvents.left \in 0..MaxArpEvents /\ arpEvents.past \in SUBSET {"refused", "restart", "twoReceivers", "grown"}
  BY DEF EventsTyped
<1>2. arpEvents.left - 1 \in 0..MaxArpEvents
  BY <1>1 DEF ArpConstants
<1>3. arpEvents.past \cup new \in SUBSET {"refused", "restart", "twoReceivers", "grown"}
  BY <1>1
<1>. QED  BY <1>2, <1>3 DEF EventsTyped

LEMMA RefusalFacts ==
  ASSUME NEW r \in Refusal
  PROVE  r \in BOOLEAN /\ (r => arpEvents.left > 0)
BY DEF Refusal

LEMMA SpendFacts ==
  ASSUME ArpConstants, EventsTyped, Spend
  PROVE  EventsTyped' /\ arpEvents'.past = arpEvents.past
BY DEF EventsTyped, Spend, ArpConstants

-----------------------------------------------------------------------------
(* The cache goroutine *)

\* What a message may do to the entry of one address: an entry that stays
\* keeps its port and its interface, and is not on a port that was flushed
\* without a refusal; one that comes is on the port of the message.
EntryStep(ip) ==
  /\ arpCache'[ip] \in ArpEntry \cup {NoArp} /\ arpAsic'[ip] \in ArpMacs \cup {"none"}
  /\ (arpCache'[ip] # NoArp /\ arpCache'[ip].mac # incomplete) => arpAsic'[ip] = arpCache'[ip].mac
  /\ ("refused" \notin arpEvents'.past /\ (arpAsic[ip] # "none" => Complete(ip)) /\ arpAsic'[ip] # "none")
       => arpCache'[ip] # NoArp /\ arpCache'[ip].mac # incomplete
  /\ arpCache'[ip] # NoArp =>
       \/ /\ arpCache[ip] # NoArp
          /\ arpCache'[ip].port = arpCache[ip].port /\ arpCache'[ip].l3 = arpCache[ip].l3
          /\ "refused" \notin arpEvents'.past => ~FlushesPort(arpInHand, arpCache[ip].port)
       \/ /\ arpInHand.op = "update" /\ arpCache'[ip].port = arpInHand.port
          /\ arpCache'[ip].l3 = arpPort[arpInHand.port].l3
       \/ /\ arpCache[ip] # NoArp /\ arpInHand.op = "macMove" /\ arpCache'[ip].port = arpInHand.port
          /\ arpCache'[ip].l3 = arpCache[ip].l3

CacheStep ==
  /\ DOMAIN arpCache' = Addresses /\ DOMAIN arpAsic' = Addresses
  /\ arpCache' = [ip \in Addresses |-> arpCache'[ip]] /\ arpAsic' = [ip \in Addresses |-> arpAsic'[ip]]
  /\ \A ip \in Addresses : EntryStep(ip)
  /\ arpDb' \subseteq Addresses \X (ArpIntfs \cup {NoIntf})
  /\ arpInHand' = NoMsg /\ CacheOnly
  /\ WireTyped' /\ EventsTyped' /\ arpEvents.past \subseteq arpEvents'.past

LEMMA CacheStepKeeps ==
  ASSUME ArpConstants, ArpInv, CacheStep
  PROVE  ArpInv'
<1> USE DEF CacheStep
<1>t. TablesTyped /\ PortsTyped /\ EventsTyped /\ InHandTyped /\ arpTodo \in ArpTodo /\ RxTyped /\ WireTyped
  BY ArpTypes DEF ArpInv
<1>u. UNCHANGED <<arpPort, arpMembers, arpL3, arpTodo, arpRx, arpTimeout>>
  BY DEF CacheOnly
<1>1. ArpTypeOK'
  <2>1. TablesTyped'
    BY DEF TablesTyped, EntryStep
  <2>2. PortsTyped' /\ (arpTodo \in ArpTodo)' /\ RxTyped'
    BY <1>t, <1>u DEF PortsTyped, RxTyped
  <2>3. InHandTyped'
    BY DEF InHandTyped, ArpMsg
  <2>. QED  BY <2>1, <2>2, <2>3, ArpTypesNext
<1>2. CompleteIsInstalled'
  BY DEF CompleteIsInstalled, Complete, EntryStep
<1>3. NoForgottenNeighbor'
  <2>1. ASSUME arpEvents'.past \cap {"refused", "restart"} = {}, NEW ip \in Addresses, arpAsic'[ip] # "none"
        PROVE  arpCache'[ip] # NoArp /\ arpCache'[ip].mac # incomplete
    <3>1. arpAsic[ip] # "none" => Complete(ip)
      BY <2>1 DEF ArpInv, NoForgottenNeighbor
    <3>2. EntryStep(ip)  OBVIOUS
    <3>. QED  BY <2>1, <3>1, <3>2 DEF EntryStep
  <2>. QED  BY <2>1 DEF NoForgottenNeighbor, Complete
<1>4. TodoSane' /\ PortsSane' /\ Receivers'
  BY <1>u DEF ArpInv, TodoSane, PortsSane, Receivers, Visiting, PastStop
<1>5. ArpOrdinary'
  <2> SUFFICES ASSUME arpEvents'.past = {}
               PROVE  OneReceiver' /\ LearnsWhereItMay' /\ EntriesOnPorts' /\ FlushedBefore' /\ MembersHaveIt'
    BY DEF ArpOrdinary
  <2>0. OneReceiver /\ LearnsWhereItMay /\ EntriesOnPorts /\ FlushedBefore /\ MembersHaveIt
    BY DEF ArpInv, ArpOrdinary
  <2>1. OneReceiver' /\ MembersHaveIt'
    BY <1>u, <2>0 DEF OneReceiver, MembersHaveIt, PastStop
  <2>2. LearnsWhereItMay'
    BY <1>u, <2>0 DEF LearnsWhereItMay, Visiting, Learns, NoMsg
  <2>3. ASSUME NEW ip \in Addresses, arpCache'[ip] # NoArp
        PROVE  /\ arpCache'[ip].port \in ArpPorts /\ arpCache'[ip].l3 \in ArpIntfs
               /\ arpPort[arpCache'[ip].port].l3 = arpCache'[ip].l3
               /\ \/ Learns(arpInHand, arpCache'[ip].port)
                  \/ /\ arpCache[ip] # NoArp /\ arpCache'[ip].port = arpCache[ip].port
                     /\ ~FlushesPort(arpInHand, arpCache[ip].port)
    <3>1. EntryStep(ip)  OBVIOUS
    <3>2. CASE /\ arpCache[ip] # NoArp
               /\ arpCache'[ip].port = arpCache[ip].port /\ arpCache'[ip].l3 = arpCache[ip].l3
               /\ ~FlushesPort(arpInHand, arpCache[ip].port)
      BY <3>2, <2>0 DEF EntriesOnPorts
    <3>3. CASE /\ arpInHand.op = "update" /\ arpCache'[ip].port = arpInHand.port
               /\ arpCache'[ip].l3 = arpPort[arpInHand.port].l3
      <4>1. arpInHand.port \in ArpPorts  BY <3>3, <1>t, MsgFacts DEF InHandTyped
      <4>2. Learns(arpInHand, arpInHand.port)  BY <3>3 DEF Learns
      <4>3. arpPort[arpInHand.port].l3 # NoIntf  BY <4>1, <4>2, <2>0 DEF LearnsWhereItMay
      <4>. QED  BY <3>3, <4>1, <4>2, <4>3, <1>t DEF PortsTyped
    <3>4. CASE /\ arpCache[ip] # NoArp /\ arpInHand.op = "macMove" /\ arpCache'[ip].port = arpInHand.port
               /\ arpCache'[ip].l3 = arpCache[ip].l3
      <4>1. arpInHand.port \in ArpPorts  BY <3>4, <1>t, MsgFacts DEF InHandTyped
      <4>2. Learns(arpInHand, arpInHand.port)  BY <3>4 DEF Learns
      <4>3. arpPort[arpInHand.port].l3 # NoIntf  BY <4>1, <4>2, <2>0 DEF LearnsWhereItMay
      <4>4. ~FlushesPort(arpInHand, arpCache[ip].port)  BY <3>4 DEF FlushesPort
      <4>5. arpCache[ip].port \in ArpPorts /\ arpCache[ip].l3 \in ArpIntfs /\ arpPort[arpCache[ip].port].l3 = arpCache[ip].l3
        BY <3>4, <4>4, <2>0 DEF EntriesOnPorts
      <4>6. arpPort[arpInHand.port].l3 \in arpL3 /\ arpCache[ip].l3 \in arpL3
        BY <4>1, <4>3, <4>5 DEF ArpInv, PortsSane, ArpConstants
      <4>7. arpPort[arpInHand.port].l3 = arpCache[ip].l3
        BY <4>6 DEF ArpInv, PortsSane
      <4>. QED  BY <3>4, <4>1, <4>2, <4>5, <4>7
    <3>. QED  BY <3>1, <3>2, <3>3, <3>4, <2>3 DEF EntryStep
  <2>4. EntriesOnPorts'
    BY <2>3, <1>u DEF EntriesOnPorts
  <2>5. FlushedBefore'
    <3> SUFFICES ASSUME arpTodo.do = "detach", arpTodo.at = 3
                 PROVE  \A ip \in Addresses : arpCache'[ip] # NoArp => arpCache'[ip].port # arpTodo.port
      BY <1>u DEF FlushedBefore, Learns, NoMsg
    <3>1. ~Learns(arpInHand, arpTodo.port)
      BY <2>0 DEF FlushedBefore
    <3>2. CASE FlushesPort(arpInHand, arpTodo.port)
      BY <2>3, <3>1, <3>2
    <3>3. CASE \A ip \in Addresses : arpCache[ip] # NoArp => arpCache[ip].port # arpTodo.port
      BY <2>3, <3>1, <3>3
    <3>. QED  BY <3>2, <3>3, <2>0 DEF FlushedBefore
  <2>. QED  BY <2>1, <2>2, <2>4, <2>5
<1>. QED  BY <1>1, <1>2, <1>3, <1>4, <1>5 DEF ArpInv

\* What every message starts from.
LEMMA CacheNow ==
  ASSUME ArpConstants, ArpInv
  PROVE  /\ TablesTyped /\ PortsTyped /\ EventsTyped /\ InHandTyped /\ WireTyped
         /\ arpTimeout.cnt \in 0..DefaultTimeout
         /\ \A ip \in Addresses : Complete(ip) => arpAsic[ip] = arpCache[ip].mac
<1>1. TablesTyped /\ PortsTyped /\ EventsTyped /\ InHandTyped /\ WireTyped
  BY ArpTypes DEF ArpInv
<1>2. arpTimeout.cnt \in 0..DefaultTimeout
  BY <1>1, TimeoutFacts DEF PortsTyped
<1>. QED  BY <1>1, <1>2 DEF ArpInv, CompleteIsInstalled

\* An entry that stays as it is, or is forgotten with its neighbour.
LEMMA EntryStays ==
  ASSUME ArpConstants, ArpInv, NEW ip \in Addresses, arpCache'[ip] = arpCache[ip], arpAsic'[ip] = arpAsic[ip],
         "refused" \notin arpEvents'.past => ~FlushesPort(arpInHand, arpCache[ip].port)
  PROVE  EntryStep(ip)
BY CacheNow DEF EntryStep, Complete, TablesTyped

LEMMA EntryGoes ==
  ASSUME ArpConstants, ArpInv, NEW ip \in Addresses, arpCache'[ip] = NoArp,
         arpAsic'[ip] = "none" \/ (arpAsic'[ip] = arpAsic[ip] /\ (~Complete(ip) \/ "refused" \in arpEvents'.past))
  PROVE  EntryStep(ip)
BY CacheNow DEF EntryStep, Complete, TablesTyped

\* An entry whose port and interface stay, and whose hardware address stays or
\* is withdrawn from asicd.
LEMMA EntryChanges ==
  ASSUME ArpConstants, ArpInv, NEW ip \in Addresses, arpCache[ip] # NoArp, arpCache'[ip] \in ArpEntry,
         arpCache'[ip].port = arpCache[ip].port, arpCache'[ip].l3 = arpCache[ip].l3, arpInHand.op # "flush",
         \/ arpCache'[ip].mac = arpCache[ip].mac /\ arpAsic'[ip] = arpAsic[ip]
         \/ arpCache'[ip].mac = incomplete /\ arpAsic'[ip] = "none"
         \/ arpCache'[ip].mac = incomplete /\ arpAsic'[ip] = arpAsic[ip] /\ ~Complete(ip)
  PROVE  EntryStep(ip)
<1>1. arpCache'[ip] # NoArp  BY EntryFacts
<1>. QED  BY <1>1, CacheNow DEF EntryStep, Complete, TablesTyped, FlushesPort

\* processArpEntryUpdateMsg
LEMMA UpdateEntry ==
  ASSUME ArpConstants, ArpInv, processArpEntryUpdateMsg
  PROVE  CacheStep
<1> DEFINE m == arpInHand
           ent == arpCache[m.ip]
           i == arpPort[m.port].l3
           same == ent # NoArp /\ ent.mac = m.mac /\ ent.port = m.port /\ ent.l3 = i
           keep == ent # NoArp /\ ent.mac # incomplete /\ m.mac = incomplete
           new == [mac |-> m.mac, port |-> m.port, l3 |-> i, counter |-> arpTimeout.cnt,
                   rib |-> m.rib \/ (ent # NoArp /\ ent.rib)]
<1>t. TablesTyped /\ PortsTyped /\ EventsTyped /\ InHandTyped /\ WireTyped /\ arpTimeout.cnt \in 0..DefaultTimeout
  BY CacheNow
<1>0. m.op = "update" /\ arpInHand' = NoMsg /\ CacheOnly /\ UNCHANGED arpWire
  BY DEF processArpEntryUpdateMsg, Handled
<1>m. m.ip \in Addresses /\ m.mac \in ArpMacs \cup {incomplete} /\ m.port \in ArpPorts /\ m.rib \in BOOLEAN
  BY <1>0, <1>t, MsgFacts DEF InHandTyped
<1>i. i \in ArpIntfs \cup {NoIntf}
  BY <1>m, <1>t DEF PortsTyped
<1>f. \A ip \in Addresses : ~FlushesPort(arpInHand, arpCache[ip].port)
  BY <1>0 DEF FlushesPort
<1>w. WireTyped'
  BY <1>0, <1>t DEF WireTyped
<1>1. CASE UNCHANGED <<arpCache, arpAsic, arpDb, arpEvents>>
  BY <1>1, <1>0, <1>f, <1>w, <1>t, EntryStays DEF CacheStep, TablesTyped, EventsTyped
<1>e. ent # NoArp => ent \in ArpEntry
  BY <1>m, <1>t DEF TablesTyped
<1>2. CASE /\ ent # NoArp /\ arpCache' = [arpCache EXCEPT ![m.ip].counter = arpTimeout.cnt]
           /\ UNCHANGED <<arpAsic, arpDb, arpEvents>>
  <2>1. arpCache'[m.ip] = [ent EXCEPT !.counter = arpTimeout.cnt]
    BY <1>2, <1>m, <1>t DEF TablesTyped
  <2>2. /\ arpCache'[m.ip] \in ArpEntry /\ arpCache'[m.ip].mac = ent.mac
        /\ arpCache'[m.ip].port = ent.port /\ arpCache'[m.ip].l3 = ent.l3
    BY <2>1, <1>2, <1>e, <1>t DEF ArpEntry
  <2>3. EntryStep(m.ip)
    BY <2>2, <1>2, <1>m, <1>0, EntryChanges
  <2>4. \A ip \in Addresses \ {m.ip} : EntryStep(ip)
    BY <1>2, <1>f, <1>t, EntryStays DEF TablesTyped
  <2>. QED  BY <1>2, <2>3, <2>4, <1>0, <1>w, <1>t DEF CacheStep, TablesTyped, EventsTyped
<1>3. CASE /\ ent # NoArp /\ arpCache' = [arpCache EXCEPT ![m.ip].rib = @ \/ m.rib]
           /\ UNCHANGED <<arpAsic, arpDb, arpEvents>>
  <2>0. PICK b \in BOOLEAN : arpCache' = [arpCache EXCEPT ![m.ip].rib = b]
    <3>1. (ent.rib \/ m.rib) \in BOOLEAN  OBVIOUS
    <3>. QED  BY <3>1, <1>3
  <2>1. arpCache'[m.ip] = [ent EXCEPT !.rib = b]
    BY <2>0, <1>m, <1>t DEF TablesTyped
  <2>2. /\ arpCache'[m.ip] \in ArpEntry /\ arpCache'[m.ip].mac = ent.mac
        /\ arpCache'[m.ip].port = ent.port /\ arpCache'[m.ip].l3 = ent.l3
    BY <2>1, <1>3, <1>e DEF ArpEntry
  <2>3. EntryStep(m.ip)
    BY <2>2, <1>3, <1>m, <1>0, EntryChanges
  <2>4. \A ip \in Addresses \ {m.ip} : EntryStep(ip)
    BY <1>3, <2>0, <1>f, <1>t, EntryStays DEF TablesTyped
  <2>. QED  BY <1>3, <2>0, <2>3, <2>4, <1>0, <1>w, <1>t DEF CacheStep, TablesTyped, EventsTyped
<1>4. CASE /\ ~keep
           /\ \E refused \in IF m.mac = incomplete THEN {FALSE} ELSE Refusal :
                /\ Refuse(refused)
                /\ arpAsic' = IF refused \/ m.mac = incomplete THEN arpAsic ELSE [arpAsic EXCEPT ![m.ip] = m.mac]
                /\ arpCache' = IF refused THEN arpCache ELSE [arpCache EXCEPT ![m.ip] = new]
                /\ arpDb' = IF refused \/ ent # NoArp THEN arpDb ELSE storeArpEntryInDB(arpDb, m.ip, i)
  <2>1. PICK refused \in IF m.mac = incomplete THEN {FALSE} ELSE Refusal :
                /\ Refuse(refused)
                /\ arpAsic' = IF refused \/ m.mac = incomplete THEN arpAsic ELSE [arpAsic EXCEPT ![m.ip] = m.mac]
                /\ arpCache' = IF refused THEN arpCache ELSE [arpCache EXCEPT ![m.ip] = new]
                /\ arpDb' = IF refused \/ ent # NoArp THEN arpDb ELSE storeArpEntryInDB(arpDb, m.ip, i)
    BY <1>4
  <2>2. refused \in BOOLEAN /\ (refused => arpEvents.left > 0)
    BY <2>1, RefusalFacts
  <2>3. EventsTyped' /\ arpEvents.past \subseteq arpEvents'.past
    BY <2>1, <2>2, <1>t, RefuseFacts
  <2>4. arpDb' \subseteq Addresses \X (ArpIntfs \cup {NoIntf})
    BY <2>1, <1>m, <1>i, <1>t DEF TablesTyped, storeArpEntryInDB
  <2>5. CASE refused
    BY <2>1, <2>3, <2>4, <2>5, <1>0, <1>f, <1>w, <1>t, EntryStays DEF CacheStep, TablesTyped
  <2>6. CASE ~refused
    <3>1. PICK r \in BOOLEAN : new = [mac |-> m.mac, port |-> m.port, l3 |-> i, counter |-> arpTimeout.cnt, rib |-> r]
      <4>1. (m.rib \/ (ent # NoArp /\ ent.rib)) \in BOOLEAN  OBVIOUS
      <4>. QED  BY <4>1
    <3>2. new \in ArpEntry /\ new.mac = m.mac /\ new.port = m.port /\ new.l3 = i
      BY <3>1, <1>m, <1>i, <1>t DEF ArpEntry
    <3>3. arpCache' = [arpCache EXCEPT ![m.ip] = new] /\ arpCache'[m.ip] = new
      BY <2>1, <2>6, <1>m, <1>t DEF TablesTyped
    <3>4. \A ip \in Addresses \ {m.ip} : EntryStep(ip)
      <4> HIDE DEF new
      <4>1. \A ip \in Addresses \ {m.ip} : arpCache'[ip] = arpCache[ip] /\ arpAsic'[ip] = arpAsic[ip]
        BY <3>3, <2>1, <2>6, <1>m, <1>t DEF TablesTyped
      <4>. QED  BY <4>1, <1>f, EntryStays
    <3>5. EntryStep(m.ip)
      <4> HIDE DEF new
      <4>1. arpAsic'[m.ip] = IF m.mac = incomplete THEN arpAsic[m.ip] ELSE m.mac
        BY <2>1, <2>6, <1>m, <1>t DEF TablesTyped
      <4>2. arpAsic'[m.ip] \in ArpMacs \cup {"none"}
        BY <4>1, <1>m, <1>t DEF TablesTyped
      <4>3. m.mac = incomplete => ~Complete(m.ip)
        BY <1>4 DEF Complete
      <4>4. new # NoArp  BY <3>2, EntryFacts
      <4>. QED  BY <3>2, <3>3, <4>1, <4>2, <4>3, <4>4, <1>0, <1>m DEF EntryStep
    <3>6. /\ DOMAIN arpCache' = Addresses /\ DOMAIN arpAsic' = Addresses
          /\ arpCache' = [ip \in Addresses |-> arpCache'[ip]] /\ arpAsic' = [ip \in Addresses |-> arpAsic'[ip]]
      <4> HIDE DEF new
      <4>. QED  BY <3>3, <2>1, <2>6, <1>t DEF TablesTyped
    <3>. QED  BY <3>4, <3>5, <3>6, <2>3, <2>4, <1>0, <1>w DEF CacheStep
  <2>. QED  BY <2>2, <2>5, <2>6
<1>. QED
  <2>1. \/ UNCHANGED <<arpCache, arpAsic, arpDb, arpEvents>>
        \/ /\ same /\ arpCache' = [arpCache EXCEPT ![m.ip].counter = arpTimeout.cnt]
           /\ UNCHANGED <<arpAsic, arpDb, arpEvents>>
        \/ /\ keep /\ arpCache' = [arpCache EXCEPT ![m.ip].rib = @ \/ m.rib]
           /\ UNCHANGED <<arpAsic, arpDb, arpEvents>>
        \/ /\ ~keep
           /\ \E refused \in IF m.mac = incomplete THEN {FALSE} ELSE Refusal :
                /\ Refuse(refused)
                /\ arpAsic' = IF refused \/ m.mac = incomplete THEN arpAsic ELSE [arpAsic EXCEPT ![m.ip] = m.mac]
                /\ arpCache' = IF refused THEN arpCache ELSE [arpCache EXCEPT ![m.ip] = new]
                /\ arpDb' = IF refused \/ ent # NoArp THEN arpDb ELSE storeArpEntryInDB(arpDb, m.ip, i)
    BY DEF processArpEntryUpdateMsg
  <2>. QED  BY <2>1, <1>1, <1>2, <1>3, <1>4

\* processArpEntryDeleteMsg: without a refusal nothing is left on the port.
LEMMA FlushPort ==
  ASSUME ArpConstants, ArpInv, processArpEntryDeleteMsg
  PROVE  CacheStep
<1> DEFINE mine == {ip \in Addresses : arpCache[ip] # NoArp /\ arpCache[ip].port = arpInHand.port}
<1>t. TablesTyped /\ PortsTyped /\ EventsTyped /\ InHandTyped /\ WireTyped
  BY CacheNow
<1>0. arpInHand' = NoMsg /\ CacheOnly /\ UNCHANGED arpWire /\ arpDb' = arpDb
  BY DEF processArpEntryDeleteMsg, Handled, deleteArpEntryInDB
<1>1. PICK refused \in IF mine = {} THEN {FALSE} ELSE Refusal :
      \E gone \in IF refused THEN {g \in SUBSET mine : g # mine} ELSE {mine} :
          /\ Refuse(refused)
          /\ arpAsic' = [ip \in Addresses |-> IF ip \in gone THEN "none" ELSE arpAsic[ip]]
          /\ arpCache' = [ip \in Addresses |-> IF ip \in gone THEN NoArp ELSE arpCache[ip]]
  BY DEF processArpEntryDeleteMsg
<1>2. PICK gone \in IF refused THEN {g \in SUBSET mine : g # mine} ELSE {mine} :
          /\ Refuse(refused)
          /\ arpAsic' = [ip \in Addresses |-> IF ip \in gone THEN "none" ELSE arpAsic[ip]]
          /\ arpCache' = [ip \in Addresses |-> IF ip \in gone THEN NoArp ELSE arpCache[ip]]
  BY <1>1
<1>3. refused \in BOOLEAN /\ (refused => arpEvents.left > 0)
  BY <1>1, RefusalFacts
<1>4. EventsTyped' /\ arpEvents.past \subseteq arpEvents'.past /\ (refused => "refused" \in arpEvents'.past)
  BY <1>2, <1>3, <1>t, RefuseFacts
<1>5. ASSUME NEW ip \in Addresses PROVE EntryStep(ip)
  <2>1. CASE ip \in gone
    BY <2>1, <1>2, EntryGoes
  <2>2. CASE ip \notin gone
    <3>1. arpCache'[ip] = arpCache[ip] /\ arpAsic'[ip] = arpAsic[ip]
      BY <2>2, <1>2
    <3>2. CASE arpCache[ip] = NoArp
      BY <3>1, <3>2, <1>t DEF EntryStep, TablesTyped, Complete
    <3>3. CASE arpCache[ip] # NoArp
      <4>1. "refused" \notin arpEvents'.past => ~FlushesPort(arpInHand, arpCache[ip].port)
        BY <1>2, <1>4, <2>2, <3>3 DEF FlushesPort
      <4>. QED  BY <3>1, <4>1, EntryStays
    <3>. QED  BY <3>2, <3>3
  <2>. QED  BY <2>1, <2>2
<1>6. WireTyped' /\ arpDb' \subseteq Addresses \X (ArpIntfs \cup {NoIntf})
  BY <1>0, <1>t DEF WireTyped, TablesTyped
<1>. QED  BY <1>0, <1>2, <1>4, <1>5, <1>6 DEF CacheStep

\* processArpEntryCntUpdateMsg and processArpEntryMacMoveMsg
LEMMA LowerCounters ==
  ASSUME ArpConstants, ArpInv, processArpEntryCntUpdateMsg
  PROVE  CacheStep
<1>t. TablesTyped /\ PortsTyped /\ EventsTyped /\ InHandTyped /\ WireTyped
  BY CacheNow
<1>0. /\ arpInHand.op = "cnt" /\ arpInHand' = NoMsg /\ CacheOnly /\ UNCHANGED <<arpAsic, arpDb, arpWire, arpEvents>>
      /\ arpCache' = [ip \in Addresses |->
                        IF arpCache[ip] # NoArp /\ arpCache[ip].counter > arpInHand.cnt
                        THEN [arpCache[ip] EXCEPT !.counter = arpInHand.cnt] ELSE arpCache[ip]]
  BY DEF processArpEntryCntUpdateMsg, Handled
<1>1. arpInHand.cnt \in 0..DefaultTimeout
  BY <1>0, <1>t, MsgFacts, TimeoutFacts DEF InHandTyped
<1>2. ASSUME NEW ip \in Addresses PROVE EntryStep(ip)
  <2>1. CASE arpCache[ip] # NoArp /\ arpCache[ip].counter > arpInHand.cnt
    <3>1. arpCache[ip] \in ArpEntry  BY <2>1, <1>t DEF TablesTyped
    <3>2. arpCache'[ip] = [arpCache[ip] EXCEPT !.counter = arpInHand.cnt]
      BY <2>1, <1>0
    <3>3. /\ arpCache'[ip] \in ArpEntry /\ arpCache'[ip].mac = arpCache[ip].mac
          /\ arpCache'[ip].port = arpCache[ip].port /\ arpCache'[ip].l3 = arpCache[ip].l3
      BY <3>1, <3>2, <1>1 DEF ArpEntry
    <3>. QED  BY <3>3, <2>1, <1>0, EntryChanges
  <2>2. CASE ~(arpCache[ip] # NoArp /\ arpCache[ip].counter > arpInHand.cnt)
    BY <2>2, <1>0, EntryStays DEF FlushesPort
  <2>. QED  BY <2>1, <2>2
<1>. QED  BY <1>0, <1>2, <1>t DEF CacheStep, TablesTyped, WireTyped, EventsTyped

LEMMA MoveEntry ==
  ASSUME ArpConstants, ArpInv, processArpEntryMacMoveMsg
  PROVE  CacheStep
<1>t. TablesTyped /\ PortsTyped /\ EventsTyped /\ InHandTyped /\ WireTyped
  BY CacheNow
<1>0. /\ arpInHand.op = "macMove" /\ arpInHand' = NoMsg /\ CacheOnly /\ UNCHANGED <<arpAsic, arpDb, arpWire, arpEvents>>
      /\ arpCache' = IF arpCache[arpInHand.ip] = NoArp THEN arpCache
                     ELSE [arpCache EXCEPT ![arpInHand.ip].port = arpInHand.port]
  BY DEF processArpEntryMacMoveMsg, Handled
<1>1. arpInHand.ip \in Addresses /\ arpInHand.port \in ArpPorts
  BY <1>0, <1>t, MsgFacts DEF InHandTyped, Addresses
<1>2. ASSUME NEW ip \in Addresses PROVE EntryStep(ip)
  <2>1. CASE ip = arpInHand.ip /\ arpCache[ip] # NoArp
    <3>1. arpCache[ip] \in ArpEntry  BY <2>1, <1>t DEF TablesTyped
    <3>2. arpCache'[ip] = [arpCache[ip] EXCEPT !.port = arpInHand.port]
      BY <2>1, <1>0, <1>t DEF TablesTyped
    <3>3. /\ arpCache'[ip] \in ArpEntry /\ arpCache'[ip].mac = arpCache[ip].mac
          /\ arpCache'[ip].port = arpInHand.port /\ arpCache'[ip].l3 = arpCache[ip].l3
      BY <3>1, <3>2, <1>1 DEF ArpEntry
    <3>4. arpAsic'[ip] = arpAsic[ip]  BY <1>0
    <3>5. Complete(ip) => arpAsic[ip] = arpCache[ip].mac  BY CacheNow
    <3>6. arpAsic[ip] \in ArpMacs \cup {"none"}  BY <1>t DEF TablesTyped
    <3>. QED  BY <3>3, <3>4, <3>5, <3>6, <2>1, <1>0, EntryFacts DEF EntryStep, Complete
  <2>2. CASE ~(ip = arpInHand.ip /\ arpCache[ip] # NoArp)
    <3>1. arpCache'[ip] = arpCache[ip] /\ arpAsic'[ip] = arpAsic[ip]
      BY <2>2, <1>0, <1>t DEF TablesTyped
    <3>. QED  BY <3>1, <1>0, EntryStays DEF FlushesPort
  <2>. QED  BY <2>1, <2>2
<1>3. DOMAIN arpCache' = Addresses /\ arpCache' = [ip \in Addresses |-> arpCache'[ip]]
  BY <1>0, <1>t DEF TablesTyped
<1>. QED  BY <1>0, <1>2, <1>3, <1>t DEF CacheStep, TablesTyped, WireTyped, EventsTyped

\* A refusal for some of the neighbours that are withdrawn.
LEMMA RefuseSome ==
  ASSUME ArpConstants, EventsTyped, NEW installed, NEW refused \in {r \in SUBSET installed : r = {} \/ TRUE \in Refusal},
         Refuse(refused # {})
  PROVE  /\ EventsTyped' /\ arpEvents.past \subseteq arpEvents'.past
         /\ refused # {} => "refused" \in arpEvents'.past
<1>1. PICK b \in BOOLEAN : b <=> refused # {}
  OBVIOUS
<1>2. b => arpEvents.left > 0
  BY <1>1 DEF Refusal
<1>3. Refuse(b)
  BY <1>1 DEF Refuse
<1>. QED  BY <1>1, <1>2, <1>3, RefuseFacts

LEMMA ResetFacts ==
  ASSUME ArpConstants, ArpInv, NEW e \in ArpEntry
  PROVE  /\ Reset(e) \in ArpEntry /\ Reset(e).mac = incomplete
         /\ Reset(e).port = e.port /\ Reset(e).l3 = e.l3
BY CacheNow DEF Reset, ArpEntry

\* Deletes and refreshes, of one address or of an interface.
LEMMA WithdrawForget ==
  ASSUME ArpConstants, ArpInv, NEW ips, ips \subseteq {ip \in Addresses : arpCache[ip] # NoArp},
         Withdraw(ips, Forget), arpInHand.op # "flush", arpInHand' = NoMsg, CacheOnly, UNCHANGED <<arpDb, arpWire>>
  PROVE  CacheStep
<1> DEFINE installed == {ip \in ips : arpCache[ip].mac # incomplete}
<1>t. TablesTyped /\ PortsTyped /\ EventsTyped /\ InHandTyped /\ WireTyped
  BY CacheNow
<1>1. PICK refused \in {r \in SUBSET installed : r = {} \/ TRUE \in Refusal} :
       /\ Refuse(refused # {})
       /\ arpAsic' = [ip \in Addresses |-> IF ip \in installed \ refused THEN "none" ELSE arpAsic[ip]]
       /\ arpCache' = [ip \in Addresses |-> IF ip \in ips \ refused THEN NoArp ELSE arpCache[ip]]
  BY DEF Withdraw, Forget
<1>2. EventsTyped' /\ arpEvents.past \subseteq arpEvents'.past
  BY <1>1, <1>t, RefuseSome
<1>3. ASSUME NEW ip \in Addresses PROVE EntryStep(ip)
  <2>1. CASE ip \in ips \ refused
    <3>1. arpCache'[ip] = NoArp  BY <1>1, <2>1
    <3>2. ip \in installed => arpAsic'[ip] = "none"  BY <1>1, <2>1
    <3>3. ip \notin installed => arpAsic'[ip] = arpAsic[ip] /\ ~Complete(ip)  BY <1>1, <2>1 DEF Complete
    <3>. QED  BY <3>1, <3>2, <3>3, EntryGoes
  <2>2. CASE ip \notin ips \ refused
    BY <1>1, <2>2, EntryStays DEF FlushesPort
  <2>. QED  BY <2>1, <2>2
<1>. QED  BY <1>1, <1>2, <1>3, <1>t DEF CacheStep, TablesTyped, WireTyped

LEMMA WithdrawReset ==
  ASSUME ArpConstants, ArpInv, NEW ips, ips \subseteq {ip \in Addresses : arpCache[ip] # NoArp},
         Withdraw(ips, Reset), arpInHand.op # "flush", arpInHand' = NoMsg, CacheOnly, UNCHANGED <<arpDb, arpWire>>
  PROVE  CacheStep
<1> DEFINE installed == {ip \in ips : arpCache[ip].mac # incomplete}
<1>t. TablesTyped /\ PortsTyped /\ EventsTyped /\ InHandTyped /\ WireTyped
  BY CacheNow
<1>1. PICK refused \in {r \in SUBSET installed : r = {} \/ TRUE \in Refusal} :
       /\ Refuse(refused # {})
       /\ arpAsic' = [ip \in Addresses |-> IF ip \in installed \ refused THEN "none" ELSE arpAsic[ip]]
       /\ arpCache' = [ip \in Addresses |-> IF ip \in ips \ refused THEN Reset(arpCache[ip]) ELSE arpCache[ip]]
  BY DEF Withdraw
<1>2. EventsTyped' /\ arpEvents.past \subseteq arpEvents'.past
  BY <1>1, <1>t, RefuseSome
<1>3. ASSUME NEW ip \in Addresses PROVE EntryStep(ip)
  <2>1. CASE ip \in ips \ refused
    <3>1. arpCache'[ip] = Reset(arpCache[ip]) /\ arpCache[ip] # NoArp  BY <1>1, <2>1
    <3>2. ip \in installed => arpAsic'[ip] = "none"  BY <1>1, <2>1
    <3>3. ip \notin installed => arpAsic'[ip] = arpAsic[ip] /\ ~Complete(ip)  BY <1>1, <2>1 DEF Complete
    <3>4. arpCache[ip] \in ArpEntry  BY <3>1, <1>t DEF TablesTyped
    <3>. QED  BY <3>1, <3>2, <3>3, <3>4, ResetFacts, EntryChanges
  <2>2. CASE ip \notin ips \ refused
    BY <1>1, <2>2, EntryStays DEF FlushesPort
  <2>. QED  BY <2>1, <2>2
<1>. QED  BY <1>1, <1>2, <1>3, <1>t DEF CacheStep, TablesTyped, WireTyped

LEMMA WithdrawSteps ==
  ASSUME ArpConstants, ArpInv,
         \/ processArpEntryDeleteMsgFromRib \/ processDeleteByIPAddr \/ processDeleteByIfName
         \/ processRefreshByIPAddr \/ processRefreshByIfName
  PROVE  CacheStep
<1>t. TablesTyped /\ InHandTyped
  BY CacheNow
<1>h. ArpHosts \subseteq Addresses  BY DEF Addresses
<1>1. CASE processArpEntryDeleteMsgFromRib
  <2> DEFINE ips == {ip \in {arpInHand.ip} : arpCache[ip] # NoArp /\ arpCache[ip].rib}
  <2>1. arpInHand.op = "ribDelete" /\ Withdraw(ips, Forget) /\ arpInHand' = NoMsg /\ CacheOnly /\ UNCHANGED <<arpDb, arpWire>>
    BY <1>1 DEF processArpEntryDeleteMsgFromRib, Handled
  <2>2. arpInHand.ip \in Addresses  BY <2>1, <1>t, <1>h, MsgFacts DEF InHandTyped
  <2>3. ips \subseteq {ip \in Addresses : arpCache[ip] # NoArp}  BY <2>2
  <2> HIDE DEF ips
  <2>. QED  BY <2>1, <2>3, WithdrawForget
<1>2. CASE processDeleteByIPAddr
  <2> DEFINE ips == {ip \in {arpInHand.ip} : arpCache[ip] # NoArp /\ ~arpCache[ip].rib}
  <2>1. arpInHand.op = "deleteByIp" /\ Withdraw(ips, Forget) /\ arpInHand' = NoMsg /\ CacheOnly /\ UNCHANGED <<arpDb, arpWire>>
    BY <1>2 DEF processDeleteByIPAddr, Handled
  <2>2. arpInHand.ip \in Addresses  BY <2>1, <1>t, <1>h, MsgFacts DEF InHandTyped
  <2>3. ips \subseteq {ip \in Addresses : arpCache[ip] # NoArp}  BY <2>2
  <2> HIDE DEF ips
  <2>. QED  BY <2>1, <2>3, WithdrawForget
<1>3. CASE processDeleteByIfName
  <2> DEFINE ips == {ip \in Addresses : /\ arpInHand.l3 \in arpL3 /\ arpCache[ip] # NoArp
                                        /\ arpCache[ip].l3 = arpInHand.l3 /\ ~arpCache[ip].rib}
  <2>1. arpInHand.op = "deleteByIf" /\ Withdraw(ips, Forget) /\ arpInHand' = NoMsg /\ CacheOnly /\ UNCHANGED <<arpDb, arpWire>>
    BY <1>3 DEF processDeleteByIfName, Handled
  <2>3. ips \subseteq {ip \in Addresses : arpCache[ip] # NoArp}  OBVIOUS
  <2> HIDE DEF ips
  <2>. QED  BY <2>1, <2>3, WithdrawForget
<1>4. CASE processRefreshByIPAddr
  <2> DEFINE ips == {ip \in {arpInHand.ip} : arpCache[ip] # NoArp}
  <2>1. arpInHand.op = "refreshByIp" /\ Withdraw(ips, Reset) /\ arpInHand' = NoMsg /\ CacheOnly /\ UNCHANGED <<arpDb, arpWire>>
    BY <1>4 DEF processRefreshByIPAddr, Handled
  <2>2. arpInHand.ip \in Addresses  BY <2>1, <1>t, <1>h, MsgFacts DEF InHandTyped
  <2>3. ips \subseteq {ip \in Addresses : arpCache[ip] # NoArp}  BY <2>2
  <2> HIDE DEF ips
  <2>. QED  BY <2>1, <2>3, WithdrawReset
<1>5. CASE processRefreshByIfName
  <2> DEFINE ips == {ip \in Addresses : /\ arpInHand.l3 \in arpL3 /\ arpCache[ip] # NoArp
                                        /\ arpCache[ip].l3 = arpInHand.l3}
  <2>1. arpInHand.op = "refreshByIf" /\ Withdraw(ips, Reset) /\ arpInHand' = NoMsg /\ CacheOnly /\ UNCHANGED <<arpDb, arpWire>>
    BY <1>5 DEF processRefreshByIfName, Handled
  <2>3. ips \subseteq {ip \in Addresses : arpCache[ip] # NoArp}  OBVIOUS
  <2> HIDE DEF ips
  <2>. QED  BY <2>1, <2>3, WithdrawReset
<1>. QED  BY <1>1, <1>2, <1>3, <1>4, <1>5

LEMMA RequestsTyped ==
  ASSUME NEW ip \in Addresses, NEW ports
  PROVE  sendArpReq(ip, ports) \subseteq Addresses \X ArpPorts
BY DEF sendArpReq

\* The timer: an entry whose time is over goes, or starts again for the RIB.
LEMMA TickEntries ==
  ASSUME ArpConstants, ArpInv, processArpCounterUpdateMsg
  PROVE  CacheStep
<1> DEFINE live == {ip \in Addresses : arpCache[ip] # NoArp}
           due == {ip \in live : arpCache[ip].counter =< minCnt}
           installed == {ip \in due : arpCache[ip].mac # incomplete}
           n(ip) == arpCache[ip].counter - 1
           asking == {ip \in live \ due : AsksAgain(arpCache[ip], n(ip))}
<1>t. TablesTyped /\ PortsTyped /\ EventsTyped /\ InHandTyped /\ WireTyped
  BY CacheNow
<1>0. arpInHand.op = "tick" /\ arpInHand' = NoMsg /\ CacheOnly /\ arpDb' = arpDb
  BY DEF processArpCounterUpdateMsg, Handled, deleteArpEntryInDB
<1>1. PICK refused \in {r \in SUBSET installed : r = {} \/ TRUE \in Refusal} :
          /\ Refuse(refused # {})
          /\ arpAsic' = [ip \in Addresses |-> IF ip \in installed \ refused THEN "none" ELSE arpAsic[ip]]
          /\ arpCache' = [ip \in Addresses |->
                CASE ip \in due -> IF ~arpCache[ip].rib THEN NoArp
                                   ELSE IF ip \in refused THEN arpCache[ip] ELSE Reset(arpCache[ip])
                  [] ip \in live \ due -> IF GivesUp(arpCache[ip], n(ip)) THEN NoArp
                                          ELSE [arpCache[ip] EXCEPT !.counter = n(ip)]
                  [] OTHER -> NoArp]
  BY DEF processArpCounterUpdateMsg
<1>2. EventsTyped' /\ arpEvents.past \subseteq arpEvents'.past /\ (refused # {} => "refused" \in arpEvents'.past)
  BY <1>1, <1>t, RefuseSome
<1>3. WireTyped'
  <2>1. arpWire' = arpWire \cup UNION {IF arpCache[ip].mac = incomplete THEN retryForArpEntry(ip, arpCache[ip].l3)
                                       ELSE refreshArpEntry(ip, arpCache[ip].port) : ip \in asking}
    BY DEF processArpCounterUpdateMsg
  <2>2. \A ip \in asking : (IF arpCache[ip].mac = incomplete THEN retryForArpEntry(ip, arpCache[ip].l3)
                            ELSE refreshArpEntry(ip, arpCache[ip].port)) \subseteq Addresses \X ArpPorts
    BY RequestsTyped DEF retryForArpEntry, refreshArpEntry
  <2> HIDE DEF asking
  <2>. QED  BY <2>1, <2>2, <1>t DEF WireTyped
<1>4. ASSUME NEW ip \in Addresses PROVE EntryStep(ip)
  <2>f. ~FlushesPort(arpInHand, arpCache[ip].port)  BY <1>0 DEF FlushesPort
  <2>1. CASE ip \in due /\ ~arpCache[ip].rib
    <3>1. arpCache'[ip] = NoArp  BY <1>1, <2>1
    <3>2. ip \in installed \ refused => arpAsic'[ip] = "none"  BY <1>1
    <3>3. ip \notin installed \ refused => arpAsic'[ip] = arpAsic[ip]  BY <1>1
    <3>4. ip \notin installed => ~Complete(ip)  BY <2>1 DEF Complete
    <3>. QED  BY <3>1, <3>2, <3>3, <3>4, <1>2, EntryGoes
  <2>2. CASE ip \in due /\ arpCache[ip].rib
    <3>1. CASE ip \in refused
      <4>1. arpCache'[ip] = arpCache[ip] /\ arpAsic'[ip] = arpAsic[ip]  BY <1>1, <2>2, <3>1
      <4>. QED  BY <4>1, <2>f, EntryStays
    <3>2. CASE ip \notin refused
      <4>1. arpCache'[ip] = Reset(arpCache[ip])  BY <1>1, <2>2, <3>2
      <4>2. arpCache[ip] # NoArp /\ arpCache[ip] \in ArpEntry  BY <2>2, <1>t DEF TablesTyped
      <4>3. ip \in installed => arpAsic'[ip] = "none"  BY <1>1, <3>2
      <4>4. ip \notin installed => arpAsic'[ip] = arpAsic[ip] /\ ~Complete(ip)  BY <1>1, <2>2 DEF Complete
      <4>. QED  BY <4>1, <4>2, <4>3, <4>4, <1>0, ResetFacts, EntryChanges
    <3>. QED  BY <3>1, <3>2
  <2>3. CASE ip \in live \ due
    <3>0. arpAsic'[ip] = arpAsic[ip]  BY <1>1, <2>3
    <3>1. CASE GivesUp(arpCache[ip], n(ip))
      <4>1. arpCache'[ip] = NoArp  BY <1>1, <2>3, <3>1
      <4>2. ~Complete(ip)  BY <3>1 DEF GivesUp, Complete
      <4>. QED  BY <3>0, <4>1, <4>2, EntryGoes
    <3>2. CASE ~GivesUp(arpCache[ip], n(ip))
      <4>1. arpCache'[ip] = [arpCache[ip] EXCEPT !.counter = n(ip)]  BY <1>1, <2>3, <3>2
      <4>2. arpCache[ip] # NoArp /\ arpCache[ip] \in ArpEntry  BY <2>3, <1>t DEF TablesTyped
      <4>3. n(ip) \in 0..DefaultTimeout
        <5>1. arpCache[ip].counter \in 0..DefaultTimeout /\ DefaultTimeout \in Nat
          BY <4>2, EntryFacts, TimeoutFacts
        <5>2. ~(arpCache[ip].counter =< 1)  BY <2>3 DEF minCnt
        <5>. QED  BY <5>1, <5>2
      <4> HIDE DEF n
      <4>4. /\ arpCache'[ip] \in ArpEntry /\ arpCache'[ip].mac = arpCache[ip].mac
            /\ arpCache'[ip].port = arpCache[ip].port /\ arpCache'[ip].l3 = arpCache[ip].l3
        BY <4>1, <4>2, <4>3 DEF ArpEntry
      <4>. QED  BY <3>0, <4>2, <4>4, <1>0, EntryChanges
    <3>. QED  BY <3>1, <3>2
  <2>4. CASE ip \notin live
    <3>1. arpCache'[ip] = arpCache[ip] /\ arpAsic'[ip] = arpAsic[ip]  BY <1>1, <2>4
    <3>. QED  BY <3>1, <2>f, EntryStays
  <2>. QED  BY <2>1, <2>2, <2>3, <2>4
<1>5. /\ DOMAIN arpCache' = Addresses /\ DOMAIN arpAsic' = Addresses
      /\ arpCache' = [ip \in Addresses |-> arpCache'[ip]] /\ arpAsic' = [ip \in Addresses |-> arpAsic'[ip]]
  BY <1>1
<1>6. arpDb' \subseteq Addresses \X (ArpIntfs \cup {NoIntf})
  BY <1>0, <1>t DEF TablesTyped
<1>. QED  BY <1>0, <1>2, <1>3, <1>4, <1>5, <1>6 DEF CacheStep

\* Every message the cache goroutine handles (updateArpCache).
LEMMA CacheSteps ==
  ASSUME ArpConstants, ArpInv, updateArpCache
  PROVE  ArpInv'
<1>1. CacheStep
  BY UpdateEntry, FlushPort, LowerCounters, MoveEntry, WithdrawSteps, TickEntries DEF updateArpCache
<1>. QED  BY <1>1, CacheStepKeeps

-----------------------------------------------------------------------------
(* The receivers, the timer and the network *)

\* The tables of the cache stay as they are.
LEMMA ArpTablesFrame ==
  ASSUME ArpInv, UNCHANGED <<arpCache, arpAsic, arpDb>>, arpEvents.past \subseteq arpEvents'.past
  PROVE  TablesTyped' /\ CompleteIsInstalled' /\ NoForgottenNeighbor'
<1>1. TablesTyped'
  BY ArpTypes DEF ArpInv, TablesTyped
<1>2. CompleteIsInstalled' /\ NoForgottenNeighbor'
  BY DEF ArpInv, CompleteIsInstalled, NoForgottenNeighbor, Complete
<1>. QED  BY <1>1, <1>2

LEMMA ArpPortsFrame ==
  ASSUME ArpInv, UNCHANGED <<arpPort, arpMembers, arpL3, arpTimeout, arpTodo>>
  PROVE  PortsTyped' /\ (arpTodo \in ArpTodo)' /\ TodoSane' /\ PortsSane'
<1>1. PortsTyped' /\ (arpTodo \in ArpTodo)'
  BY ArpTypes DEF ArpInv, PortsTyped
<1>2. TodoSane' /\ PortsSane'
  BY DEF ArpInv, TodoSane, PortsSane, Visiting
<1>. QED  BY <1>1, <1>2

\* A packet gives its receiver updates to send: of its own port, which has an
\* address.
LEMMA RxPacket ==
  ASSUME ArpConstants, ArpInv, NEW p \in ArpPorts, NEW s \in Seq(ArpMsg), arpPort[p].rx > 0,
         \A k \in 1..Len(s) : s[k].op = "update" /\ s[k].port = p,
         s # <<>> => arpPort[p].l3 # NoIntf,
         arpRx' = [arpRx EXCEPT ![p] = s], RxOnly, WireTyped', EventsTyped', arpEvents'.past = arpEvents.past
  PROVE  ArpInv'
<1>t. TablesTyped /\ PortsTyped /\ EventsTyped /\ InHandTyped /\ arpTodo \in ArpTodo /\ RxTyped /\ WireTyped
  BY ArpTypes DEF ArpInv
<1>u. UNCHANGED <<arpCache, arpAsic, arpDb, arpPort, arpMembers, arpL3, arpTimeout, arpTodo, arpInHand>>
  BY DEF RxOnly
<1>1. TablesTyped' /\ CompleteIsInstalled' /\ NoForgottenNeighbor'
  BY <1>u, ArpTablesFrame
<1>2. PortsTyped' /\ (arpTodo \in ArpTodo)' /\ TodoSane' /\ PortsSane'
  BY <1>u, ArpPortsFrame
<1>3. InHandTyped' /\ RxTyped'
  BY <1>t, <1>u DEF InHandTyped, RxTyped
<1>4. \A q \in ArpPorts : arpRx'[q] = IF q = p THEN s ELSE arpRx[q]
  BY <1>t DEF RxTyped
<1>5. Receivers'
  <2> SUFFICES ASSUME NEW q \in ArpPorts
               PROVE  /\ arpPort[q].rx = 0 => arpRx'[q] = <<>>
                      /\ (arpPort[q].l3 # NoIntf /\ arpPort[q].oper /\ ~PastStop(q)) => arpPort[q].rx > 0
                      /\ (arpPort[q].l3 = NoIntf \/ ~arpPort[q].oper \/ PastStop(q)) => arpPort[q].rx =< 1
                      /\ \A k \in 1..Len(arpRx'[q]) : arpRx'[q][k].op = "update" /\ arpRx'[q][k].port = q
    BY <1>u DEF Receivers, PastStop
  <2>1. CASE q = p
    BY <2>1, <1>4, <1>t DEF ArpInv, Receivers, PortsTyped
  <2>2. CASE q # p
    BY <2>2, <1>4 DEF ArpInv, Receivers
  <2>. QED  BY <2>1, <2>2
<1>6. ArpOrdinary'
  <2> SUFFICES ASSUME arpEvents'.past = {}
               PROVE  OneReceiver' /\ LearnsWhereItMay' /\ EntriesOnPorts' /\ FlushedBefore' /\ MembersHaveIt'
    BY DEF ArpOrdinary
  <2>0. OneReceiver /\ LearnsWhereItMay /\ EntriesOnPorts /\ FlushedBefore /\ MembersHaveIt
    BY DEF ArpInv, ArpOrdinary
  <2>1. OneReceiver' /\ EntriesOnPorts' /\ FlushedBefore' /\ MembersHaveIt'
    BY <1>u, <2>0 DEF OneReceiver, MembersHaveIt, PastStop, EntriesOnPorts, FlushedBefore
  <2>2. LearnsWhereItMay'
    BY <1>u, <2>0, <1>4 DEF LearnsWhereItMay, Visiting
  <2>. QED  BY <2>1, <2>2
<1>. QED  BY <1>1, <1>2, <1>3, <1>5, <1>6, ArpTypesNext DEF ArpInv

LEMMA UpdateFacts ==
  ASSUME NEW p \in ArpPorts, NEW ip \in Addresses, NEW mac \in ArpMacs \cup {incomplete}, NEW rib \in BOOLEAN
  PROVE  /\ Update(p, ip, mac, rib) \in ArpMsg
         /\ Update(p, ip, mac, rib).op = "update" /\ Update(p, ip, mac, rib).port = p
BY DEF Update, ArpMsg, Addresses

\* What a packet on port p gives its receiver to send.
LEMMA ReceivedUpdates ==
  ASSUME ArpConstants, ArpInv, NEW p \in ArpPorts, NEW src \in ArpHosts \cup {zero, self},
         NEW dst \in ArpHosts \cup {self}, NEW mac \in ArpMacs,
         NEW s, s = processArpRequest(p, src, dst, mac) \/ (src \in ArpHosts /\ s = processArpReply(p, src, dst, mac))
  PROVE  /\ s \in Seq(ArpMsg) /\ (s # <<>> => arpPort[p].l3 # NoIntf)
         /\ \A k \in 1..Len(s) : s[k].op = "update" /\ s[k].port = p
<1>n. arpPort[p].l3 \in arpL3 => arpPort[p].l3 # NoIntf
  BY ArpTypes DEF ArpInv, PortsTyped, ArpConstants
<1>z. zero # self
  BY DEF zero, self
<1> DEFINE u == Update(p, src, mac, FALSE)
           v == Update(p, dst, incomplete, FALSE)
<1>u. src # zero => u \in ArpMsg /\ u.op = "update" /\ u.port = p
  BY UpdateFacts DEF Addresses
<1>v. v \in ArpMsg /\ v.op = "update" /\ v.port = p
  BY UpdateFacts DEF Addresses
<1>h. src \in ArpHosts => src # zero
  BY DEF ArpConstants
<1>1. \/ s = <<>>
      \/ arpPort[p].l3 # NoIntf /\ src # zero /\ s = <<u>>
      \/ arpPort[p].l3 # NoIntf /\ s = <<v>>
      \/ arpPort[p].l3 # NoIntf /\ src # zero /\ s = <<u, v>>
  <2> HIDE DEF u, v
  <2>1. CASE s = processArpRequest(p, src, dst, mac)
    <3>1. \/ s = <<>>
          \/ arpPort[p].l3 \in arpL3 /\ src # zero /\ s = <<u>>
          \/ arpPort[p].l3 \in arpL3 /\ s = <<v>>
          \/ arpPort[p].l3 \in arpL3 /\ src # zero /\ s = <<u, v>>
          \/ arpPort[p].l3 \in arpL3 /\ src = zero /\ src = dst
      BY <2>1 DEF processArpRequest, u, v
    <3>2. ~(src = zero /\ src = dst)
      BY <1>z DEF ArpConstants
    <3>. QED  BY <3>1, <3>2, <1>n
  <2>2. CASE src \in ArpHosts /\ s = processArpReply(p, src, dst, mac)
    BY <2>2, <1>h DEF processArpReply, u
  <2>. QED  BY <2>1, <2>2
<1> HIDE DEF u, v
<1>2. CASE s = <<>>  BY <1>2
<1>3. CASE arpPort[p].l3 # NoIntf /\ src # zero /\ s = <<u>>  BY <1>3, <1>u
<1>4. CASE arpPort[p].l3 # NoIntf /\ s = <<v>>  BY <1>4, <1>v
<1>5. CASE arpPort[p].l3 # NoIntf /\ src # zero /\ s = <<u, v>>
  <2>1. s \in Seq(ArpMsg) /\ Len(s) = 2 /\ s[1] = u /\ s[2] = v  BY <1>5, <1>u, <1>v
  <2>2. \A k \in 1..Len(s) : k = 1 \/ k = 2  BY <2>1
  <2>. QED  BY <1>5, <2>1, <2>2, <1>u, <1>v
<1>. QED  BY <1>1, <1>2, <1>3, <1>4, <1>5

LEMMA RxRequestStep ==
  ASSUME ArpConstants, ArpInv, NEW p \in ArpPorts, NEW src \in ArpHosts \cup {zero, self},
         NEW dst \in ArpHosts \cup {self}, NEW mac \in ArpMacs, RxRequest(p, src, dst, mac)
  PROVE  ArpInv'
<1>1. PICK s : s = processArpRequest(p, src, dst, mac)
  OBVIOUS
<1>2. arpPort[p].rx > 0 /\ Spend /\ arpRx' = [arpRx EXCEPT ![p] = s] /\ RxOnly /\ UNCHANGED arpWire
  BY <1>1 DEF RxRequest
<1>3. EventsTyped /\ WireTyped
  BY ArpTypes DEF ArpInv
<1>4. EventsTyped' /\ arpEvents'.past = arpEvents.past /\ WireTyped'
  BY <1>2, <1>3, SpendFacts DEF WireTyped
<1>5. /\ s \in Seq(ArpMsg) /\ (s # <<>> => arpPort[p].l3 # NoIntf)
      /\ \A k \in 1..Len(s) : s[k].op = "update" /\ s[k].port = p
  BY <1>1, ReceivedUpdates
<1>. QED  BY <1>2, <1>4, <1>5, RxPacket

LEMMA RxReplyStep ==
  ASSUME ArpConstants, ArpInv, NEW p \in ArpPorts, NEW ip \in ArpHosts, NEW mac \in ArpMacs, RxReply(p, ip, mac)
  PROVE  ArpInv'
<1>1. PICK s : s = processArpReply(p, ip, self, mac)
  OBVIOUS
<1>2. /\ arpPort[p].rx > 0 /\ arpRx' = [arpRx EXCEPT ![p] = s] /\ RxOnly /\ arpWire' = arpWire \ {<<ip, p>>}
      /\ UNCHANGED arpEvents
  BY <1>1 DEF RxReply
<1>3. EventsTyped /\ WireTyped
  BY ArpTypes DEF ArpInv
<1>4. EventsTyped' /\ arpEvents'.past = arpEvents.past /\ WireTyped'
  BY <1>2, <1>3 DEF WireTyped, EventsTyped
<1>5. /\ s \in Seq(ArpMsg) /\ (s # <<>> => arpPort[p].l3 # NoIntf)
      /\ \A k \in 1..Len(s) : s[k].op = "update" /\ s[k].port = p
  BY <1>1, ReceivedUpdates
<1>. QED  BY <1>2, <1>4, <1>5, RxPacket

\* A step that only changes what is on the wire.
LEMMA WireStep ==
  ASSUME ArpInv, RxOnly, UNCHANGED arpRx, WireTyped', EventsTyped', arpEvents'.past = arpEvents.past
  PROVE  ArpInv'
<1>u. UNCHANGED <<arpCache, arpAsic, arpDb, arpPort, arpMembers, arpL3, arpTimeout, arpTodo, arpInHand, arpRx>>
  BY DEF RxOnly
<1>1. TablesTyped' /\ CompleteIsInstalled' /\ NoForgottenNeighbor'
  BY <1>u, ArpTablesFrame
<1>2. PortsTyped' /\ (arpTodo \in ArpTodo)' /\ TodoSane' /\ PortsSane'
  BY <1>u, ArpPortsFrame
<1>3. InHandTyped' /\ RxTyped'
  BY <1>u, ArpTypes DEF ArpInv, InHandTyped, RxTyped
<1>4. Receivers'
  BY <1>u DEF ArpInv, Receivers, PastStop
<1>5. ArpOrdinary'
  BY <1>u DEF ArpInv, ArpOrdinary, OneReceiver, MembersHaveIt, PastStop, EntriesOnPorts, FlushedBefore, LearnsWhereItMay, Visiting
<1>. QED  BY <1>1, <1>2, <1>3, <1>4, <1>5, ArpTypesNext DEF ArpInv

LEMMA IpPacketStep ==
  ASSUME ArpConstants, ArpInv, NEW p \in ArpPorts, NEW src \in ArpHosts,
         NEW dst \in ArpHosts \cup {self}, NEW mac \in ArpMacs, processIpPkt(p, src, dst, mac)
  PROVE  ArpInv'
<1> DEFINE known(i) == /\ arpCache[src] # NoArp /\ arpCache[src].mac = mac /\ arpCache[src].port = p
                       /\ arpCache[src].l3 = i /\ p \in arpMembers[i]
           forSrc == {IF known(i) THEN {} ELSE sendArpReqL3Intf(src, i) : i \in getL3IntfOnSameSubnet(src)}
           forDst == {sendArpReqL3Intf(dst, i) : i \in getL3IntfOnSameSubnet(dst)}
<1>1. Spend /\ RxOnly /\ UNCHANGED arpRx
  BY DEF processIpPkt
<1>2. PICK x \in forSrc \cup {{}}, y \in forDst \cup {{}} : arpWire' = arpWire \cup x \cup y
  BY DEF processIpPkt
<1>3. EventsTyped /\ WireTyped
  BY ArpTypes DEF ArpInv
<1>4. x \subseteq Addresses \X ArpPorts /\ y \subseteq Addresses \X ArpPorts
  BY RequestsTyped DEF sendArpReqL3Intf, Addresses
<1>5. WireTyped'
  BY <1>2, <1>3, <1>4 DEF WireTyped
<1>. QED  BY <1>1, <1>3, <1>5, SpendFacts, WireStep

LEMMA LoseRequestStep ==
  ASSUME ArpInv, LoseRequest
  PROVE  ArpInv'
<1>1. WireTyped' /\ EventsTyped' /\ arpEvents'.past = arpEvents.past
  BY ArpTypes DEF ArpInv, LoseRequest, WireTyped, EventsTyped
<1>2. RxOnly /\ UNCHANGED arpRx
  BY DEF LoseRequest, RxOnly
<1>. QED  BY <1>1, <1>2, WireStep

\* The cache goroutine takes a message: of a receiver, or the tick.
LEMMA TimerStep ==
  ASSUME ArpInv, arpCacheTimeout
  PROVE  ArpInv'
<1>u. /\ UNCHANGED <<arpCache, arpAsic, arpDb, arpPort, arpMembers, arpL3, arpTimeout, arpTodo, arpRx, arpWire, arpEvents>>
      /\ arpInHand = NoMsg /\ arpInHand' = [op |-> "tick"]
  BY DEF arpCacheTimeout
<1>1. TablesTyped' /\ CompleteIsInstalled' /\ NoForgottenNeighbor'
  BY <1>u, ArpTablesFrame
<1>2. PortsTyped' /\ (arpTodo \in ArpTodo)' /\ TodoSane' /\ PortsSane'
  BY <1>u, ArpPortsFrame
<1>3. InHandTyped' /\ RxTyped' /\ EventsTyped' /\ WireTyped'
  BY <1>u, ArpTypes DEF ArpInv, InHandTyped, RxTyped, EventsTyped, WireTyped, ArpMsg
<1>4. Receivers'
  BY <1>u DEF ArpInv, Receivers, PastStop
<1>5. ArpOrdinary'
  BY <1>u DEF ArpInv, ArpOrdinary, OneReceiver, MembersHaveIt, PastStop, EntriesOnPorts, FlushedBefore, LearnsWhereItMay,
              Visiting, Learns, FlushesPort, NoMsg
<1>. QED  BY <1>1, <1>2, <1>3, <1>4, <1>5, ArpTypesNext DEF ArpInv

LEMMA RxSendStep ==
  ASSUME ArpConstants, ArpInv, NEW p \in ArpPorts, RxSend(p)
  PROVE  ArpInv'
<1>t. TablesTyped /\ PortsTyped /\ EventsTyped /\ InHandTyped /\ arpTodo \in ArpTodo /\ RxTyped /\ WireTyped
  BY ArpTypes DEF ArpInv
<1>u. /\ UNCHANGED <<arpCache, arpAsic, arpDb, arpPort, arpMembers, arpL3, arpTimeout, arpTodo, arpWire, arpEvents>>
      /\ arpRx[p] # <<>> /\ arpInHand = NoMsg
  BY DEF RxSend
<1>0. PICK s \in Seq(ArpMsg), m \in ArpMsg :
        /\ arpRx' = [arpRx EXCEPT ![p] = s] /\ arpInHand' = m /\ m = arpRx[p][1]
        /\ Len(arpRx[p]) >= 1 /\ Len(s) = Len(arpRx[p]) - 1 /\ \A k \in 1..Len(s) : s[k] = arpRx[p][k + 1]
  <2>1. arpRx[p] \in Seq(ArpMsg)  BY <1>t DEF RxTyped
  <2>2. Tail(arpRx[p]) \in Seq(ArpMsg) /\ Head(arpRx[p]) \in ArpMsg /\ Head(arpRx[p]) = arpRx[p][1]
    BY <2>1, <1>u
  <2>3. Len(arpRx[p]) \in Nat /\ Len(arpRx[p]) >= 1 /\ Len(Tail(arpRx[p])) = Len(arpRx[p]) - 1
    BY <2>1, <1>u
  <2>4. \A k \in 1..Len(Tail(arpRx[p])) : Tail(arpRx[p])[k] = arpRx[p][k + 1]
    BY <2>1, <1>u
  <2>5. arpRx' = [arpRx EXCEPT ![p] = Tail(arpRx[p])] /\ arpInHand' = Head(arpRx[p])
    BY DEF RxSend
  <2>. QED  BY <2>2, <2>3, <2>4, <2>5
<1>m. m.op = "update" /\ m.port = p
  <2>1. 1 \in 1..Len(arpRx[p])  BY <1>0, <1>t DEF RxTyped
  <2>. QED  BY <2>1, <1>0 DEF ArpInv, Receivers
<1>s. \A k \in 1..Len(s) : s[k].op = "update" /\ s[k].port = p
  <2>1. \A k \in 1..Len(s) : k + 1 \in 1..Len(arpRx[p])  BY <1>0, <1>t DEF RxTyped
  <2>. QED  BY <2>1, <1>0 DEF ArpInv, Receivers
<1>1. TablesTyped' /\ CompleteIsInstalled' /\ NoForgottenNeighbor'
  BY <1>u, ArpTablesFrame
<1>2. PortsTyped' /\ (arpTodo \in ArpTodo)' /\ TodoSane' /\ PortsSane'
  BY <1>u, ArpPortsFrame
<1>3. InHandTyped' /\ RxTyped' /\ EventsTyped' /\ WireTyped'
  BY <1>0, <1>u, <1>t DEF InHandTyped, RxTyped, EventsTyped, WireTyped
<1>4. \A q \in ArpPorts : arpRx'[q] = IF q = p THEN s ELSE arpRx[q]
  BY <1>0, <1>t DEF RxTyped
<1>r. arpPort[p].rx # 0
  BY <1>u DEF ArpInv, Receivers
<1>5. Receivers'
  <2> SUFFICES ASSUME NEW q \in ArpPorts
               PROVE  /\ arpPort[q].rx = 0 => arpRx'[q] = <<>>
                      /\ (arpPort[q].l3 # NoIntf /\ arpPort[q].oper /\ ~PastStop(q)) => arpPort[q].rx > 0
                      /\ (arpPort[q].l3 = NoIntf \/ ~arpPort[q].oper \/ PastStop(q)) => arpPort[q].rx =< 1
                      /\ \A k \in 1..Len(arpRx'[q]) : arpRx'[q][k].op = "update" /\ arpRx'[q][k].port = q
    BY <1>u DEF Receivers, PastStop
  <2>1. CASE q = p
    BY <2>1, <1>4, <1>s, <1>r DEF ArpInv, Receivers
  <2>2. CASE q # p
    BY <2>2, <1>4 DEF ArpInv, Receivers
  <2>. QED  BY <2>1, <2>2
<1>6. ArpOrdinary'
  <2> SUFFICES ASSUME arpEvents'.past = {}
               PROVE  OneReceiver' /\ LearnsWhereItMay' /\ EntriesOnPorts' /\ FlushedBefore' /\ MembersHaveIt'
    BY DEF ArpOrdinary
  <2>0. OneReceiver /\ LearnsWhereItMay /\ EntriesOnPorts /\ FlushedBefore /\ MembersHaveIt
    BY <1>u DEF ArpInv, ArpOrdinary
  <2>1. OneReceiver' /\ MembersHaveIt'
    BY <1>u, <2>0 DEF OneReceiver, MembersHaveIt, PastStop
  <2>2. arpPort[p].l3 # NoIntf /\ ~PastStop(p)
    BY <1>u, <1>r, <2>0 DEF LearnsWhereItMay, OneReceiver
  <2>3. LearnsWhereItMay'
    BY <1>0, <1>u, <2>0, <2>2, <1>4, <1>m DEF LearnsWhereItMay, Visiting, Learns
  <2>4. EntriesOnPorts'
    BY <1>u, <2>0 DEF EntriesOnPorts, FlushesPort, NoMsg
  <2>5. FlushedBefore'
    BY <1>0, <1>u, <1>m, <2>0, <2>2 DEF FlushedBefore, Learns, FlushesPort, NoMsg, PastStop
  <2>. QED  BY <2>1, <2>3, <2>4, <2>5
<1>. QED  BY <1>1, <1>2, <1>3, <1>5, <1>6, ArpTypesNext DEF ArpInv

-----------------------------------------------------------------------------
(* The main goroutine takes a request *)

LEMMA JobFacts ==
  ASSUME NEW do \in {"idle", "tell", "detach", "flush", "down", "resolve", "dropL3"}, NEW i \in ArpIntfs \cup {NoIntf},
         NEW ip \in ArpHosts \cup {self}, NEW m \in ArpMsg
  PROVE  /\ Job(do, i, ip, m) \in ArpTodo /\ Job(do, i, ip, m).do = do /\ Job(do, i, ip, m).at = 1
         /\ Job(do, i, ip, m).port = NoArpPort /\ Job(do, i, ip, m).left = {} /\ Job(do, i, ip, m).l3 = i
         /\ Job(do, i, ip, m).ip = ip /\ Job(do, i, ip, m).msg = m
BY DEF Job, ArpTodo

LEMMA NoMsgTyped == NoMsg \in ArpMsg /\ \A p : ~Learns(NoMsg, p)
BY DEF ArpMsg, NoMsg, Learns

LEMMA IdleFacts ==
  Idle \in ArpTodo /\ Idle.do = "idle" /\ Idle.at = 1 /\ Idle.port = NoArpPort /\ Idle.left = {} /\ Idle.msg = NoMsg
BY JobFacts, NoMsgTyped DEF Idle

\* The next port of a request, or its end.
LEMMA VisitFacts ==
  ASSUME NEW t \in ArpTodo, NEW ports \in SUBSET ArpPorts, NEW v \in Visit(t, ports)
  PROVE  /\ v \in ArpTodo /\ v.at = 1
         /\ \/ ports = {} /\ t.do # "detach" /\ v = Idle
            \/ /\ ports = {} /\ t.do = "detach" /\ v.do = "dropL3" /\ v.l3 = t.l3 /\ v.msg = NoMsg
               /\ v.left = {} /\ v.port = NoArpPort
            \/ /\ v.do = t.do /\ v.port \in ports /\ v.left = ports \ {v.port}
               /\ v.l3 = t.l3 /\ v.ip = t.ip /\ v.msg = t.msg
<1>1. CASE ports # {}
  <2>1. PICK p \in ports :
          v = [do |-> t.do, at |-> 1, port |-> p, left |-> ports \ {p}, l3 |-> t.l3, ip |-> t.ip, msg |-> t.msg]
    BY <1>1 DEF Visit
  <2>. QED  BY <2>1 DEF ArpTodo
<1>2. CASE ports = {} /\ t.do = "detach"
  <2>1. v = Job("dropL3", t.l3, self, NoMsg)
    BY <1>2 DEF Visit
  <2>2. t.l3 \in ArpIntfs \cup {NoIntf}  BY DEF ArpTodo
  <2>. QED  BY <1>2, <2>1, <2>2, JobFacts, NoMsgTyped
<1>3. CASE ports = {} /\ t.do # "detach"
  <2>1. v = Idle
    BY <1>3 DEF Visit
  <2>. QED  BY <1>3, <2>1, IdleFacts
<1>. QED  BY <1>1, <1>2, <1>3

LEMMA VisitSane ==
  ASSUME ArpConstants, NEW t \in ArpTodo, NEW ports \in SUBSET ArpPorts, arpTodo' \in Visit(t, ports),
         t.do \in {"tell", "dropL3"} => ports = {}, t.do # "idle", t.do # "tell" => t.msg = NoMsg,
         t.do = "detach" => /\ t.l3 \in arpL3'
                            /\ \A p \in arpMembers'[t.l3] : arpPort'[p].l3 # NoIntf => p \in ports
  PROVE  /\ TodoSane' /\ (arpTodo \in ArpTodo)' /\ arpTodo'.at = 1
         /\ arpTodo'.msg = NoMsg
         /\ arpTodo'.do = "resolve" => t.do = "resolve"
         /\ arpTodo'.do = t.do => Visiting' = ports
         /\ t.do \in {"detach", "dropL3"} <=> (arpTodo'.do \in {"detach", "dropL3"} \/ t.do = "dropL3")
<1>0. PICK v : v = arpTodo'  OBVIOUS
<1>v. /\ v \in ArpTodo /\ v.at = 1
      /\ \/ ports = {} /\ t.do # "detach" /\ v = Idle
         \/ /\ ports = {} /\ t.do = "detach" /\ v.do = "dropL3" /\ v.l3 = t.l3 /\ v.msg = NoMsg
            /\ v.left = {} /\ v.port = NoArpPort
         \/ /\ v.do = t.do /\ v.port \in ports /\ v.left = ports \ {v.port}
            /\ v.l3 = t.l3 /\ v.ip = t.ip /\ v.msg = t.msg
  BY <1>0, VisitFacts
<1>n. NoArpPort \notin ports  BY DEF ArpConstants
<1>1. CASE ports = {} /\ t.do # "detach" /\ v = Idle
  BY <1>0, <1>1, IdleFacts DEF TodoSane
<1>2. CASE /\ ports = {} /\ t.do = "detach" /\ v.do = "dropL3" /\ v.l3 = t.l3 /\ v.msg = NoMsg
           /\ v.left = {} /\ v.port = NoArpPort
  BY <1>0, <1>v, <1>2 DEF TodoSane
<1>3. CASE /\ v.do = t.do /\ v.port \in ports /\ v.left = ports \ {v.port}
           /\ v.l3 = t.l3 /\ v.ip = t.ip /\ v.msg = t.msg
  <2>1. Visiting' = ports
    BY <1>0, <1>3, <1>n DEF Visiting
  <2>2. TodoSane'
    BY <1>0, <1>v, <1>3, <2>1 DEF TodoSane
  <2>. QED  BY <1>0, <1>v, <1>3, <2>1, <2>2
<1>. QED  BY <1>v, <1>1, <1>2, <1>3

\* A request that only sets the main goroutine to work.
LEMMA TakesJob ==
  ASSUME ArpConstants, ArpInv, arpTodo = Idle, (arpTodo \in ArpTodo)', arpTodo'.at = 1, TodoSane', PortsTyped',
         UNCHANGED <<arpCache, arpAsic, arpDb, arpPort, arpMembers, arpL3, arpRx, arpInHand, arpWire>>,
         EventsTyped', arpEvents'.past = arpEvents.past,
         arpEvents.past = {} =>
           \A p \in ArpPorts : (Learns(arpTodo'.msg, p) \/ (arpTodo'.do = "resolve" /\ p \in Visiting'))
                                 => arpPort[p].l3 # NoIntf
  PROVE  ArpInv'
<1>1. TablesTyped' /\ CompleteIsInstalled' /\ NoForgottenNeighbor'
  BY ArpTablesFrame
<1>2. PortsSane'
  BY DEF ArpInv, PortsSane
<1>3. InHandTyped' /\ RxTyped' /\ WireTyped'
  BY ArpTypes DEF ArpInv, InHandTyped, RxTyped, WireTyped
<1>p. \A p : ~PastStop(p) /\ ~PastStop(p)'
  BY IdleFacts DEF PastStop
<1>4. Receivers'
  BY <1>p DEF ArpInv, Receivers
<1>5. ArpOrdinary'
  <2> SUFFICES ASSUME arpEvents'.past = {}
               PROVE  OneReceiver' /\ LearnsWhereItMay' /\ EntriesOnPorts' /\ FlushedBefore' /\ MembersHaveIt'
    BY DEF ArpOrdinary
  <2>0. OneReceiver /\ LearnsWhereItMay /\ EntriesOnPorts /\ FlushedBefore /\ MembersHaveIt
    BY DEF ArpInv, ArpOrdinary
  <2>1. OneReceiver'
    BY <1>p, <2>0 DEF OneReceiver
  <2>2. MembersHaveIt'
    BY <2>0, IdleFacts DEF MembersHaveIt
  <2>3. LearnsWhereItMay'
    BY <2>0 DEF LearnsWhereItMay
  <2>4. EntriesOnPorts'
    BY <2>0 DEF EntriesOnPorts
  <2>5. FlushedBefore'
    BY DEF FlushedBefore
  <2>. QED  BY <2>1, <2>2, <2>3, <2>4, <2>5
<1>. QED  BY <1>1, <1>2, <1>3, <1>4, <1>5, ArpTypesNext DEF ArpInv

\* A request that is dealt with at once.
LEMMA TakesNothing ==
  ASSUME ArpConstants, ArpInv, arpTodo = Idle, arpTodo' = Idle, PortsTyped', PortsSane', Receivers',
         UNCHANGED <<arpCache, arpAsic, arpDb, arpRx, arpInHand, arpWire>>,
         EventsTyped', arpEvents.past \subseteq arpEvents'.past,
         arpEvents'.past = {} => OneReceiver' /\ LearnsWhereItMay' /\ EntriesOnPorts' /\ MembersHaveIt'
  PROVE  ArpInv'
<1>1. TablesTyped' /\ CompleteIsInstalled' /\ NoForgottenNeighbor'
  BY ArpTablesFrame
<1>2. TodoSane' /\ (arpTodo \in ArpTodo)'
  BY IdleFacts DEF TodoSane
<1>3. InHandTyped' /\ RxTyped' /\ WireTyped'
  BY ArpTypes DEF ArpInv, InHandTyped, RxTyped, WireTyped
<1>4. FlushedBefore'
  BY IdleFacts DEF FlushedBefore
<1>5. ArpOrdinary'
  BY <1>4 DEF ArpOrdinary
<1>. QED  BY <1>1, <1>2, <1>3, <1>5, ArpTypesNext DEF ArpInv

\* Requests for the ports of an interface, one after the other.
LEMMA PortJob ==
  ASSUME NEW ip \in ArpHosts \cup {self}, NEW do \in {"detach", "flush", "down", "resolve"},
         NEW j \in ArpIntfs \cup {NoIntf}
  PROVE  \E t \in ArpTodo : t = Job(do, j, ip, NoMsg) /\ t.do = do /\ t.l3 = j /\ t.msg = NoMsg
<1>1. PICK t : t = Job(do, j, ip, NoMsg)  OBVIOUS
<1>2. t = [do |-> do, at |-> 1, port |-> NoArpPort, left |-> {}, l3 |-> j, ip |-> ip, msg |-> NoMsg]
  BY <1>1 DEF Job
<1>3. t \in ArpTodo  BY <1>2, NoMsgTyped DEF ArpTodo
<1>4. t.do = do /\ t.l3 = j /\ t.msg = NoMsg  BY <1>2
<1>. QED  BY <1>1, <1>3, <1>4

LEMMA PortRequests ==
  ASSUME ArpConstants, ArpInv, NEW i \in ArpIntfs, NEW ip \in ArpHosts \cup {self},
         NEW do \in {"detach", "flush", "down", "resolve"}, NEW j \in ArpIntfs \cup {NoIntf},
         do = "detach" => j = i, do \in {"detach", "resolve"} => i \in arpL3,
         MainTakes(Visit(Job(do, j, ip, NoMsg), arpMembers[i])),
         UNCHANGED <<arpPort, arpMembers, arpL3, arpTimeout>>
  PROVE  ArpInv'
<1>t. TablesTyped /\ PortsTyped /\ EventsTyped
  BY ArpTypes DEF ArpInv
<1>0. /\ arpTodo = Idle /\ Spend /\ arpTodo' \in Visit(Job(do, j, ip, NoMsg), arpMembers[i])
      /\ UNCHANGED <<arpCache, arpAsic, arpDb, arpRx, arpInHand, arpWire>>
  BY DEF MainTakes
<1>1. PICK t \in ArpTodo : t = Job(do, j, ip, NoMsg) /\ t.do = do /\ t.l3 = j /\ t.msg = NoMsg
  BY PortJob
<1>2. t \in ArpTodo /\ t.do = do /\ t.l3 = j /\ t.msg = NoMsg
  BY <1>1
<1>3. arpMembers[i] \in SUBSET ArpPorts
  BY <1>t DEF PortsTyped
<1>4. /\ TodoSane' /\ (arpTodo \in ArpTodo)' /\ arpTodo'.at = 1
      /\ arpTodo'.msg = NoMsg
      /\ arpTodo'.do = "resolve" => t.do = "resolve"
      /\ arpTodo'.do = t.do => Visiting' = arpMembers[i]
  BY <1>0, <1>1, <1>2, <1>3, VisitSane
<1>5. EventsTyped' /\ arpEvents'.past = arpEvents.past /\ PortsTyped'
  BY <1>0, <1>t, SpendFacts DEF PortsTyped
<1>6. ASSUME arpEvents.past = {}, NEW p \in ArpPorts,
             Learns(arpTodo'.msg, p) \/ (arpTodo'.do = "resolve" /\ p \in Visiting')
      PROVE  arpPort[p].l3 # NoIntf
  <2>1. arpTodo'.do = "resolve" /\ p \in Visiting'
    BY <1>6, <1>4, <1>2, NoMsgTyped
  <2>2. do = "resolve" /\ p \in arpMembers[i]
    BY <2>1, <1>4, <1>2
  <2>3. MembersHaveIt
    BY <1>6 DEF ArpInv, ArpOrdinary
  <2>. QED  BY <1>0, <2>2, <2>3, IdleFacts DEF MembersHaveIt, ArpConstants
<1>. QED  BY <1>0, <1>4, <1>5, <1>6, TakesJob

\* A message for the cache goroutine.
LEMMA TellRequests ==
  ASSUME ArpConstants, ArpInv, NEW m \in ArpMsg, arpTodo = Idle, Spend, arpTodo' = Tell(m),
         UNCHANGED <<arpCache, arpAsic, arpDb, arpRx, arpInHand, arpWire, arpPort, arpMembers, arpL3>>, PortsTyped',
         arpEvents.past = {} => \A p \in ArpPorts : Learns(m, p) => arpPort[p].l3 # NoIntf
  PROVE  ArpInv'
<1>1. arpTodo' \in ArpTodo /\ arpTodo'.do = "tell" /\ arpTodo'.at = 1 /\ arpTodo'.msg = m
  BY JobFacts DEF Tell
<1>2. TodoSane' /\ (arpTodo \in ArpTodo)'
  BY <1>1, JobFacts DEF TodoSane, Tell
<1>3. EventsTyped' /\ arpEvents'.past = arpEvents.past
  BY SpendFacts, ArpTypes DEF ArpInv
<1>. QED  BY <1>1, <1>2, <1>3, TakesJob

LEMMA Requests ==
  ASSUME ArpConstants, ArpInv,
         \/ \E i \in ArpIntfs : processIPv4IntfDelete(i) \/ processIPv4L3StateDown(i) \/ processL2StateDown(i)
         \/ \E ip \in ArpHosts, i \in ArpIntfs : processResolveIPv4(ip, i) \/ processArpAction(ip, i)
         \/ \E ip \in ArpHosts : processDeleteResolvedIPv4(ip)
         \/ \E t \in ArpTimeouts : processArpConf(t)
         \/ \E ip \in ArpHosts, p \in ArpPorts : processIPv4NbrMacMove(ip, p)
  PROVE  ArpInv'
<1>t. PortsTyped /\ EventsTyped
  BY ArpTypes DEF ArpInv
<1>1. ASSUME NEW i \in ArpIntfs, processIPv4IntfDelete(i)
      PROVE  ArpInv'
  BY <1>1, PortRequests DEF processIPv4IntfDelete
<1>2. ASSUME NEW i \in ArpIntfs, processIPv4L3StateDown(i)
      PROVE  ArpInv'
  BY <1>2, PortRequests DEF processIPv4L3StateDown
<1>3. ASSUME NEW i \in ArpIntfs, processL2StateDown(i)
      PROVE  ArpInv'
  BY <1>3, PortRequests DEF processL2StateDown
<1>4. ASSUME NEW ip \in ArpHosts, NEW i \in ArpIntfs, processResolveIPv4(ip, i)
      PROVE  ArpInv'
  BY <1>4, PortRequests DEF processResolveIPv4
<1>5. ASSUME NEW ip \in ArpHosts, processDeleteResolvedIPv4(ip)
      PROVE  ArpInv'
  <2>1. PICK m : m = [op |-> "ribDelete", ip |-> ip]  OBVIOUS
  <2>2. m \in ArpMsg /\ \A q : ~Learns(m, q)  BY <2>1 DEF ArpMsg, Learns
  <2>3. arpTodo = Idle /\ Spend /\ arpTodo' = Tell(m)
    BY <1>5, <2>1 DEF processDeleteResolvedIPv4, MainTakes
  <2>4. UNCHANGED <<arpCache, arpAsic, arpDb, arpRx, arpInHand, arpWire, arpPort, arpMembers, arpL3>> /\ PortsTyped'
    BY <1>5, <1>t DEF processDeleteResolvedIPv4, MainTakes, PortsTyped
  <2>. QED  BY <2>2, <2>3, <2>4, TellRequests
<1>6. ASSUME NEW t \in ArpTimeouts, processArpConf(t)
      PROVE  ArpInv'
  <2>0. arpTodo = Idle /\ Spend /\ UNCHANGED <<arpCache, arpAsic, arpDb, arpRx, arpInHand, arpWire, arpPort, arpMembers, arpL3>>
    BY <1>6 DEF processArpConf, MainTakes
  <2>1. PortsTyped'
    BY <1>6, <1>t DEF processArpConf, PortsTyped
  <2>2. CASE t = DefaultTimeout
    <3>1. arpTodo' = Idle  BY <1>6, <2>2 DEF processArpConf, MainTakes
    <3>2. TodoSane' /\ (arpTodo \in ArpTodo)' /\ arpTodo'.at = 1 /\ arpTodo'.do # "resolve" /\ arpTodo'.msg = NoMsg
      BY <3>1, IdleFacts DEF TodoSane
    <3>3. EventsTyped' /\ arpEvents'.past = arpEvents.past
      BY <2>0, <1>t, SpendFacts
    <3>. QED  BY <2>0, <2>1, <3>2, <3>3, NoMsgTyped, TakesJob
  <2>3. CASE t # DefaultTimeout
    <3>1. PICK m : m = [op |-> "cnt", cnt |-> t]  OBVIOUS
    <3>2. m \in ArpMsg /\ \A q : ~Learns(m, q)  BY <3>1 DEF ArpMsg, Learns
    <3>3. arpTodo' = Tell(m)
      BY <1>6, <2>3, <3>1 DEF processArpConf, MainTakes
    <3>. QED  BY <2>0, <2>1, <3>2, <3>3, TellRequests
  <2>. QED  BY <2>2, <2>3
<1>7. ASSUME NEW ip \in ArpHosts, NEW i \in ArpIntfs, processArpAction(ip, i)
      PROVE  ArpInv'
  <2>1. PICK m \in ExecuteAction(ip, i) : arpTodo' = Tell(m)
    BY <1>7 DEF processArpAction, MainTakes
  <2>2. m \in ArpMsg /\ \A q : ~Learns(m, q)  BY <2>1 DEF ArpMsg, Learns, ExecuteAction
  <2>3. arpTodo = Idle /\ Spend /\ UNCHANGED <<arpCache, arpAsic, arpDb, arpRx, arpInHand, arpWire, arpPort, arpMembers, arpL3>>
    BY <1>7 DEF processArpAction, MainTakes
  <2>4. PortsTyped'
    BY <1>7, <1>t DEF processArpAction, PortsTyped
  <2>. QED  BY <2>1, <2>2, <2>3, <2>4, TellRequests
<1>8. ASSUME NEW ip \in ArpHosts, NEW p \in ArpPorts, processIPv4NbrMacMove(ip, p)
      PROVE  ArpInv'
  <2>1. PICK m : m = [op |-> "macMove", ip |-> ip, port |-> p]  OBVIOUS
  <2>2. m \in ArpMsg /\ \A q : Learns(m, q) => q = p  BY <2>1 DEF ArpMsg, Learns
  <2>3. /\ arpTodo = Idle /\ Spend /\ arpTodo' = Tell(m)
        /\ UNCHANGED <<arpCache, arpAsic, arpDb, arpRx, arpInHand, arpWire, arpPort, arpMembers, arpL3>>
    BY <1>8, <2>1 DEF processIPv4NbrMacMove, MainTakes
  <2>4. PortsTyped'
    BY <1>8, <1>t DEF processIPv4NbrMacMove, PortsTyped
  <2>5. PICK k \in arpL3 : p \in arpMembers[k]
    BY <1>8 DEF processIPv4NbrMacMove
  <2>6. arpEvents.past = {} => arpPort[p].l3 # NoIntf
    BY <2>3, <2>5, <1>t, IdleFacts DEF ArpInv, ArpOrdinary, MembersHaveIt, ArpConstants, PortsTyped
  <2>. QED  BY <2>2, <2>3, <2>4, <2>6, TellRequests
<1>. QED  BY <1>1, <1>2, <1>3, <1>4, <1>5, <1>6, <1>7, <1>8

-----------------------------------------------------------------------------
(* Requests that change ports and interfaces *)

LEMMA CreateIntf ==
  ASSUME ArpConstants, ArpInv, NEW i \in ArpIntfs, processIPv4IntfCreate(i)
  PROVE  ArpInv'
<1>t. PortsTyped /\ EventsTyped
  BY ArpTypes DEF ArpInv
<1>0. /\ arpTodo = Idle /\ Spend /\ arpTodo' = Idle /\ arpL3 = {} /\ arpL3' = {i}
      /\ UNCHANGED <<arpCache, arpAsic, arpDb, arpRx, arpInHand, arpWire, arpMembers, arpTimeout>>
  BY DEF processIPv4IntfCreate, MainTakes
<1>1. EventsTyped' /\ arpEvents'.past = arpEvents.past
  BY <1>0, <1>t, SpendFacts
<1>2. \A p \in ArpPorts : arpPort[p].l3 = NoIntf
  BY <1>0 DEF ArpInv, PortsSane
<1>p. \A p : ~PastStop(p) /\ ~PastStop(p)'
  BY <1>0, IdleFacts DEF PastStop
<1>r. \A p \in ArpPorts : arpPort[p].rx \in 0..1
  BY <1>2, <1>t DEF ArpInv, Receivers, PortsTyped
<1>3. arpPort' = [p \in ArpPorts |-> IF p \notin arpMembers[i] THEN arpPort[p]
                                     ELSE [oper |-> arpPort[p].oper, l3 |-> i,
                                           rx |-> IF arpPort[p].oper THEN arpPort[p].rx + 1 ELSE arpPort[p].rx]]
  BY DEF processIPv4IntfCreate
<1>4. ASSUME NEW p \in ArpPorts
      PROVE  /\ arpPort'[p] \in [oper: BOOLEAN, l3: ArpIntfs \cup {NoIntf}, rx: 0..2]
             /\ arpPort'[p].oper = arpPort[p].oper
             /\ arpPort'[p].l3 = IF p \in arpMembers[i] THEN i ELSE NoIntf
             /\ arpPort'[p].rx = IF p \in arpMembers[i] /\ arpPort[p].oper THEN arpPort[p].rx + 1 ELSE arpPort[p].rx
  <2>0. arpPort[p] \in [oper: BOOLEAN, l3: ArpIntfs \cup {NoIntf}, rx: 0..2] /\ arpPort[p].rx \in 0..1
    BY <1>t, <1>r DEF PortsTyped
  <2>1. CASE p \notin arpMembers[i]
    BY <2>0, <2>1, <1>2, <1>3
  <2>2. CASE p \in arpMembers[i]
    <3>1. PICK n : n = IF arpPort[p].oper THEN arpPort[p].rx + 1 ELSE arpPort[p].rx  OBVIOUS
    <3>2. n \in 0..2  BY <3>1, <2>0
    <3>3. arpPort'[p] = [oper |-> arpPort[p].oper, l3 |-> i, rx |-> n]
      BY <2>2, <3>1, <1>3
    <3>. QED  BY <2>0, <2>2, <3>1, <3>2, <3>3
  <2>. QED  BY <2>1, <2>2
<1>5. PortsTyped'
  BY <1>0, <1>3, <1>4, <1>t DEF PortsTyped
<1>n. i # NoIntf
  BY DEF ArpConstants
<1>6. PortsSane'
  <2>1. \A p \in ArpPorts : arpPort'[p].l3 # NoIntf => arpPort'[p].l3 = i /\ p \in arpMembers[i]
    BY <1>4
  <2>. QED  BY <1>0, <2>1 DEF ArpInv, PortsSane
<1>7. Receivers'
  <2> SUFFICES ASSUME NEW p \in ArpPorts
               PROVE  /\ arpPort'[p].rx = 0 => arpRx[p] = <<>>
                      /\ (arpPort'[p].l3 # NoIntf /\ arpPort'[p].oper) => arpPort'[p].rx > 0
                      /\ (arpPort'[p].l3 = NoIntf \/ ~arpPort'[p].oper) => arpPort'[p].rx =< 1
                      /\ \A k \in 1..Len(arpRx[p]) : arpRx[p][k].op = "update" /\ arpRx[p][k].port = p
    BY <1>0, <1>p DEF Receivers
  <2>1. /\ arpPort[p].rx = 0 => arpRx[p] = <<>>
        /\ \A k \in 1..Len(arpRx[p]) : arpRx[p][k].op = "update" /\ arpRx[p][k].port = p
    BY DEF ArpInv, Receivers
  <2>2. arpPort[p].rx \in 0..1  BY <1>r
  <2>. QED  BY <2>1, <2>2, <1>4, <1>n
<1>8. ASSUME arpEvents'.past = {}
      PROVE  OneReceiver' /\ LearnsWhereItMay' /\ EntriesOnPorts' /\ MembersHaveIt'
  <2>0. OneReceiver /\ LearnsWhereItMay /\ EntriesOnPorts
    BY <1>1, <1>8 DEF ArpInv, ArpOrdinary
  <2>1. \A p \in ArpPorts : arpPort[p].rx = 0
    BY <1>2, <2>0 DEF OneReceiver
  <2>2. OneReceiver'
    BY <2>1, <1>4, <1>n, <1>p DEF OneReceiver
  <2>3. LearnsWhereItMay'
    BY <2>0, <1>0, <1>2, IdleFacts, NoMsgTyped DEF LearnsWhereItMay
  <2>4. EntriesOnPorts'
    BY <2>0, <1>0, <1>2 DEF EntriesOnPorts, ArpConstants
  <2>5. MembersHaveIt'
    BY <1>0, <1>4, <1>t DEF MembersHaveIt, PortsTyped
  <2>. QED  BY <2>2, <2>3, <2>4, <2>5
<1>. QED  BY <1>0, <1>1, <1>5, <1>6, <1>7, <1>8, TakesNothing

LEMMA LinkUp ==
  ASSUME ArpConstants, ArpInv, NEW i \in ArpIntfs, processL2StateUp(i)
  PROVE  ArpInv'
<1>t. PortsTyped /\ EventsTyped
  BY ArpTypes DEF ArpInv
<1>0. /\ arpTodo = Idle /\ arpTodo' = Idle /\ arpEvents.left > 0
      /\ UNCHANGED <<arpCache, arpAsic, arpDb, arpRx, arpInHand, arpWire, arpMembers, arpL3, arpTimeout>>
      /\ \A p \in arpMembers[i] : arpPort[p].rx < 2
  BY DEF processL2StateUp
<1>1. PICK two : /\ two \in SUBSET {"twoReceivers"}
                 /\ arpEvents' = [left |-> arpEvents.left - 1, past |-> arpEvents.past \cup two]
                 /\ two = {} => \A p \in ArpPorts : ~(arpPort'[p].rx > 1)
  <2>1. PICK two : two = IF \E p \in ArpPorts : arpPort'[p].rx > 1 THEN {"twoReceivers"} ELSE {}  OBVIOUS
  <2>2. arpEvents' = [left |-> arpEvents.left - 1, past |-> arpEvents.past \cup two]
    BY <2>1 DEF processL2StateUp
  <2>3. two \in SUBSET {"twoReceivers"} /\ (two = {} => \A p \in ArpPorts : ~(arpPort'[p].rx > 1))
    BY <2>1
  <2>. QED  BY <2>2, <2>3
<1>2. EventsTyped' /\ arpEvents.past \subseteq arpEvents'.past /\ (arpEvents'.past = {} => two = {})
  BY <1>0, <1>1, <1>t, EventFacts
<1>p. \A p : ~PastStop(p) /\ ~PastStop(p)'
  BY <1>0, IdleFacts DEF PastStop
<1>3. arpPort' = [p \in ArpPorts |-> IF p \notin arpMembers[i] THEN arpPort[p]
                                     ELSE [oper |-> TRUE, l3 |-> arpPort[p].l3,
                                           rx |-> IF arpPort[p].l3 # NoIntf THEN arpPort[p].rx + 1 ELSE arpPort[p].rx]]
  BY DEF processL2StateUp
<1>4. ASSUME NEW p \in ArpPorts
      PROVE  /\ arpPort'[p] \in [oper: BOOLEAN, l3: ArpIntfs \cup {NoIntf}, rx: 0..2]
             /\ arpPort'[p].l3 = arpPort[p].l3
             /\ p \notin arpMembers[i] => arpPort'[p] = arpPort[p]
             /\ p \in arpMembers[i] =>
                  /\ arpPort'[p].oper
                  /\ arpPort'[p].rx = IF arpPort[p].l3 # NoIntf THEN arpPort[p].rx + 1 ELSE arpPort[p].rx
  <2>0. arpPort[p] \in [oper: BOOLEAN, l3: ArpIntfs \cup {NoIntf}, rx: 0..2]
    BY <1>t DEF PortsTyped
  <2>1. CASE p \notin arpMembers[i]
    BY <2>0, <2>1, <1>3
  <2>2. CASE p \in arpMembers[i]
    <3>1. PICK n : n = IF arpPort[p].l3 # NoIntf THEN arpPort[p].rx + 1 ELSE arpPort[p].rx  OBVIOUS
    <3>2. n \in 0..2
      <4>1. arpPort[p].rx \in 0..2 /\ arpPort[p].rx < 2  BY <2>0, <2>2, <1>0
      <4>. QED  BY <3>1, <4>1
    <3>3. PICK b \in BOOLEAN : b = TRUE  OBVIOUS
    <3>4. arpPort'[p] = [oper |-> b, l3 |-> arpPort[p].l3, rx |-> n]
      BY <2>2, <3>1, <3>3, <1>3
    <3>. QED  BY <2>0, <2>2, <3>1, <3>2, <3>3, <3>4
  <2>. QED  BY <2>1, <2>2
<1>5. PortsTyped'
  BY <1>0, <1>3, <1>4, <1>t DEF PortsTyped
<1>6. PortsSane'
  BY <1>0, <1>4 DEF ArpInv, PortsSane
<1>7. Receivers'
  <2> SUFFICES ASSUME NEW p \in ArpPorts
               PROVE  /\ arpPort'[p].rx = 0 => arpRx[p] = <<>>
                      /\ (arpPort'[p].l3 # NoIntf /\ arpPort'[p].oper) => arpPort'[p].rx > 0
                      /\ (arpPort'[p].l3 = NoIntf \/ ~arpPort'[p].oper) => arpPort'[p].rx =< 1
                      /\ \A k \in 1..Len(arpRx[p]) : arpRx[p][k].op = "update" /\ arpRx[p][k].port = p
    BY <1>0, <1>p DEF Receivers
  <2>1. /\ arpPort[p].rx = 0 => arpRx[p] = <<>>
        /\ (arpPort[p].l3 # NoIntf /\ arpPort[p].oper) => arpPort[p].rx > 0
        /\ (arpPort[p].l3 = NoIntf \/ ~arpPort[p].oper) => arpPort[p].rx =< 1
        /\ \A k \in 1..Len(arpRx[p]) : arpRx[p][k].op = "update" /\ arpRx[p][k].port = p
    BY <1>p DEF ArpInv, Receivers
  <2>2. arpPort[p].rx \in 0..2  BY <1>t DEF PortsTyped
  <2>. QED  BY <2>1, <2>2, <1>4
<1>8. ASSUME arpEvents'.past = {}
      PROVE  OneReceiver' /\ LearnsWhereItMay' /\ EntriesOnPorts' /\ MembersHaveIt'
  <2>0. OneReceiver /\ LearnsWhereItMay /\ EntriesOnPorts /\ MembersHaveIt
    BY <1>2, <1>8 DEF ArpInv, ArpOrdinary
  <2>1. \A p \in ArpPorts : ~(arpPort'[p].rx > 1)
    BY <1>1, <1>2, <1>8
  <2>2. OneReceiver'
    <3> SUFFICES ASSUME NEW p \in ArpPorts
                 PROVE  /\ arpPort'[p].rx =< 1
                        /\ (arpPort'[p].l3 = NoIntf \/ ~arpPort'[p].oper) => arpPort'[p].rx = 0
      BY <1>p DEF OneReceiver
    <3>1. arpPort'[p].rx \in 0..2  BY <1>4
    <3>2. (arpPort[p].l3 = NoIntf \/ ~arpPort[p].oper) => arpPort[p].rx = 0
      BY <2>0 DEF OneReceiver
    <3>. QED  BY <3>1, <3>2, <2>1, <1>4
  <2>3. LearnsWhereItMay'
    BY <2>0, <1>0, <1>4 DEF LearnsWhereItMay, Visiting
  <2>4. EntriesOnPorts'
    BY <2>0, <1>0, <1>4 DEF EntriesOnPorts
  <2>5. MembersHaveIt'
    BY <2>0, <1>0, <1>4, <1>t DEF MembersHaveIt, PortsTyped
  <2>. QED  BY <2>2, <2>3, <2>4, <2>5
<1>. QED  BY <1>0, <1>2, <1>5, <1>6, <1>7, <1>8, TakesNothing

\* A VLAN or a LAG that gets a port or is deleted.
LEMMA MemberSteps ==
  ASSUME ArpConstants, ArpInv, NEW i \in ArpIntfs,
         (\E p \in ArpPorts : updateVlanInfra(i, p)) \/ deleteVlanInfra(i)
  PROVE  ArpInv'
<1>t. PortsTyped /\ EventsTyped
  BY ArpTypes DEF ArpInv
<1>0. /\ arpTodo = Idle /\ arpTodo' = Idle
      /\ UNCHANGED <<arpCache, arpAsic, arpDb, arpRx, arpInHand, arpWire, arpPort, arpL3, arpTimeout>>
  BY DEF updateVlanInfra, deleteVlanInfra, MainTakes
<1>p. \A q : ~PastStop(q) /\ ~PastStop(q)'
  BY <1>0, IdleFacts DEF PastStop
<1>1. Receivers' /\ (OneReceiver => OneReceiver') /\ (EntriesOnPorts => EntriesOnPorts')
  BY <1>0, <1>p DEF ArpInv, Receivers, OneReceiver, EntriesOnPorts
<1>2. LearnsWhereItMay => LearnsWhereItMay'
  BY <1>0 DEF LearnsWhereItMay, Visiting
<1>3. ASSUME NEW p \in ArpPorts, updateVlanInfra(i, p)
      PROVE  ArpInv'
  <2>1. /\ \A j \in ArpIntfs : p \notin arpMembers[j]
        /\ arpMembers' = [arpMembers EXCEPT ![i] = @ \cup {p}] /\ arpEvents.left > 0
    BY <1>3 DEF updateVlanInfra
  <2>2. PICK grown : /\ grown \in SUBSET {"grown"} /\ (grown = {} => i \notin arpL3)
                     /\ arpEvents' = [left |-> arpEvents.left - 1, past |-> arpEvents.past \cup grown]
    <3>1. PICK grown : grown = IF i \in arpL3 THEN {"grown"} ELSE {}  OBVIOUS
    <3>2. arpEvents' = [left |-> arpEvents.left - 1, past |-> arpEvents.past \cup grown]
      BY <1>3, <3>1 DEF updateVlanInfra
    <3>3. grown \in SUBSET {"grown"} /\ (grown = {} => i \notin arpL3)
      BY <3>1
    <3>. QED  BY <3>2, <3>3
  <2>3. EventsTyped' /\ arpEvents.past \subseteq arpEvents'.past /\ (arpEvents'.past = {} => i \notin arpL3)
    BY <2>1, <2>2, <1>t, EventFacts
  <2>4. \A j \in ArpIntfs : arpMembers'[j] = IF j = i THEN arpMembers[j] \cup {p} ELSE arpMembers[j]
    BY <2>1, <1>t DEF PortsTyped
  <2>5. PortsTyped'
    BY <1>0, <1>t, <2>1 DEF PortsTyped
  <2>6. PortsSane'
    <3>1. \A j, k \in ArpIntfs : \A q \in arpMembers'[j] : q \in arpMembers'[k] => j = k
      BY <2>1, <2>4 DEF ArpInv, PortsSane
    <3>2. \A q \in ArpPorts : arpPort[q].l3 # NoIntf => arpPort[q].l3 \in arpL3 /\ q \in arpMembers'[arpPort[q].l3]
      BY <2>4, <1>t DEF ArpInv, PortsSane, PortsTyped
    <3>. QED  BY <3>1, <3>2, <1>0 DEF ArpInv, PortsSane
  <2>7. arpEvents'.past = {} /\ MembersHaveIt => MembersHaveIt'
    BY <2>3, <2>4, <1>0, <1>t DEF MembersHaveIt, PortsTyped
  <2>8. arpEvents'.past = {} => OneReceiver' /\ LearnsWhereItMay' /\ EntriesOnPorts' /\ MembersHaveIt'
    BY <1>1, <1>2, <2>3, <2>7 DEF ArpInv, ArpOrdinary
  <2>. QED  BY <1>0, <1>1, <2>3, <2>5, <2>6, <2>8, TakesNothing
<1>4. CASE deleteVlanInfra(i)
  <2>1. i \notin arpL3 /\ arpMembers' = [arpMembers EXCEPT ![i] = {}] /\ Spend
    BY <1>4 DEF deleteVlanInfra, MainTakes
  <2>3. EventsTyped' /\ arpEvents'.past = arpEvents.past
    BY <2>1, <1>t, SpendFacts
  <2>4. \A j \in ArpIntfs : arpMembers'[j] = IF j = i THEN {} ELSE arpMembers[j]
    BY <2>1, <1>t DEF PortsTyped
  <2>5. PortsTyped'
    BY <1>0, <1>t, <2>1 DEF PortsTyped
  <2>6. PortsSane'
    <3>1. \A j, k \in ArpIntfs : \A q \in arpMembers'[j] : q \in arpMembers'[k] => j = k
      BY <2>4 DEF ArpInv, PortsSane
    <3>2. \A q \in ArpPorts : arpPort[q].l3 # NoIntf => arpPort[q].l3 \in arpL3 /\ q \in arpMembers'[arpPort[q].l3]
      BY <2>1, <2>4, <1>t DEF ArpInv, PortsSane, PortsTyped
    <3>. QED  BY <3>1, <3>2, <1>0 DEF ArpInv, PortsSane
  <2>7. MembersHaveIt => MembersHaveIt'
    BY <2>1, <2>4, <1>0, <1>t DEF MembersHaveIt, PortsTyped
  <2>8. arpEvents'.past = {} => OneReceiver' /\ LearnsWhereItMay' /\ EntriesOnPorts' /\ MembersHaveIt'
    BY <1>1, <1>2, <2>3, <2>7 DEF ArpInv, ArpOrdinary
  <2>. QED  BY <1>0, <1>1, <2>3, <2>5, <2>6, <2>8, TakesNothing
<1>. QED  BY <1>3, <1>4

-----------------------------------------------------------------------------
(* The main goroutine works on a request *)

\* The steps of a request and their order.
Follows(t) ==
  t.at < Len(Body(t.do)) <=> (t.do = "detach" /\ ~(t.at = 3)) \/ (t.do \in {"down", "resolve"} /\ ~(t.at = 2))

LEMMA BodyFacts ==
  ASSUME NEW t \in ArpTodo, t.do # "idle", NEW step, Body(t.do)[t.at] = step,
         t.do \in {"tell", "dropL3", "flush"} => t.at = 1, t.do \in {"down", "resolve"} => t.at =< 2
  PROVE  /\ step = "stop" => t.do \in {"detach", "down"} /\ t.at = 1
         /\ step = "send" => (t.do = "detach" /\ t.at = 2) \/ (t.do \in {"flush", "resolve", "tell"} /\ t.at = 1)
         /\ step = "set" => (t.do = "detach" /\ t.at = 3) \/ (t.do = "down" /\ t.at = 2)
         /\ step = "ask" => t.do = "resolve" /\ t.at = 2
         /\ step = "dropL3" => t.do = "dropL3"
         /\ Follows(t)
<1>1. t.at \in 1..3 /\ t.do \in {"tell", "detach", "flush", "down", "resolve", "dropL3"}
  BY DEF ArpTodo
<1>2. CASE t.do = "detach"
  <2>1. PICK b : b = Body(t.do)  OBVIOUS
  <2>2. b = <<"stop", "send", "set">>  BY <2>1, <1>2 DEF Body
  <2>3. Len(b) = 3 /\ b[1] = "stop" /\ b[2] = "send" /\ b[3] = "set"  BY <2>2
  <2>4. t.at = 1 \/ t.at = 2 \/ t.at = 3  BY <1>1, <1>2
  <2>5. t.at = 1 => step = "stop"  BY <2>1, <2>3
  <2>6. t.at = 2 => step = "send"  BY <2>1, <2>3
  <2>7. t.at = 3 => step = "set"  BY <2>1, <2>3
  <2>8. t.at < Len(b) <=> ~(t.at = 3)  BY <2>3, <2>4
  <2>9. t.at < Len(Body(t.do)) <=> ~(t.at = 3)  BY <2>1, <2>8, Zenon
  <2>10. Follows(t)  BY <1>2, <2>4, <2>9 DEF Follows
  <2>. QED  BY <1>2, <2>4, <2>10, <2>5, <2>6, <2>7
<1>3. CASE t.do = "down"
  <2>1. PICK b : b = Body(t.do)  OBVIOUS
  <2>2. b = <<"stop", "set">>  BY <2>1, <1>3 DEF Body
  <2>3. Len(b) = 2 /\ b[1] = "stop" /\ b[2] = "set"  BY <2>2
  <2>4. t.at = 1 \/ t.at = 2  BY <1>1, <1>3
  <2>5. t.at = 1 => step = "stop"  BY <2>1, <2>3
  <2>6. t.at = 2 => step = "set"  BY <2>1, <2>3
  <2>8. t.at < Len(b) <=> ~(t.at = 2)  BY <2>3, <2>4
  <2>9. t.at < Len(Body(t.do)) <=> ~(t.at = 2)  BY <2>1, <2>8, Zenon
  <2>10. Follows(t)  BY <1>3, <2>4, <2>9 DEF Follows
  <2>. QED  BY <1>3, <2>4, <2>10, <2>5, <2>6
<1>4. CASE t.do = "resolve"
  <2>1. PICK b : b = Body(t.do)  OBVIOUS
  <2>2. b = <<"send", "ask">>  BY <2>1, <1>4 DEF Body
  <2>3. Len(b) = 2 /\ b[1] = "send" /\ b[2] = "ask"  BY <2>2
  <2>4. t.at = 1 \/ t.at = 2  BY <1>1, <1>4
  <2>5. t.at = 1 => step = "send"  BY <2>1, <2>3
  <2>6. t.at = 2 => step = "ask"  BY <2>1, <2>3
  <2>8. t.at < Len(b) <=> ~(t.at = 2)  BY <2>3, <2>4
  <2>9. t.at < Len(Body(t.do)) <=> ~(t.at = 2)  BY <2>1, <2>8, Zenon
  <2>10. Follows(t)  BY <1>4, <2>4, <2>9 DEF Follows
  <2>. QED  BY <1>4, <2>4, <2>10, <2>5, <2>6
<1>5. CASE t.do = "dropL3"
  <2>1. PICK b : b = Body(t.do)  OBVIOUS
  <2>2. b = <<"dropL3">>  BY <2>1, <1>5 DEF Body
  <2>3. Len(b) = 1 /\ b[1] = "dropL3"  BY <2>2
  <2>4. t.at = 1  BY <1>1, <1>5
  <2>5. t.at = 1 => step = "dropL3"  BY <2>1, <2>3
  <2>8. t.at < Len(b) <=> ~(t.at = 1)  BY <2>3, <2>4
  <2>9. t.at < Len(Body(t.do)) <=> ~(t.at = 1)  BY <2>1, <2>8, Zenon
  <2>10. Follows(t)  BY <1>5, <2>4, <2>9 DEF Follows
  <2>. QED  BY <1>5, <2>4, <2>10, <2>5
<1>6. CASE t.do \in {"tell", "flush"}
  <2>1. PICK b : b = Body(t.do)  OBVIOUS
  <2>2. b = <<"send">>  BY <2>1, <1>6 DEF Body
  <2>3. Len(b) = 1 /\ b[1] = "send"  BY <2>2
  <2>4. t.at = 1  BY <1>1, <1>6
  <2>5. t.at = 1 => step = "send"  BY <2>1, <2>3
  <2>8. t.at < Len(b) <=> ~(t.at = 1)  BY <2>3, <2>4
  <2>9. t.at < Len(Body(t.do)) <=> ~(t.at = 1)  BY <2>1, <2>8, Zenon
  <2>10. Follows(t)  BY <1>6, <2>4, <2>9 DEF Follows
  <2>. QED  BY <1>6, <2>4, <2>10, <2>5
<1>. QED  BY <1>1, <1>2, <1>3, <1>4, <1>5, <1>6

\* A request goes on with the same port ...
LEMMA Advances ==
  ASSUME ArpInv, NEW step, At(step), arpTodo.at < Len(Body(arpTodo.do)), arpTodo.at < 3
  PROVE  /\ (arpTodo \in ArpTodo)' /\ arpTodo'.do = arpTodo.do /\ arpTodo'.at = arpTodo.at + 1
         /\ arpTodo'.port = arpTodo.port /\ arpTodo'.left = arpTodo.left /\ arpTodo'.l3 = arpTodo.l3
         /\ arpTodo'.ip = arpTodo.ip /\ arpTodo'.msg = arpTodo.msg /\ Visiting' = Visiting
<1>1. arpTodo \in ArpTodo
  BY ArpTypes DEF ArpInv
<1>2. arpTodo' = [arpTodo EXCEPT !.at = arpTodo.at + 1]
  BY DEF At
<1>3. /\ arpTodo' \in ArpTodo /\ arpTodo'.do = arpTodo.do /\ arpTodo'.at = arpTodo.at + 1
      /\ arpTodo'.port = arpTodo.port /\ arpTodo'.left = arpTodo.left /\ arpTodo'.l3 = arpTodo.l3
      /\ arpTodo'.ip = arpTodo.ip /\ arpTodo'.msg = arpTodo.msg
  BY <1>1, <1>2 DEF ArpTodo
<1>. QED  BY <1>3 DEF Visiting

\* ... or with the next.
LEMMA Finishes ==
  ASSUME ArpConstants, ArpInv, NEW step, At(step), ~(arpTodo.at < Len(Body(arpTodo.do))),
         arpTodo.do \in {"detach", "dropL3"} => arpTodo.do = "dropL3" \/ arpPort'[arpTodo.port].l3 = NoIntf,
         \A p \in ArpPorts : arpPort'[p].l3 # NoIntf => arpPort[p].l3 # NoIntf,
         arpTodo.do = "dropL3" \/ arpL3' = arpL3
  PROVE  /\ TodoSane' /\ (arpTodo \in ArpTodo)' /\ arpTodo'.at = 1
         /\ arpTodo'.msg = NoMsg
         /\ arpTodo'.do = "resolve" => arpTodo.do = "resolve" /\ Visiting' \subseteq Visiting
         /\ arpTodo.do \in {"detach", "dropL3"} <=> (arpTodo'.do \in {"detach", "dropL3"} \/ arpTodo.do = "dropL3")
         /\ arpTodo.do = "dropL3" => arpTodo' = Idle
<1>t. arpTodo \in ArpTodo /\ PortsTyped
  BY ArpTypes DEF ArpInv
<1>s. TodoSane
  BY DEF ArpInv
<1>0. PICK t, ports : t = arpTodo /\ ports = arpTodo.left
  OBVIOUS
<1>1. arpTodo.do # "idle" /\ arpTodo' \in Visit(t, ports) /\ arpMembers' = arpMembers
  BY <1>0 DEF At
<1>2. t \in ArpTodo /\ ports \in SUBSET ArpPorts
  BY <1>0, <1>t DEF ArpTodo
<1>3. t.do \in {"tell", "dropL3"} => ports = {}
  BY <1>0, <1>s DEF TodoSane
<1>4. t.do # "tell" => t.msg = NoMsg
  BY <1>0, <1>s DEF TodoSane
<1>5. t.do = "detach" => /\ t.l3 \in arpL3'
                         /\ \A p \in arpMembers'[t.l3] : arpPort'[p].l3 # NoIntf => p \in ports
  <2> SUFFICES ASSUME t.do = "detach"
               PROVE  t.l3 \in arpL3' /\ \A p \in arpMembers'[t.l3] : arpPort'[p].l3 # NoIntf => p \in ports
    OBVIOUS
  <2>1. t.l3 \in arpL3 /\ arpL3' = arpL3
    BY <1>0, <1>s DEF TodoSane
  <2>2. arpMembers[t.l3] \subseteq ArpPorts
    BY <2>1, <1>t DEF PortsTyped
  <2>3. ASSUME NEW p \in arpMembers[t.l3], arpPort'[p].l3 # NoIntf PROVE p \in ports
    <3>1. arpPort[p].l3 # NoIntf  BY <2>2, <2>3
    <3>2. p \in Visiting  BY <3>1, <1>0, <1>s, <2>3 DEF TodoSane
    <3>3. p # arpTodo.port  BY <1>0, <2>3
    <3>. QED  BY <3>2, <3>3, <1>0 DEF Visiting
  <2>. QED  BY <1>1, <2>1, <2>3
<1>6. /\ TodoSane' /\ (arpTodo \in ArpTodo)' /\ arpTodo'.at = 1
      /\ arpTodo'.msg = NoMsg
      /\ arpTodo'.do = "resolve" => t.do = "resolve"
      /\ arpTodo'.do = t.do => Visiting' = ports
      /\ t.do \in {"detach", "dropL3"} <=> (arpTodo'.do \in {"detach", "dropL3"} \/ t.do = "dropL3")
  BY <1>0, <1>1, <1>2, <1>3, <1>4, <1>5, VisitSane
<1>7. ports \subseteq Visiting
  BY <1>0 DEF Visiting
<1>8. arpTodo.do = "dropL3" => arpTodo' = Idle
  BY <1>0, <1>1, <1>3 DEF Visit
<1>. QED  BY <1>0, <1>6, <1>7, <1>8

\* What a step of a request starts from and leaves alone.
LEMMA StepFacts ==
  ASSUME ArpConstants, ArpInv, NEW step, At(step)
  PROVE  /\ TablesTyped /\ PortsTyped /\ EventsTyped /\ InHandTyped /\ arpTodo \in ArpTodo /\ RxTyped /\ WireTyped
         /\ TablesTyped' /\ EventsTyped' /\ RxTyped' /\ CompleteIsInstalled' /\ NoForgottenNeighbor'
         /\ UNCHANGED <<arpCache, arpAsic, arpDb, arpMembers, arpTimeout, arpRx, arpEvents>>
         /\ TodoSane /\ arpTodo.do # "idle" /\ Follows(arpTodo) /\ arpTodo.at \in 1..3
         /\ step = "stop" => arpTodo.do \in {"detach", "down"} /\ arpTodo.at = 1
         /\ step = "send" => (arpTodo.do = "detach" /\ arpTodo.at = 2)
                             \/ (arpTodo.do \in {"flush", "resolve", "tell"} /\ arpTodo.at = 1)
         /\ step = "set" => (arpTodo.do = "detach" /\ arpTodo.at = 3) \/ (arpTodo.do = "down" /\ arpTodo.at = 2)
         /\ step = "ask" => arpTodo.do = "resolve" /\ arpTodo.at = 2
         /\ step = "dropL3" => arpTodo.do = "dropL3"
<1>1. TablesTyped /\ PortsTyped /\ EventsTyped /\ InHandTyped /\ arpTodo \in ArpTodo /\ RxTyped /\ WireTyped
  BY ArpTypes DEF ArpInv
<1>2. UNCHANGED <<arpCache, arpAsic, arpDb, arpMembers, arpTimeout, arpRx, arpEvents>> /\ arpTodo.do # "idle"
  BY DEF At
<1>3. TablesTyped' /\ CompleteIsInstalled' /\ NoForgottenNeighbor'
  BY <1>2, ArpTablesFrame
<1>4. EventsTyped' /\ RxTyped'
  BY <1>1, <1>2 DEF EventsTyped, RxTyped
<1>5. TodoSane
  BY DEF ArpInv
<1>6. arpTodo.at \in 1..3
  BY <1>1 DEF ArpTodo
<1>7. /\ arpTodo.do \in {"tell", "dropL3", "flush"} => arpTodo.at = 1
      /\ arpTodo.do \in {"down", "resolve"} => arpTodo.at =< 2
  BY <1>5 DEF TodoSane
<1>8. PICK t : t = arpTodo  OBVIOUS
<1>9. Body(t.do)[t.at] = step
  BY <1>8 DEF At
<1>10. /\ step = "stop" => t.do \in {"detach", "down"} /\ t.at = 1
       /\ step = "send" => (t.do = "detach" /\ t.at = 2) \/ (t.do \in {"flush", "resolve", "tell"} /\ t.at = 1)
       /\ step = "set" => (t.do = "detach" /\ t.at = 3) \/ (t.do = "down" /\ t.at = 2)
       /\ step = "ask" => t.do = "resolve" /\ t.at = 2
       /\ step = "dropL3" => t.do = "dropL3"
       /\ Follows(t)
  BY <1>1, <1>2, <1>7, <1>8, <1>9, BodyFacts
<1>. QED  BY <1>1, <1>2, <1>3, <1>4, <1>5, <1>6, <1>8, <1>10

\* The receiver of the port is stopped, or has none to be stopped.
LEMMA StopStep ==
  ASSUME ArpConstants, ArpInv, MainStop
  PROVE  ArpInv'
<1>0. At("stop") /\ UNCHANGED <<arpInHand, arpL3, arpWire>>
  BY DEF MainStop
<1>s. /\ TablesTyped /\ PortsTyped /\ EventsTyped /\ InHandTyped /\ arpTodo \in ArpTodo /\ RxTyped /\ WireTyped
      /\ TablesTyped' /\ EventsTyped' /\ RxTyped' /\ CompleteIsInstalled' /\ NoForgottenNeighbor'
      /\ UNCHANGED <<arpCache, arpAsic, arpDb, arpMembers, arpTimeout, arpRx, arpEvents>>
      /\ TodoSane /\ Follows(arpTodo) /\ arpTodo.do \in {"detach", "down"} /\ arpTodo.at = 1
  BY <1>0, StepFacts
<1>1. /\ (arpTodo \in ArpTodo)' /\ arpTodo'.do = arpTodo.do /\ arpTodo'.at = 2
      /\ arpTodo'.port = arpTodo.port /\ arpTodo'.left = arpTodo.left /\ arpTodo'.l3 = arpTodo.l3
      /\ arpTodo'.ip = arpTodo.ip /\ arpTodo'.msg = arpTodo.msg /\ Visiting' = Visiting
  <2>1. arpTodo.at < Len(Body(arpTodo.do)) /\ arpTodo.at < 3
    BY <1>s DEF Follows
  <2>. QED  BY <2>1, <1>0, <1>s, Advances
<1>2. PICK p \in ArpPorts : p = arpTodo.port
  BY <1>s DEF TodoSane
<1>p. ASSUME NEW q \in ArpPorts PROVE ~PastStop(q) /\ (PastStop(q)' <=> q = p)
  BY <1>s, <1>1, <1>2 DEF PastStop
<1>3. ASSUME NEW q \in ArpPorts
      PROVE  /\ arpPort'[q] \in [oper: BOOLEAN, l3: ArpIntfs \cup {NoIntf}, rx: 0..2]
             /\ arpPort'[q].oper = arpPort[q].oper /\ arpPort'[q].l3 = arpPort[q].l3
             /\ q # p => arpPort'[q].rx = arpPort[q].rx
             /\ q = p => /\ arpPort'[q].rx =< 1 /\ (arpPort'[q].rx = 0 => arpRx[q] = <<>>)
                         /\ OneReceiver => arpPort'[q].rx = 0
  <2>0. arpPort[q] \in [oper: BOOLEAN, l3: ArpIntfs \cup {NoIntf}, rx: 0..2]
    BY <1>s DEF PortsTyped
  <2>1. CASE /\ arpPort[p].rx > 0 /\ arpRx[p] = <<>>
             /\ arpPort' = [arpPort EXCEPT ![p].rx = arpPort[p].rx - 1]
    <3>1. CASE q # p
      BY <2>0, <2>1, <3>1, <1>s DEF PortsTyped
    <3>2. CASE q = p
      <4>1. arpPort'[q] = [arpPort[q] EXCEPT !.rx = arpPort[q].rx - 1]
        BY <2>1, <3>2, <1>s DEF PortsTyped
      <4>2. PICK n : n = arpPort[q].rx - 1  OBVIOUS
      <4>3. n \in 0..1 /\ (OneReceiver => n = 0)
        BY <2>0, <2>1, <3>2, <4>2 DEF OneReceiver
      <4>4. arpPort'[q] = [arpPort[q] EXCEPT !.rx = n]
        BY <4>1, <4>2
      <4>. QED  BY <2>0, <2>1, <3>2, <4>3, <4>4
    <3>. QED  BY <3>1, <3>2
  <2>2. CASE (~arpPort[p].oper \/ arpPort[p].l3 = NoIntf) /\ arpPort' = arpPort
    <3>1. arpPort[p].rx =< 1 /\ (arpPort[p].rx = 0 => arpRx[p] = <<>>)
      BY <2>2 DEF ArpInv, Receivers
    <3>2. OneReceiver => arpPort[p].rx = 0
      BY <2>2 DEF OneReceiver
    <3>. QED  BY <2>0, <2>2, <3>1, <3>2
  <2>. QED  BY <1>2, <2>1, <2>2 DEF MainStop, Stops
<1>4. PortsTyped'
  <2>1. DOMAIN arpPort' = ArpPorts /\ arpPort' = [q \in ArpPorts |-> arpPort'[q]]
    BY <1>s DEF MainStop, PortsTyped
  <2>. QED  BY <2>1, <1>3, <1>0, <1>s DEF PortsTyped
<1>5. PortsSane'
  BY <1>0, <1>3, <1>s DEF ArpInv, PortsSane
<1>6. TodoSane'
  <2>1. arpTodo.do = "detach" => arpMembers[arpTodo.l3] \subseteq ArpPorts
    BY <1>s DEF TodoSane, PortsTyped
  <2>. QED  BY <1>0, <1>1, <1>3, <1>s, <2>1 DEF TodoSane
<1>7. Receivers'
  <2> SUFFICES ASSUME NEW q \in ArpPorts
               PROVE  /\ arpPort'[q].rx = 0 => arpRx[q] = <<>>
                      /\ (arpPort'[q].l3 # NoIntf /\ arpPort'[q].oper /\ q # p) => arpPort'[q].rx > 0
                      /\ (arpPort'[q].l3 = NoIntf \/ ~arpPort'[q].oper \/ q = p) => arpPort'[q].rx =< 1
                      /\ \A k \in 1..Len(arpRx[q]) : arpRx[q][k].op = "update" /\ arpRx[q][k].port = q
    BY <1>s, <1>p DEF Receivers
  <2>1. /\ arpPort[q].rx = 0 => arpRx[q] = <<>>
        /\ (arpPort[q].l3 # NoIntf /\ arpPort[q].oper) => arpPort[q].rx > 0
        /\ (arpPort[q].l3 = NoIntf \/ ~arpPort[q].oper) => arpPort[q].rx =< 1
        /\ \A k \in 1..Len(arpRx[q]) : arpRx[q][k].op = "update" /\ arpRx[q][k].port = q
    BY <1>p DEF ArpInv, Receivers
  <2>. QED  BY <2>1, <1>3
<1>8. ArpOrdinary'
  <2> SUFFICES ASSUME arpEvents'.past = {}
               PROVE  OneReceiver' /\ LearnsWhereItMay' /\ EntriesOnPorts' /\ FlushedBefore' /\ MembersHaveIt'
    BY DEF ArpOrdinary
  <2>0. OneReceiver /\ LearnsWhereItMay /\ EntriesOnPorts /\ MembersHaveIt
    BY <1>s DEF ArpInv, ArpOrdinary
  <2>1. OneReceiver'
    <3> SUFFICES ASSUME NEW q \in ArpPorts
                 PROVE  /\ arpPort'[q].rx =< 1
                        /\ (arpPort'[q].l3 = NoIntf \/ ~arpPort'[q].oper \/ q = p) => arpPort'[q].rx = 0
      BY <1>p DEF OneReceiver
    <3>1. arpPort[q].rx =< 1 /\ ((arpPort[q].l3 = NoIntf \/ ~arpPort[q].oper) => arpPort[q].rx = 0)
      BY <2>0 DEF OneReceiver
    <3>. QED  BY <3>1, <1>3, <2>0
  <2>2. LearnsWhereItMay'
    BY <2>0, <1>0, <1>1, <1>3, <1>s DEF LearnsWhereItMay
  <2>3. EntriesOnPorts'
    BY <2>0, <1>0, <1>3, <1>s DEF EntriesOnPorts
  <2>4. FlushedBefore'
    BY <1>1 DEF FlushedBefore
  <2>5. MembersHaveIt'
    <3>1. \A i \in arpL3 : arpMembers[i] \subseteq ArpPorts
      BY <1>s DEF PortsTyped
    <3>. QED  BY <2>0, <3>1, <1>0, <1>1, <1>3, <1>s DEF MembersHaveIt
  <2>. QED  BY <2>1, <2>2, <2>3, <2>4, <2>5
<1>9. InHandTyped' /\ WireTyped'
  BY <1>0, <1>s DEF InHandTyped, WireTyped
<1>. QED  BY <1>1, <1>s, <1>4, <1>5, <1>6, <1>7, <1>8, <1>9, ArpTypesNext DEF ArpInv

\* The main goroutine's rendezvous with the cache goroutine.
LEMMA SendTodo ==
  ASSUME ArpConstants, ArpInv, MainSend
  PROVE  /\ TodoSane' /\ (arpTodo \in ArpTodo)' /\ arpTodo'.msg = NoMsg
         /\ \A q \in ArpPorts : PastStop(q)' <=> PastStop(q)
         /\ arpTodo'.do = "resolve" => arpTodo.do = "resolve" /\ Visiting' \subseteq Visiting
         /\ arpTodo.do \in {"detach", "dropL3"} <=> arpTodo'.do \in {"detach", "dropL3"}
         /\ (arpTodo'.do = "detach" /\ arpTodo'.at = 3) => arpTodo.do = "detach" /\ arpTodo'.port = arpTodo.port
<1>0. At("send") /\ UNCHANGED <<arpPort, arpL3>>
  BY DEF MainSend
<1>s. /\ PortsTyped /\ arpTodo \in ArpTodo /\ TodoSane /\ Follows(arpTodo) /\ arpMembers' = arpMembers
      /\ (arpTodo.do = "detach" /\ arpTodo.at = 2) \/ (arpTodo.do \in {"flush", "resolve", "tell"} /\ arpTodo.at = 1)
  BY <1>0, StepFacts
<1>1. CASE arpTodo.do \in {"detach", "resolve"}
  <2>1. arpTodo.at < Len(Body(arpTodo.do)) /\ arpTodo.at < 3
    BY <1>1, <1>s DEF Follows
  <2>2. /\ (arpTodo \in ArpTodo)' /\ arpTodo'.do = arpTodo.do /\ arpTodo'.at = arpTodo.at + 1
        /\ arpTodo'.port = arpTodo.port /\ arpTodo'.left = arpTodo.left /\ arpTodo'.l3 = arpTodo.l3
        /\ arpTodo'.ip = arpTodo.ip /\ arpTodo'.msg = arpTodo.msg /\ Visiting' = Visiting
    BY <2>1, <1>0, Advances
  <2>3. TodoSane' /\ arpTodo'.msg = NoMsg
    BY <1>0, <1>1, <1>s, <2>2 DEF TodoSane
  <2>4. \A q \in ArpPorts : PastStop(q)' <=> PastStop(q)
    BY <1>1, <1>s, <2>2 DEF PastStop
  <2>. QED  BY <1>1, <2>2, <2>3, <2>4
<1>2. CASE arpTodo.do \in {"flush", "tell"}
  <2>1. ~(arpTodo.at < Len(Body(arpTodo.do)))
    BY <1>2, <1>s DEF Follows
  <2>2. /\ TodoSane' /\ (arpTodo \in ArpTodo)' /\ arpTodo'.at = 1 /\ arpTodo'.msg = NoMsg
        /\ arpTodo'.do = "resolve" => arpTodo.do = "resolve" /\ Visiting' \subseteq Visiting
        /\ arpTodo.do \in {"detach", "dropL3"} <=> (arpTodo'.do \in {"detach", "dropL3"} \/ arpTodo.do = "dropL3")
    BY <2>1, <1>0, <1>2, Finishes
  <2>3. \A q \in ArpPorts : PastStop(q)' <=> PastStop(q)
    BY <1>2, <2>2 DEF PastStop
  <2>. QED  BY <1>2, <2>2, <2>3
<1>. QED  BY <1>1, <1>2, <1>s

LEMMA SendStep ==
  ASSUME ArpConstants, ArpInv, MainSend
  PROVE  ArpInv'
<1>0. At("send") /\ arpInHand = NoMsg /\ UNCHANGED <<arpPort, arpL3, arpWire>>
  BY DEF MainSend
<1>s. /\ TablesTyped /\ PortsTyped /\ EventsTyped /\ InHandTyped /\ arpTodo \in ArpTodo /\ RxTyped /\ WireTyped
      /\ TablesTyped' /\ EventsTyped' /\ RxTyped' /\ CompleteIsInstalled' /\ NoForgottenNeighbor'
      /\ UNCHANGED <<arpCache, arpAsic, arpDb, arpMembers, arpTimeout, arpRx, arpEvents>>
      /\ TodoSane /\ (arpTodo.do = "detach" \/ arpTodo.do \in {"flush", "resolve", "tell"})
  BY <1>0, StepFacts
<1>1. /\ TodoSane' /\ (arpTodo \in ArpTodo)' /\ arpTodo'.msg = NoMsg
      /\ \A q \in ArpPorts : PastStop(q)' <=> PastStop(q)
      /\ arpTodo'.do = "resolve" => arpTodo.do = "resolve" /\ Visiting' \subseteq Visiting
      /\ arpTodo.do \in {"detach", "dropL3"} <=> arpTodo'.do \in {"detach", "dropL3"}
      /\ (arpTodo'.do = "detach" /\ arpTodo'.at = 3) => arpTodo.do = "detach" /\ arpTodo'.port = arpTodo.port
  BY SendTodo
<1>2. /\ arpInHand' \in ArpMsg
      /\ \A q \in ArpPorts : Learns(arpInHand', q) =>
           Learns(arpTodo.msg, q) \/ (arpTodo.do = "resolve" /\ q \in Visiting)
      /\ arpTodo.do = "detach" => FlushesPort(arpInHand', arpTodo.port) /\ \A q : ~Learns(arpInHand', q)
  <2>1. CASE arpTodo.do \in {"detach", "flush"}
    <3>1. PICK m : m = [op |-> "flush", port |-> arpTodo.port]  OBVIOUS
    <3>2. arpTodo.port \in ArpPorts  BY <2>1, <1>s DEF TodoSane
    <3>3. m \in ArpMsg  BY <3>1, <3>2 DEF ArpMsg
    <3>4. FlushesPort(m, arpTodo.port) /\ \A q : ~Learns(m, q)  BY <3>1 DEF FlushesPort, Learns
    <3>5. arpInHand' = m  BY <2>1, <3>1 DEF MainSend
    <3>. QED  BY <3>3, <3>4, <3>5
  <2>2. CASE arpTodo.do = "resolve"
    <3>1. PICK p : p = arpTodo.port  OBVIOUS
    <3>2. p \in ArpPorts  BY <2>2, <3>1, <1>s DEF TodoSane
    <3>3. PICK b \in BOOLEAN : b = TRUE  OBVIOUS
    <3>4. arpInHand' = [op |-> "update", ip |-> arpTodo.ip, mac |-> incomplete, port |-> p, rib |-> b]
      BY <2>2, <3>1, <3>3 DEF MainSend, Update
    <3>5. arpTodo.ip \in ArpHosts \cup {self}  BY <1>s DEF ArpTodo
    <3>6. PICK m : m = [op |-> "update", ip |-> arpTodo.ip, mac |-> incomplete, port |-> p, rib |-> b]  OBVIOUS
    <3>7. m \in ArpMsg  BY <3>2, <3>5, <3>6 DEF ArpMsg
    <3>8. \A q : Learns(m, q) => q = p  BY <3>6 DEF Learns
    <3>9. p \in Visiting  BY <3>1, <3>2 DEF Visiting, ArpConstants
    <3>. QED  BY <2>2, <3>4, <3>6, <3>7, <3>8, <3>9
  <2>3. CASE arpTodo.do = "tell"
    <3>1. arpInHand' = arpTodo.msg  BY <2>3 DEF MainSend
    <3>2. arpTodo.msg \in ArpMsg  BY <1>s DEF ArpTodo
    <3>. QED  BY <2>3, <3>1, <3>2
  <2>. QED  BY <2>1, <2>2, <2>3, <1>s
<1>3. PortsTyped' /\ InHandTyped' /\ WireTyped'
  BY <1>0, <1>2, <1>s DEF PortsTyped, InHandTyped, WireTyped
<1>4. PortsSane'
  BY <1>0, <1>s DEF ArpInv, PortsSane
<1>5. Receivers'
  BY <1>0, <1>1, <1>s DEF ArpInv, Receivers
<1>6. ArpOrdinary'
  <2> SUFFICES ASSUME arpEvents'.past = {}
               PROVE  OneReceiver' /\ LearnsWhereItMay' /\ EntriesOnPorts' /\ FlushedBefore' /\ MembersHaveIt'
    BY DEF ArpOrdinary
  <2>0. OneReceiver /\ LearnsWhereItMay /\ EntriesOnPorts /\ MembersHaveIt
    BY <1>s DEF ArpInv, ArpOrdinary
  <2>1. OneReceiver'
    BY <2>0, <1>0, <1>1 DEF OneReceiver
  <2>2. LearnsWhereItMay'
    BY <2>0, <1>0, <1>1, <1>2, <1>s, NoMsgTyped DEF LearnsWhereItMay
  <2>3. EntriesOnPorts'
    BY <2>0, <1>0, <1>s DEF EntriesOnPorts, FlushesPort, NoMsg
  <2>4. FlushedBefore'
    BY <1>1, <1>2 DEF FlushedBefore
  <2>5. MembersHaveIt'
    BY <2>0, <1>0, <1>1, <1>s DEF MembersHaveIt
  <2>. QED  BY <2>1, <2>2, <2>3, <2>4, <2>5
<1>. QED  BY <1>1, <1>3, <1>4, <1>5, <1>6, <1>s, ArpTypesNext DEF ArpInv

\* The port's record is written: it has no address any more, or is down.
LEMMA SetStep ==
  ASSUME ArpConstants, ArpInv, MainSet
  PROVE  ArpInv'
<1>0. At("set") /\ UNCHANGED <<arpInHand, arpL3, arpWire>>
  BY DEF MainSet
<1>s. /\ TablesTyped /\ PortsTyped /\ EventsTyped /\ InHandTyped /\ arpTodo \in ArpTodo /\ RxTyped /\ WireTyped
      /\ TablesTyped' /\ EventsTyped' /\ RxTyped' /\ CompleteIsInstalled' /\ NoForgottenNeighbor'
      /\ UNCHANGED <<arpCache, arpAsic, arpDb, arpMembers, arpTimeout, arpRx, arpEvents>>
      /\ TodoSane /\ Follows(arpTodo)
      /\ (arpTodo.do = "detach" /\ arpTodo.at = 3) \/ (arpTodo.do = "down" /\ arpTodo.at = 2)
  BY <1>0, StepFacts
<1>1. PICK p \in ArpPorts : p = arpTodo.port
  BY <1>s DEF TodoSane
<1>2. ASSUME NEW q \in ArpPorts
      PROVE  /\ arpPort'[q] \in [oper: BOOLEAN, l3: ArpIntfs \cup {NoIntf}, rx: 0..2]
             /\ arpPort'[q].rx = arpPort[q].rx
             /\ q # p => arpPort'[q] = arpPort[q]
             /\ q = p => arpPort'[q].l3 = NoIntf \/ ~arpPort'[q].oper
             /\ q = p /\ arpTodo.do = "detach" => arpPort'[q].l3 = NoIntf
             /\ arpTodo.do = "down" => arpPort'[q].l3 = arpPort[q].l3
             /\ arpPort'[q].l3 # NoIntf => arpPort'[q].l3 = arpPort[q].l3
  <2>0. arpPort[q] \in [oper: BOOLEAN, l3: ArpIntfs \cup {NoIntf}, rx: 0..2]
    BY <1>s DEF PortsTyped
  <2>1. CASE q # p
    <3>1. arpPort'[q] = arpPort[q]
      BY <2>1, <1>1, <1>s DEF MainSet, PortsTyped
    <3>. QED  BY <2>0, <2>1, <3>1
  <2>2. CASE q = p /\ arpTodo.do = "down"
    <3>1. PICK b \in BOOLEAN : b = FALSE  OBVIOUS
    <3>2. arpPort'[q] = [oper |-> b, l3 |-> arpPort[q].l3, rx |-> arpPort[q].rx]
      BY <2>2, <3>1, <1>1, <1>s DEF MainSet, PortsTyped
    <3>. QED  BY <2>0, <2>2, <3>1, <3>2
  <2>3. CASE q = p /\ arpTodo.do = "detach"
    <3>1. arpPort'[q] = [oper |-> arpPort[q].oper, l3 |-> NoIntf, rx |-> arpPort[q].rx]
      BY <2>3, <1>1, <1>s DEF MainSet, PortsTyped
    <3>. QED  BY <2>0, <2>3, <3>1
  <2>. QED  BY <2>1, <2>2, <2>3, <1>s
<1>3. /\ TodoSane' /\ (arpTodo \in ArpTodo)' /\ arpTodo'.at = 1 /\ arpTodo'.msg = NoMsg /\ arpTodo'.do # "resolve"
      /\ arpTodo.do = "detach" => arpTodo'.do \in {"detach", "dropL3"}
  <2>1. ~(arpTodo.at < Len(Body(arpTodo.do)))
    BY <1>s DEF Follows
  <2>2. arpTodo.do \in {"detach", "dropL3"} => arpTodo.do = "dropL3" \/ arpPort'[arpTodo.port].l3 = NoIntf
    BY <1>1, <1>2, <1>s
  <2>3. \A q \in ArpPorts : arpPort'[q].l3 # NoIntf => arpPort[q].l3 # NoIntf
    BY <1>2
  <2>. QED  BY <2>1, <2>2, <2>3, <1>0, <1>s, Finishes
<1>p. PastStop(p) /\ \A q \in ArpPorts : ~PastStop(q)' /\ (q # p => ~PastStop(q))
  BY <1>1, <1>3, <1>s DEF PastStop
<1>4. PortsTyped'
  <2>1. DOMAIN arpPort' = ArpPorts /\ arpPort' = [q \in ArpPorts |-> arpPort'[q]]
    BY <1>s DEF MainSet, PortsTyped
  <2>. QED  BY <2>1, <1>2, <1>0, <1>s DEF PortsTyped
<1>5. PortsSane'
  BY <1>0, <1>2, <1>s DEF ArpInv, PortsSane
<1>7. Receivers'
  <2> SUFFICES ASSUME NEW q \in ArpPorts
               PROVE  /\ arpPort'[q].rx = 0 => arpRx[q] = <<>>
                      /\ (arpPort'[q].l3 # NoIntf /\ arpPort'[q].oper) => arpPort'[q].rx > 0
                      /\ (arpPort'[q].l3 = NoIntf \/ ~arpPort'[q].oper) => arpPort'[q].rx =< 1
                      /\ \A k \in 1..Len(arpRx[q]) : arpRx[q][k].op = "update" /\ arpRx[q][k].port = q
    BY <1>s, <1>p DEF Receivers
  <2>1. CASE q = p
    <3>1. /\ arpPort[q].rx = 0 => arpRx[q] = <<>>
          /\ arpPort[q].rx =< 1
          /\ \A k \in 1..Len(arpRx[q]) : arpRx[q][k].op = "update" /\ arpRx[q][k].port = q
      BY <2>1, <1>p DEF ArpInv, Receivers
    <3>. QED  BY <3>1, <2>1, <1>2
  <2>2. CASE q # p
    BY <2>2, <1>2, <1>p DEF ArpInv, Receivers
  <2>. QED  BY <2>1, <2>2
<1>8. ArpOrdinary'
  <2> SUFFICES ASSUME arpEvents'.past = {}
               PROVE  OneReceiver' /\ LearnsWhereItMay' /\ EntriesOnPorts' /\ FlushedBefore' /\ MembersHaveIt'
    BY DEF ArpOrdinary
  <2>0. OneReceiver /\ LearnsWhereItMay /\ EntriesOnPorts /\ FlushedBefore /\ MembersHaveIt
    BY <1>s DEF ArpInv, ArpOrdinary
  <2>r. arpPort[p].rx = 0 /\ arpRx[p] = <<>>
    BY <2>0, <1>p DEF OneReceiver, ArpInv, Receivers
  <2>1. OneReceiver'
    <3> SUFFICES ASSUME NEW q \in ArpPorts
                 PROVE  /\ arpPort'[q].rx =< 1
                        /\ (arpPort'[q].l3 = NoIntf \/ ~arpPort'[q].oper) => arpPort'[q].rx = 0
      BY <1>p DEF OneReceiver
    <3>1. CASE q = p  BY <3>1, <2>r, <1>2
    <3>2. CASE q # p  BY <3>2, <2>0, <1>2 DEF OneReceiver
    <3>. QED  BY <3>1, <3>2
  <2>f. arpTodo.do = "detach" =>
          /\ ~Learns(arpInHand, p)
          /\ FlushesPort(arpInHand, p) \/ \A ip \in Addresses : arpCache[ip] # NoArp => arpCache[ip].port # p
    BY <2>0, <1>1, <1>s DEF FlushedBefore
  <2>d. \A q \in ArpPorts : arpPort'[q].l3 = arpPort[q].l3 \/ (q = p /\ arpTodo.do = "detach")
    BY <1>2, <1>s
  <2>2. LearnsWhereItMay'
    <3> SUFFICES ASSUME NEW q \in ArpPorts, Learns(arpInHand, q) \/ arpRx[q] # <<>>
                 PROVE  arpPort'[q].l3 # NoIntf
      BY <1>0, <1>3, <1>s, NoMsgTyped DEF LearnsWhereItMay
    <3>1. ~(q = p /\ arpTodo.do = "detach")  BY <2>f, <2>r
    <3>. QED  BY <3>1, <2>d, <2>0 DEF LearnsWhereItMay
  <2>3. EntriesOnPorts'
    <3> SUFFICES ASSUME NEW ip \in Addresses, arpCache[ip] # NoArp
                 PROVE  /\ arpCache[ip].port \in ArpPorts /\ arpCache[ip].l3 \in ArpIntfs
                        /\ \/ arpPort'[arpCache[ip].port].l3 = arpCache[ip].l3
                           \/ FlushesPort(arpInHand, arpCache[ip].port)
      BY <1>0, <1>s DEF EntriesOnPorts
    <3>. QED  BY <2>0, <2>f, <2>d DEF EntriesOnPorts
  <2>4. FlushedBefore'
    BY <1>3 DEF FlushedBefore
  <2>5. MembersHaveIt'
    <3>1. \A i \in arpL3 : arpMembers[i] \subseteq ArpPorts
      BY <1>s DEF PortsTyped
    <3>. QED  BY <2>0, <3>1, <1>0, <1>2, <1>3, <1>s DEF MembersHaveIt
  <2>. QED  BY <2>1, <2>2, <2>3, <2>4, <2>5
<1>9. InHandTyped' /\ WireTyped'
  BY <1>0, <1>s DEF InHandTyped, WireTyped
<1>. QED  BY <1>3, <1>s, <1>4, <1>5, <1>7, <1>8, <1>9, ArpTypesNext DEF ArpInv

\* The interface goes, or the host is asked for.
LEMMA DropStep ==
  ASSUME ArpConstants, ArpInv, MainDropL3
  PROVE  ArpInv'
<1>0. At("dropL3") /\ UNCHANGED <<arpInHand, arpPort, arpWire>> /\ arpL3' = arpL3 \ {arpTodo.l3}
  BY DEF MainDropL3
<1>s. /\ TablesTyped /\ PortsTyped /\ EventsTyped /\ InHandTyped /\ arpTodo \in ArpTodo /\ RxTyped /\ WireTyped
      /\ TablesTyped' /\ EventsTyped' /\ RxTyped' /\ CompleteIsInstalled' /\ NoForgottenNeighbor'
      /\ UNCHANGED <<arpCache, arpAsic, arpDb, arpMembers, arpTimeout, arpRx, arpEvents>>
      /\ TodoSane /\ Follows(arpTodo) /\ arpTodo.do = "dropL3"
  BY <1>0, StepFacts
<1>1. TodoSane' /\ (arpTodo \in ArpTodo)' /\ arpTodo' = Idle
  <2>1. ~(arpTodo.at < Len(Body(arpTodo.do)))
    BY <1>s DEF Follows
  <2>. QED  BY <2>1, <1>0, <1>s, Finishes
<1>2. arpL3' = {} /\ \A p \in ArpPorts : arpPort[p].l3 = NoIntf
  <2>1. arpTodo.l3 \in arpL3 /\ \A p \in arpMembers[arpTodo.l3] : arpPort[p].l3 = NoIntf
    BY <1>s DEF TodoSane
  <2>2. arpL3' = {}
    BY <2>1, <1>0 DEF ArpInv, PortsSane
  <2>3. ASSUME NEW p \in ArpPorts, arpPort[p].l3 # NoIntf PROVE FALSE
    <3>1. arpPort[p].l3 \in arpL3 /\ p \in arpMembers[arpPort[p].l3]
      BY <2>3 DEF ArpInv, PortsSane
    <3>2. arpPort[p].l3 = arpTodo.l3
      BY <3>1, <2>1 DEF ArpInv, PortsSane
    <3>. QED  BY <3>1, <3>2, <2>1, <2>3
  <2>. QED  BY <2>2, <2>3
<1>p. \A p : ~PastStop(p) /\ ~PastStop(p)'
  BY <1>1, <1>s, IdleFacts DEF PastStop
<1>3. PortsTyped' /\ InHandTyped' /\ WireTyped'
  BY <1>0, <1>s DEF PortsTyped, InHandTyped, WireTyped
<1>4. PortsSane'
  BY <1>0, <1>2, <1>s DEF ArpInv, PortsSane
<1>5. Receivers'
  BY <1>0, <1>p, <1>s DEF ArpInv, Receivers
<1>6. ArpOrdinary'
  <2> SUFFICES ASSUME arpEvents'.past = {}
               PROVE  OneReceiver' /\ LearnsWhereItMay' /\ EntriesOnPorts' /\ FlushedBefore' /\ MembersHaveIt'
    BY DEF ArpOrdinary
  <2>0. OneReceiver /\ LearnsWhereItMay /\ EntriesOnPorts
    BY <1>s DEF ArpInv, ArpOrdinary
  <2>1. OneReceiver'
    BY <2>0, <1>0, <1>p DEF OneReceiver
  <2>2. LearnsWhereItMay'
    BY <2>0, <1>0, <1>1, <1>s, IdleFacts, NoMsgTyped DEF LearnsWhereItMay
  <2>3. EntriesOnPorts'
    BY <2>0, <1>0, <1>s DEF EntriesOnPorts
  <2>4. FlushedBefore'
    BY <1>1, IdleFacts DEF FlushedBefore
  <2>5. MembersHaveIt'
    BY <1>2 DEF MembersHaveIt
  <2>. QED  BY <2>1, <2>2, <2>3, <2>4, <2>5
<1>. QED  BY <1>1, <1>3, <1>4, <1>5, <1>6, <1>s, ArpTypesNext DEF ArpInv

LEMMA AskStep ==
  ASSUME ArpConstants, ArpInv, MainAsk
  PROVE  ArpInv'
<1>0. At("ask") /\ UNCHANGED <<arpInHand, arpPort, arpL3>>
  BY DEF MainAsk
<1>s. /\ TablesTyped /\ PortsTyped /\ EventsTyped /\ InHandTyped /\ arpTodo \in ArpTodo /\ RxTyped /\ WireTyped
      /\ TablesTyped' /\ EventsTyped' /\ RxTyped' /\ CompleteIsInstalled' /\ NoForgottenNeighbor'
      /\ UNCHANGED <<arpCache, arpAsic, arpDb, arpMembers, arpTimeout, arpRx, arpEvents>>
      /\ TodoSane /\ Follows(arpTodo) /\ arpTodo.do = "resolve" /\ arpTodo.at = 2
  BY <1>0, StepFacts
<1>1. /\ TodoSane' /\ (arpTodo \in ArpTodo)' /\ arpTodo'.at = 1 /\ arpTodo'.msg = NoMsg
      /\ arpTodo'.do = "resolve" => Visiting' \subseteq Visiting
      /\ arpTodo'.do \notin {"detach", "dropL3"}
  <2>1. ~(arpTodo.at < Len(Body(arpTodo.do)))
    BY <1>s DEF Follows
  <2>. QED  BY <2>1, <1>0, <1>s, Finishes
<1>p. \A p : ~PastStop(p) /\ ~PastStop(p)'
  BY <1>1, <1>s DEF PastStop
<1>2. WireTyped'
  <2>1. PICK ip, ports : ip = arpTodo.ip /\ ports = {arpTodo.port}  OBVIOUS
  <2>2. ip \in Addresses  BY <2>1, <1>s DEF ArpTodo, Addresses
  <2>3. sendArpReq(ip, ports) \subseteq Addresses \X ArpPorts  BY <2>2, RequestsTyped
  <2>4. arpWire' = arpWire \cup sendArpReq(ip, ports)  BY <2>1 DEF MainAsk
  <2>. QED  BY <2>3, <2>4, <1>s DEF WireTyped
<1>3. PortsTyped' /\ InHandTyped'
  BY <1>0, <1>s DEF PortsTyped, InHandTyped
<1>4. PortsSane'
  BY <1>0, <1>s DEF ArpInv, PortsSane
<1>5. Receivers'
  BY <1>0, <1>p, <1>s DEF ArpInv, Receivers
<1>6. ArpOrdinary'
  <2> SUFFICES ASSUME arpEvents'.past = {}
               PROVE  OneReceiver' /\ LearnsWhereItMay' /\ EntriesOnPorts' /\ FlushedBefore' /\ MembersHaveIt'
    BY DEF ArpOrdinary
  <2>0. OneReceiver /\ LearnsWhereItMay /\ EntriesOnPorts /\ MembersHaveIt
    BY <1>s DEF ArpInv, ArpOrdinary
  <2>1. OneReceiver'
    BY <2>0, <1>0, <1>p DEF OneReceiver
  <2>2. LearnsWhereItMay'
    BY <2>0, <1>0, <1>1, <1>s, NoMsgTyped DEF LearnsWhereItMay
  <2>3. EntriesOnPorts'
    BY <2>0, <1>0, <1>s DEF EntriesOnPorts
  <2>4. FlushedBefore'
    BY <1>1 DEF FlushedBefore
  <2>5. MembersHaveIt'
    BY <2>0, <1>0, <1>s DEF MembersHaveIt
  <2>. QED  BY <2>1, <2>2, <2>3, <2>4, <2>5
<1>. QED  BY <1>1, <1>2, <1>3, <1>4, <1>5, <1>6, <1>s, ArpTypesNext DEF ArpInv

-----------------------------------------------------------------------------
(* Start and restart *)

\* buildArpInfra: a port of an interface with an address has one, and then a
\* receiver if it is up.
LEMMA BuildFacts ==
  ASSUME ArpConstants, NEW oper \in [ArpPorts -> BOOLEAN], NEW members \in [ArpIntfs -> SUBSET ArpPorts],
         NEW l3 \in SUBSET ArpIntfs, NEW b, b = buildArpInfra(oper, members, l3)
  PROVE  /\ b \in [ArpPorts -> [oper: BOOLEAN, l3: ArpIntfs \cup {NoIntf}, rx: 0..2]]
         /\ \A p \in ArpPorts :
              /\ b[p].oper = oper[p] /\ b[p].rx \in 0..1
              /\ b[p].l3 # NoIntf => b[p].l3 \in l3 /\ p \in members[b[p].l3]
              /\ b[p].l3 = NoIntf <=> \A i \in l3 : p \notin members[i]
              /\ b[p].rx = 1 <=> b[p].oper /\ b[p].l3 # NoIntf
<1>1. PICK c : c = constructPortInfra(oper)  OBVIOUS
<1>2. PICK d : d = constructL3Infra(c, members, l3)  OBVIOUS
<1>3. b = processArpInfra(d, members, l3)
  BY <1>1, <1>2 DEF buildArpInfra
<1>4. ASSUME NEW p \in ArpPorts
      PROVE  \E j \in ArpIntfs \cup {NoIntf}, n \in 0..1 :
               /\ b[p] = [oper |-> oper[p], l3 |-> j, rx |-> n]
               /\ j # NoIntf => j \in l3 /\ p \in members[j]
               /\ j = NoIntf <=> \A i \in l3 : p \notin members[i]
               /\ n = 1 <=> oper[p] /\ j # NoIntf
  <2>1. c[p] = [oper |-> oper[p], l3 |-> NoIntf, rx |-> 0]
    BY <1>1 DEF constructPortInfra
  <2>2. PICK j : j = IF \E i \in l3 : p \in members[i] THEN CHOOSE i \in l3 : p \in members[i] ELSE NoIntf
    OBVIOUS
  <2>3. /\ j \in ArpIntfs \cup {NoIntf} /\ (j # NoIntf => j \in l3 /\ p \in members[j])
        /\ j = NoIntf <=> \A i \in l3 : p \notin members[i]
    <3>1. CASE \E i \in l3 : p \in members[i]
      <4>1. j \in l3 /\ p \in members[j]  BY <2>2, <3>1
      <4>. QED  BY <3>1, <4>1 DEF ArpConstants
    <3>2. CASE ~\E i \in l3 : p \in members[i]
      BY <2>2, <3>2
    <3>. QED  BY <3>1, <3>2
  <2>4. d[p] = [c[p] EXCEPT !.l3 = j]
    BY <1>2, <2>2 DEF constructL3Infra
  <2>5. d[p] = [oper |-> oper[p], l3 |-> j, rx |-> 0]
    BY <2>1, <2>4
  <2>6. PICK n : n = IF d[p].oper /\ \E i \in l3 : p \in members[i] THEN 1 ELSE 0
    OBVIOUS
  <2>7. n \in 0..1 /\ (n = 1 <=> oper[p] /\ j # NoIntf)
    <3>1. d[p].oper = oper[p]  BY <2>5
    <3>2. (\E i \in l3 : p \in members[i]) <=> j # NoIntf  BY <2>3
    <3>. QED  BY <2>6, <3>1, <3>2
  <2>8. b[p] = [d[p] EXCEPT !.rx = n]
    BY <1>3, <2>6 DEF processArpInfra
  <2>9. b[p] = [oper |-> oper[p], l3 |-> j, rx |-> n]
    BY <2>5, <2>8
  <2>. QED  BY <2>3, <2>7, <2>9
<1>5. ASSUME NEW p \in ArpPorts
      PROVE  /\ b[p] \in [oper: BOOLEAN, l3: ArpIntfs \cup {NoIntf}, rx: 0..2]
             /\ b[p].oper = oper[p] /\ b[p].rx \in 0..1
             /\ b[p].l3 # NoIntf => b[p].l3 \in l3 /\ p \in members[b[p].l3]
             /\ b[p].l3 = NoIntf <=> \A i \in l3 : p \notin members[i]
             /\ b[p].rx = 1 <=> b[p].oper /\ b[p].l3 # NoIntf
  <2>1. PICK j \in ArpIntfs \cup {NoIntf}, n \in 0..1 :
          /\ b[p] = [oper |-> oper[p], l3 |-> j, rx |-> n]
          /\ j # NoIntf => j \in l3 /\ p \in members[j]
          /\ j = NoIntf <=> \A i \in l3 : p \notin members[i]
          /\ n = 1 <=> oper[p] /\ j # NoIntf
    BY <1>4
  <2>2. oper[p] \in BOOLEAN  OBVIOUS
  <2>3. b[p].oper = oper[p] /\ b[p].l3 = j /\ b[p].rx = n  BY <2>1
  <2>4. b[p] \in [oper: BOOLEAN, l3: ArpIntfs \cup {NoIntf}, rx: 0..2]  BY <2>1, <2>2
  <2>. QED  BY <2>1, <2>3, <2>4
<1>6. b = [p \in ArpPorts |-> b[p]]
  BY <1>3 DEF processArpInfra
<1>. QED  BY <1>5, <1>6

LEMMA RestartStep ==
  ASSUME ArpConstants, ArpInv, Restart
  PROVE  ArpInv'
<1>t. TablesTyped /\ PortsTyped /\ EventsTyped /\ arpTodo \in ArpTodo
  BY ArpTypes DEF ArpInv
<1>1. EventsTyped' /\ "restart" \in arpEvents'.past
  <2>1. PICK new : new = {"restart"}  OBVIOUS
  <2>2. new \in SUBSET {"refused", "restart", "twoReceivers", "grown"}  BY <2>1
  <2>3. arpEvents.left > 0 /\ arpEvents' = [left |-> arpEvents.left - 1, past |-> arpEvents.past \cup new]
    BY <2>1 DEF Restart
  <2>4. EventsTyped' /\ new \subseteq arpEvents'.past  BY <1>t, <2>2, <2>3, EventFacts
  <2>. QED  BY <2>1, <2>4
<1>2. ASSUME NEW ip \in Addresses
      PROVE  arpCache'[ip] = NoArp \/ (arpCache'[ip] \in ArpEntry /\ arpCache'[ip].mac = incomplete)
  <2>1. PICK pick \in Picks(arpDb) : arpCache' = updateArpCacheFromDB(arpDb, pick)
    BY DEF Restart
  <2>2. pick[ip] \in ArpIntfs \cup {NoIntf}
    BY <2>1 DEF Picks
  <2>3. CASE \E e \in arpDb : e[1] = ip
    <3>1. PICK n : n = minCnt + ArpRetryCnt + 1  OBVIOUS
    <3>2. n \in 0..DefaultTimeout  BY <3>1, TimeoutFacts DEF ArpConstants, minCnt
    <3>3. PICK b \in BOOLEAN : b = FALSE  OBVIOUS
    <3>4. arpCache'[ip] = [mac |-> incomplete, port |-> NoArpPort, l3 |-> pick[ip], counter |-> n, rib |-> b]
      BY <2>1, <2>3, <3>1, <3>3 DEF updateArpCacheFromDB
    <3>. QED  BY <2>2, <3>2, <3>4 DEF ArpEntry
  <2>4. CASE ~\E e \in arpDb : e[1] = ip
    BY <2>1, <2>4 DEF updateArpCacheFromDB
  <2>. QED  BY <2>3, <2>4
<1>3. TablesTyped' /\ CompleteIsInstalled'
  <2>1. arpCache' = [ip \in Addresses |-> arpCache'[ip]]
    BY DEF Restart, updateArpCacheFromDB
  <2>2. arpAsic' = arpAsic /\ arpDb' = {}
    BY DEF Restart
  <2>3. TablesTyped'
    BY <2>1, <2>2, <1>2, <1>t DEF TablesTyped
  <2>4. CompleteIsInstalled'
    BY <1>2 DEF CompleteIsInstalled, Complete
  <2>. QED  BY <2>3, <2>4
<1>4. NoForgottenNeighbor' /\ ArpOrdinary'
  BY <1>1 DEF NoForgottenNeighbor, ArpOrdinary
<1>5. /\ TodoSane' /\ (arpTodo \in ArpTodo)' /\ arpTodo'.at = 1 /\ InHandTyped'
      /\ arpTimeout' \in [cnt: ArpTimeouts, configured: ArpTimeouts]
  <2>0. arpTimeout \in [cnt: ArpTimeouts, configured: ArpTimeouts]
    BY <1>t DEF PortsTyped
  <2>1. CASE arpTimeout.configured = DefaultTimeout
    <3>1. arpTimeout' = [arpTimeout EXCEPT !.cnt = DefaultTimeout] /\ arpInHand' = NoMsg /\ arpTodo' = Idle
      BY <2>1 DEF Restart
    <3>2. arpTimeout' \in [cnt: ArpTimeouts, configured: ArpTimeouts]
      BY <2>0, <3>1, TimeoutFacts
    <3>3. TodoSane'
      BY <3>1, IdleFacts DEF TodoSane
    <3>. QED  BY <3>1, <3>2, <3>3, IdleFacts, NoMsgTyped DEF InHandTyped
  <2>2. CASE arpTimeout.configured # DefaultTimeout
    <3>1. PICK m : m = [op |-> "cnt", cnt |-> arpTimeout.configured]  OBVIOUS
    <3>2. m \in ArpMsg  BY <3>1, <2>0 DEF ArpMsg
    <3>3. /\ arpTimeout' = [arpTimeout EXCEPT !.cnt = arpTimeout.configured]
          /\ arpInHand' = [op |-> "notStarted"] /\ arpTodo' = Tell(m)
      BY <2>2, <3>1 DEF Restart
    <3>4. arpTimeout' \in [cnt: ArpTimeouts, configured: ArpTimeouts]
      BY <2>0, <3>3
    <3>5. PICK t : t = Tell(m)  OBVIOUS
    <3>6. t \in ArpTodo /\ t.do = "tell" /\ t.at = 1 /\ t.left = {}
      BY <3>2, <3>5, JobFacts DEF Tell
    <3>7. TodoSane'
      BY <3>3, <3>5, <3>6 DEF TodoSane
    <3>. QED  BY <3>3, <3>4, <3>5, <3>6, <3>7 DEF InHandTyped
  <2>. QED  BY <2>1, <2>2
<1>6. UNCHANGED <<arpMembers, arpL3>> /\ arpRx' = [p \in ArpPorts |-> <<>>] /\ arpWire' = {}
  BY DEF Restart
<1>7. /\ arpPort' \in [ArpPorts -> [oper: BOOLEAN, l3: ArpIntfs \cup {NoIntf}, rx: 0..2]]
      /\ \A p \in ArpPorts :
           /\ arpPort'[p].rx \in 0..1
           /\ arpPort'[p].l3 # NoIntf => arpPort'[p].l3 \in arpL3 /\ p \in arpMembers[arpPort'[p].l3]
           /\ arpPort'[p].rx = 1 <=> arpPort'[p].oper /\ arpPort'[p].l3 # NoIntf
  <2>1. PICK oper, b : oper = [p \in ArpPorts |-> arpPort[p].oper] /\ b = arpPort'  OBVIOUS
  <2>2. oper \in [ArpPorts -> BOOLEAN]  BY <2>1, <1>t DEF PortsTyped
  <2>3. b = buildArpInfra(oper, arpMembers, arpL3)  BY <2>1 DEF Restart
  <2>4. arpMembers \in [ArpIntfs -> SUBSET ArpPorts] /\ arpL3 \in SUBSET ArpIntfs  BY <1>t DEF PortsTyped
  <2>5. /\ b \in [ArpPorts -> [oper: BOOLEAN, l3: ArpIntfs \cup {NoIntf}, rx: 0..2]]
        /\ \A p \in ArpPorts :
             /\ b[p].rx \in 0..1
             /\ b[p].l3 # NoIntf => b[p].l3 \in arpL3 /\ p \in arpMembers[b[p].l3]
             /\ b[p].rx = 1 <=> b[p].oper /\ b[p].l3 # NoIntf
    BY <2>2, <2>3, <2>4, BuildFacts
  <2>. QED  BY <2>1, <2>5
<1>8. PortsTyped' /\ RxTyped' /\ WireTyped'
  BY <1>5, <1>6, <1>7, <1>t DEF PortsTyped, RxTyped, WireTyped
<1>9. PortsSane'
  BY <1>6, <1>7 DEF ArpInv, PortsSane
<1>10. Receivers'
  <2> SUFFICES ASSUME NEW q \in ArpPorts
               PROVE  /\ (arpPort'[q].l3 # NoIntf /\ arpPort'[q].oper) => arpPort'[q].rx > 0
                      /\ arpPort'[q].rx =< 1
                      /\ \A k \in 1..Len(arpRx'[q]) : arpRx'[q][k].op = "update" /\ arpRx'[q][k].port = q
                      /\ arpRx'[q] = <<>>
    BY DEF Receivers
  <2>1. arpRx'[q] = <<>>  BY <1>6
  <2>. QED  BY <2>1, <1>7
<1>. QED  BY <1>1, <1>3, <1>4, <1>5, <1>8, <1>9, <1>10, ArpTypesNext DEF ArpInv

LEMMA ArpStarts ==
  ASSUME ArpConstants, ArpInit
  PROVE  ArpInv
<1> USE DEF ArpInit
<1>1. arpMembers \in [ArpIntfs -> SUBSET ArpPorts] /\ arpL3 \in SUBSET ArpIntfs /\ \A i, j \in arpL3 : i = j
  BY DEF ArpConstants
<1>2. /\ arpPort \in [ArpPorts -> [oper: BOOLEAN, l3: ArpIntfs \cup {NoIntf}, rx: 0..2]]
      /\ \A p \in ArpPorts :
           /\ arpPort[p].rx \in 0..1
           /\ arpPort[p].l3 # NoIntf => arpPort[p].l3 \in arpL3 /\ p \in arpMembers[arpPort[p].l3]
           /\ arpPort[p].l3 = NoIntf <=> \A i \in arpL3 : p \notin arpMembers[i]
           /\ arpPort[p].rx = 1 <=> arpPort[p].oper /\ arpPort[p].l3 # NoIntf
  <2>1. PICK oper, b : oper = [p \in ArpPorts |-> TRUE] /\ b = arpPort  OBVIOUS
  <2>2. oper \in [ArpPorts -> BOOLEAN]  BY <2>1
  <2>3. b = buildArpInfra(oper, arpMembers, arpL3)  BY <2>1
  <2> HIDE DEF ArpInit
  <2>4. /\ b \in [ArpPorts -> [oper: BOOLEAN, l3: ArpIntfs \cup {NoIntf}, rx: 0..2]]
        /\ \A p \in ArpPorts :
             /\ b[p].rx \in 0..1
             /\ b[p].l3 # NoIntf => b[p].l3 \in arpL3 /\ p \in arpMembers[b[p].l3]
             /\ b[p].l3 = NoIntf <=> \A i \in arpL3 : p \notin arpMembers[i]
             /\ b[p].rx = 1 <=> b[p].oper /\ b[p].l3 # NoIntf
    BY <1>1, <2>2, <2>3, BuildFacts
  <2>. QED  BY <2>1, <2>4
<1>3. arpCache = [ip \in Addresses |-> NoArp] /\ arpAsic = [ip \in Addresses |-> "none"] /\ arpTodo = Idle
      /\ arpRx = [p \in ArpPorts |-> <<>>] /\ arpInHand = NoMsg
  OBVIOUS
<1>4. ArpTypeOK
  <2>1. TablesTyped  BY DEF TablesTyped
  <2>2. PortsTyped  BY <1>1, <1>2, TimeoutFacts DEF PortsTyped
  <2>3. EventsTyped
    <3>1. arpEvents = [left |-> MaxArpEvents, past |-> {}] /\ MaxArpEvents \in 0..MaxArpEvents
      BY DEF ArpConstants
    <3>. QED  BY <3>1 DEF EventsTyped
  <2>4. InHandTyped /\ arpTodo \in ArpTodo  BY <1>3, NoMsgTyped, IdleFacts DEF InHandTyped
  <2>5. RxTyped /\ WireTyped  BY <1>3 DEF RxTyped, WireTyped
  <2>. QED  BY <2>1, <2>2, <2>3, <2>4, <2>5, ArpTypes
<1>5. CompleteIsInstalled /\ NoForgottenNeighbor
  BY <1>3 DEF CompleteIsInstalled, NoForgottenNeighbor, Complete
<1>6. TodoSane
  BY <1>3, IdleFacts DEF TodoSane
<1>7. PortsSane
  <2>1. \A i, j \in ArpIntfs : \A p \in arpMembers[i] : p \in arpMembers[j] => i = j
    BY DEF ArpConstants
  <2>. QED  BY <1>1, <1>2, <2>1 DEF PortsSane
<1>p. \A p : ~PastStop(p)
  BY <1>3, IdleFacts DEF PastStop
<1>8. Receivers /\ OneReceiver
  <2>1. \A p \in ArpPorts : arpRx[p] = <<>>  BY <1>3
  <2>2. ASSUME NEW p \in ArpPorts
        PROVE  /\ (arpPort[p].l3 # NoIntf /\ arpPort[p].oper) => arpPort[p].rx > 0
               /\ arpPort[p].rx =< 1 /\ ((arpPort[p].l3 = NoIntf \/ ~arpPort[p].oper) => arpPort[p].rx = 0)
               /\ \A k \in 1..Len(arpRx[p]) : arpRx[p][k].op = "update" /\ arpRx[p][k].port = p
    <3> HIDE DEF ArpInit
    <3>1. arpPort[p].rx \in 0..1 /\ (arpPort[p].rx = 1 <=> arpPort[p].oper /\ arpPort[p].l3 # NoIntf)
      BY <1>2
    <3>2. \A k \in 1..Len(arpRx[p]) : arpRx[p][k].op = "update" /\ arpRx[p][k].port = p
      BY <2>1
    <3>. QED  BY <3>1, <3>2
  <2>3. Receivers  BY <1>p, <2>1, <2>2 DEF Receivers
  <2>4. OneReceiver  BY <1>p, <2>2 DEF OneReceiver
  <2>. QED  BY <2>3, <2>4
<1>9. LearnsWhereItMay /\ EntriesOnPorts /\ FlushedBefore
  BY <1>3, IdleFacts, NoMsgTyped DEF LearnsWhereItMay, EntriesOnPorts, FlushedBefore
<1>10. MembersHaveIt
  <2> SUFFICES ASSUME NEW i \in arpL3, NEW p \in arpMembers[i]
               PROVE  arpPort[p].l3 = i
    BY DEF MembersHaveIt
  <2>1. p \in ArpPorts  BY <1>1
  <2>2. arpPort[p].l3 \in arpL3  BY <2>1, <1>2
  <2>. QED  BY <2>2, <1>1
<1>. QED  BY <1>4, <1>5, <1>6, <1>7, <1>8, <1>9, <1>10 DEF ArpInv, ArpOrdinary

-----------------------------------------------------------------------------
(* The theorem about ARPd *)

LEMMA ArpStays ==
  ASSUME ArpInv, UNCHANGED arpVars
  PROVE  ArpInv'
<1>u. UNCHANGED <<arpCache, arpAsic, arpDb, arpPort, arpMembers, arpL3, arpTimeout, arpTodo, arpRx,
                arpInHand, arpWire, arpEvents>>
  BY DEF arpVars
<1>1. ArpTypeOK' /\ CompleteIsInstalled' /\ NoForgottenNeighbor'
  BY <1>u DEF ArpInv, ArpTypeOK, CompleteIsInstalled, NoForgottenNeighbor, Complete
<1>2. TodoSane' /\ PortsSane' /\ Receivers'
  BY <1>u DEF ArpInv, TodoSane, PortsSane, Receivers, PastStop, Visiting
<1>3. ArpOrdinary'
  BY <1>u DEF ArpInv, ArpOrdinary, OneReceiver, LearnsWhereItMay, EntriesOnPorts, FlushedBefore, MembersHaveIt, PastStop, Visiting
<1>. QED  BY <1>1, <1>2, <1>3 DEF ArpInv

LEMMA ArpKeeps ==
  ASSUME ArpConstants, ArpInv, [ArpNext]_arpVars
  PROVE  ArpInv'
<1>1. CASE updateArpCache
  BY <1>1, CacheSteps
<1>2. CASE arpCacheTimeout \/ LoseRequest
  BY <1>2, TimerStep, LoseRequestStep
<1>3. CASE MainStep
  BY <1>3, StopStep, SendStep, SetStep, DropStep, AskStep DEF MainStep
<1>4. CASE Restart
  BY <1>4, RestartStep
<1>5. ASSUME NEW p \in ArpPorts, RxSend(p) PROVE ArpInv'
  BY <1>5, RxSendStep
<1>6. ASSUME NEW p \in ArpPorts, NEW src \in ArpHosts \cup {zero, self}, NEW dst \in ArpHosts \cup {self}, NEW mac \in ArpMacs,
             RxRequest(p, src, dst, mac)
      PROVE  ArpInv'
  BY <1>6, RxRequestStep
<1>7. ASSUME NEW p \in ArpPorts, NEW src \in ArpHosts, NEW dst \in ArpHosts \cup {self}, NEW mac \in ArpMacs,
             processIpPkt(p, src, dst, mac)
      PROVE  ArpInv'
  BY <1>7, IpPacketStep
<1>8. ASSUME NEW p \in ArpPorts, NEW ip \in ArpHosts, NEW mac \in ArpMacs, RxReply(p, ip, mac) PROVE ArpInv'
  BY <1>8, RxReplyStep
<1>9. ASSUME NEW i \in ArpIntfs, processIPv4IntfCreate(i) \/ processL2StateUp(i) PROVE ArpInv'
  BY <1>9, CreateIntf, LinkUp
<1>10. ASSUME NEW i \in ArpIntfs, (\E p \in ArpPorts : updateVlanInfra(i, p)) \/ deleteVlanInfra(i) PROVE ArpInv'
  BY <1>10, MemberSteps
<1>11. CASE \/ \E i \in ArpIntfs : processIPv4IntfDelete(i) \/ processIPv4L3StateDown(i) \/ processL2StateDown(i)
            \/ \E ip \in ArpHosts, i \in ArpIntfs : processResolveIPv4(ip, i) \/ processArpAction(ip, i)
            \/ \E ip \in ArpHosts : processDeleteResolvedIPv4(ip)
            \/ \E t \in ArpTimeouts : processArpConf(t)
            \/ \E ip \in ArpHosts, p \in ArpPorts : processIPv4NbrMacMove(ip, p)
  BY <1>11, Requests
<1>12. CASE UNCHANGED arpVars
  BY <1>12, ArpStays
<1>. QED  BY <1>1, <1>2, <1>3, <1>4, <1>5, <1>6, <1>7, <1>8, <1>9, <1>10, <1>11, <1>12 DEF ArpNext

LEMMA ArpInvIsSafe ==
  ASSUME ArpConstants, ArpInv
  PROVE  ArpSafe
<1>t. PortsTyped /\ arpTodo \in ArpTodo /\ TodoSane
  BY ArpTypes DEF ArpInv
<1>1. EntriesHaveInterface
  <2> SUFFICES ASSUME arpEvents.past = {}, arpInHand = NoMsg, NEW ip \in Addresses, arpCache[ip] # NoArp
               PROVE  arpCache[ip].l3 \in arpL3
    BY DEF EntriesHaveInterface
  <2>1. EntriesOnPorts
    BY DEF ArpInv, ArpOrdinary
  <2>2. /\ arpCache[ip].port \in ArpPorts /\ arpCache[ip].l3 \in ArpIntfs
        /\ arpPort[arpCache[ip].port].l3 = arpCache[ip].l3
    BY <2>1 DEF EntriesOnPorts, FlushesPort, NoMsg
  <2>. QED  BY <2>2 DEF ArpInv, PortsSane, ArpConstants
<1>2. StopHasReceiver
  <2> SUFFICES ASSUME arpTodo.do \in {"detach", "down"}, Body(arpTodo.do)[arpTodo.at] = "stop",
                      Stops, arpPort[arpTodo.port].l3 # NoIntf
               PROVE  arpPort[arpTodo.port].rx > 0
    BY DEF StopHasReceiver
  <2>1. PICK t : t = arpTodo  OBVIOUS
  <2>2. t \in ArpTodo /\ t.do # "idle" /\ Body(t.do)[t.at] = "stop"
    BY <2>1, <1>t
  <2>3. /\ t.do \in {"tell", "dropL3", "flush"} => t.at = 1
        /\ t.do \in {"down", "resolve"} => t.at =< 2
    BY <2>1, <1>t DEF TodoSane
  <2>4. t.at = 1
    BY <2>2, <2>3, BodyFacts
  <2>5. arpTodo.at = 1 /\ arpTodo.port \in ArpPorts /\ arpPort[arpTodo.port].oper
    BY <2>1, <2>4, <1>t DEF TodoSane, Stops
  <2>6. ~PastStop(arpTodo.port)
    BY <2>5 DEF PastStop
  <2>. QED  BY <2>5, <2>6 DEF ArpInv, Receivers
<1>. QED  BY <1>1, <1>2 DEF ArpInv, ArpSafe

\* In every reachable state of ARPd what the cache shows as resolved is what
\* the hardware forwards with, the hardware holds no neighbour the cache has
\* given up, no entry outlives its interface, and the main goroutine never
\* waits for a receiver that is not there, with the exceptions each part names:
\* for all hosts, ports, VLANs and LAGs, any timeouts and any number of
\* requests, packets, refusals of asicd and restarts.
THEOREM ArpIsSafe == ASSUME ArpConstants PROVE ArpSpec => []ArpSafe
<1>1. ArpInit => ArpInv
  BY ArpStarts
<1>2. ArpInv /\ [ArpNext]_arpVars => ArpInv'
  BY ArpKeeps
<1>3. ArpInv => ArpSafe
  BY ArpInvIsSafe
<1>. QED  BY <1>1, <1>2, <1>3, PTL DEF ArpSpec

=============================================================================
